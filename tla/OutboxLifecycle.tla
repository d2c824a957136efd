--------------------------- MODULE OutboxLifecycle ---------------------------
(***************************************************************************)
(* What the outbox promises of each message, without relays, leases or     *)
(* time: the state machine of docs/maintainer-development-flow.md:30 and   *)
(* docs/plans/2026-04-29-articleinspect-outbox-phase3-design.md:107-113,   *)
(* with the hand-over to the queue.                                        *)
(***************************************************************************)
CONSTANT Messages

VARIABLES status,   \* status of each message's row, "absent" without a row
          handed    \* messages the queue has accepted at least once

vars == <<status, handed>>

Init == status = [m \in Messages |-> "absent"] /\ handed = {}

Move(m, from, to) ==
  /\ status[m] = from
  /\ status' = [status EXCEPT ![m] = to]
  /\ UNCHANGED handed

Insert(m) == Move(m, "absent", "pending")
Claim(m)  == Move(m, "pending", "claimed")
Retry(m)  == Move(m, "claimed", "pending")
Settle(m) == m \in handed /\ Move(m, "claimed", "dispatched")
Bury(m)   == Move(m, "claimed", "dead_letter")

(* The relay that holds the claim enqueues; its row may just have been *)
(* deleted together with the task.                                     *)
HandOver(m) ==
  /\ status[m] \in {"claimed", "absent"}
  /\ handed' = handed \cup {m}
  /\ UNCHANGED status

(* Deleting a task takes its row in any state; cleanup takes a batch of *)
(* settled rows.                                                        *)
Delete(m) == status[m] # "absent" /\ Move(m, status[m], "absent")
Purge(S) ==
  /\ \A m \in S : status[m] \in {"dispatched", "dead_letter", "absent"}
  /\ status' = [m \in Messages |-> IF m \in S THEN "absent" ELSE status[m]]
  /\ UNCHANGED handed

Next ==
  \/ \E m \in Messages :
       \/ Insert(m) \/ Claim(m) \/ Retry(m) \/ Settle(m) \/ Bury(m)
       \/ HandOver(m) \/ Delete(m)
  \/ \E S \in SUBSET Messages : Purge(S)

Spec == Init /\ [][Next]_vars
=============================================================================
