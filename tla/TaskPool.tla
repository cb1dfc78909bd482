------------------------------ MODULE TaskPool ------------------------------
(***************************************************************************)
(* What WorkStealingPool promises its callers, without workers, queues or  *)
(* counters: a task is accepted while the pool is open and refused once it *)
(* is closed; an accepted task runs at most once; a task that has not run  *)
(* is given up (its future breaks) only when the pool object is destroyed, *)
(* which happens only after it was closed.                                 *)
(***************************************************************************)
CONSTANT Task

VARIABLES
  status,   \* status[t]: what the caller of submit can learn about task t
  open,     \* does submit still accept tasks?
  gone      \* has the pool object been destroyed?

poolVars == <<status, open, gone>>

Status == {"new", "accepted", "refused", "completed", "broken"}

PoolInit ==
  /\ status = [t \in Task |-> "new"]
  /\ open = TRUE
  /\ gone = FALSE

Accept(t) ==
  /\ open
  /\ status[t] = "new"
  /\ status' = [status EXCEPT ![t] = "accepted"]
  /\ UNCHANGED <<open, gone>>

Refuse(t) ==
  /\ ~open
  /\ status[t] = "new"
  /\ status' = [status EXCEPT ![t] = "refused"]
  /\ UNCHANGED <<open, gone>>

Complete(t) ==
  /\ ~gone
  /\ status[t] = "accepted"
  /\ status' = [status EXCEPT ![t] = "completed"]
  /\ UNCHANGED <<open, gone>>

Close ==
  /\ open
  /\ open' = FALSE
  /\ UNCHANGED <<status, gone>>

Destroy ==
  /\ ~open
  /\ ~gone
  /\ gone' = TRUE
  /\ status' = [t \in Task |-> IF status[t] = "accepted" THEN "broken" ELSE status[t]]
  /\ UNCHANGED open

PoolNext ==
  \/ \E t \in Task : Accept(t) \/ Refuse(t) \/ Complete(t)
  \/ Close
  \/ Destroy

PoolSpec == PoolInit /\ [][PoolNext]_poolVars
=============================================================================
