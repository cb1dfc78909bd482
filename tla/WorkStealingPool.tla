-------------------------- MODULE WorkStealingPool --------------------------
(***************************************************************************)
(* crates/build/executor: N worker threads, each with its own mutex-       *)
(* protected deque; submit() deals tasks round robin; an idle worker       *)
(* steals from the others.  One action is one critical section or one      *)
(* access to an atomic.  The condition variable is left out: a worker only *)
(* ever waits in wait_for with a 1 ms timeout, so it wakes up whether or   *)
(* not it is notified.                                                     *)
(***************************************************************************)
EXTENDS Integers, Sequences, FiniteSets

CONSTANTS
  N,         \* number of workers; the constructor never leaves it 0
  Task,      \* the tasks, each handed to submit() once by a thread of its own
  Stopper,   \* the threads that may call shutdown()
  Owner,     \* the one of them that does so from the destructor
  NULL       \* "holds no task"

ASSUME NAssumption == N \in Nat \ {0}
ASSUME TaskAssumption == IsFiniteSet(Task)
ASSUME OwnerAssumption == Owner \in Stopper
ASSUME NullAssumption == NULL \notin Task

Worker == 0 .. N-1

VARIABLES
  stop,       \* stop_
  active,     \* active_: tasks in flight
  next_push,  \* next_push_: round-robin submit target
  queue,      \* queue[w]: queues_[w]->queue
  pc,         \* pc[w]: where worker w is in worker_loop
  held,       \* held[w]: the task worker w has moved out of a deque
  probe,      \* probe[w]: try_steal's next victim and how many are left
  spc,        \* spc[t]: where the call submit(t) is
  target,     \* target[t]: the deque that call has drawn
  shpc,       \* shpc[s]: where the call of shutdown() by s is
  wpc,        \* where the one call of wait_idle() is
  life,       \* "alive", "dtor" (the destructor runs) or "destroyed"
  done,       \* tasks that have run, so that their future is ready
  waitFor,    \* history: tasks whose submit() had returned when wait_idle() began
  early       \* history: tasks in a deque or with a worker when stop_ was set

workerVars == <<pc, held, probe>>
callVars   == <<spc, target, next_push>>
ctlVars    == <<shpc, wpc, life, waitFor, early>>
vars == <<stop, active, queue, workerVars, callVars, ctlVars, done>>

Probe == [victim : Worker, left : 0 .. N]

NoProbe == [victim |-> 0, left |-> 0]

WorkerPC == {"test", "pop", "steal", "run", "dec", "idle",
             "drain", "drainRun", "drainDec", "exited"}
SubmitPC == {"new", "checked", "counted", "targeted", "returned", "rejected"}

\* A worker that holds a task.
Busy(w) == pc[w] \in {"run", "dec", "drainRun", "drainDec"}

\* Task t is in the deque of w.
InQueue(w, t) == \E i \in DOMAIN queue[w] : queue[w][i] = t

Queued(t) == \E w \in Worker : InQueue(w, t)
Held(t)   == \E w \in Worker : Busy(w) /\ held[w] = t

\* The tasks active_ is meant to count.
InFlight ==
  {t \in Task : spc[t] \in {"counted", "targeted"} \/ Queued(t) \/ Held(t)}

Front(q) == SubSeq(q, 1, Len(q) - 1)
Last(q)  == q[Len(q)]
-----------------------------------------------------------------------------
Init ==
  /\ stop = FALSE
  /\ active = 0
  /\ next_push = 0
  /\ queue = [w \in Worker |-> <<>>]
  /\ pc = [w \in Worker |-> "test"]
  /\ held = [w \in Worker |-> NULL]
  /\ probe = [w \in Worker |-> NoProbe]
  /\ spc = [t \in Task |-> "new"]
  /\ target = [t \in Task |-> 0]
  /\ shpc = [s \in Stopper |-> "off"]
  /\ wpc = "off"
  /\ life = "alive"
  /\ done = {}
  /\ waitFor = {}
  /\ early = {}
-----------------------------------------------------------------------------
(* submit(): read stop_, count the task, draw a deque, push.               *)

\* Mutant: stop_ is not looked at.
SubmitUnchecked(t) ==
  /\ life = "alive" /\ spc[t] = "new"
  /\ spc' = [spc EXCEPT ![t] = "checked"]
  /\ UNCHANGED <<stop, active, queue, workerVars, target, next_push, ctlVars, done>>

\* The pool may be used only until its destructor is called.
SubmitCheck(t) ==
  /\ life = "alive"
  /\ spc[t] = "new"
  /\ spc' = [spc EXCEPT ![t] = IF stop THEN "rejected" ELSE "checked"]
  /\ UNCHANGED <<stop, active, queue, workerVars, target, next_push, ctlVars, done>>

\* Mutant: the fetch_add is missing.
SubmitUncounted(t) ==
  /\ spc[t] = "checked"
  /\ spc' = [spc EXCEPT ![t] = "counted"]
  /\ UNCHANGED <<stop, active, queue, workerVars, target, next_push, ctlVars, done>>

SubmitCount(t) ==
  /\ spc[t] = "checked"
  /\ active' = active + 1
  /\ spc' = [spc EXCEPT ![t] = "counted"]
  /\ UNCHANGED <<stop, queue, workerVars, target, next_push, ctlVars, done>>

SubmitTarget(t) ==
  /\ spc[t] = "counted"
  /\ target' = [target EXCEPT ![t] = next_push % N]
  /\ next_push' = next_push + 1
  /\ spc' = [spc EXCEPT ![t] = "targeted"]
  /\ UNCHANGED <<stop, active, queue, workerVars, ctlVars, done>>

SubmitPush(t) ==
  /\ spc[t] = "targeted"
  /\ queue' = [queue EXCEPT ![target[t]] = Append(@, t)]
  /\ target' = [target EXCEPT ![t] = 0]
  /\ spc' = [spc EXCEPT ![t] = "returned"]
  /\ UNCHANGED <<stop, active, workerVars, next_push, ctlVars, done>>
-----------------------------------------------------------------------------
(* worker_loop()                                                           *)

\* Mutant: the loop does not test stop_.
TestNothing(w) ==
  /\ pc[w] = "test"
  /\ pc' = [pc EXCEPT ![w] = "pop"]
  /\ UNCHANGED <<stop, active, queue, held, probe, callVars, ctlVars, done>>

TestStop(w) ==
  /\ pc[w] = "test"
  /\ pc' = [pc EXCEPT ![w] = IF stop THEN "drain" ELSE "pop"]
  /\ UNCHANGED <<stop, active, queue, held, probe, callVars, ctlVars, done>>

\* Mutant: the pop_back() is missing.
ReadBack(w, next) ==
  /\ queue[w] # <<>>
  /\ held' = [held EXCEPT ![w] = Last(queue[w])]
  /\ pc' = [pc EXCEPT ![w] = next]
  /\ UNCHANGED <<queue, probe>>

\* Take the newest task of w's own deque and continue at `next`.
PopBack(w, next) ==
  /\ queue[w] # <<>>
  /\ held' = [held EXCEPT ![w] = Last(queue[w])]
  /\ queue' = [queue EXCEPT ![w] = Front(@)]
  /\ pc' = [pc EXCEPT ![w] = next]
  /\ UNCHANGED probe

PopLocal(w) ==
  /\ pc[w] = "pop"
  /\ \/ PopBack(w, "run")
     \/ /\ queue[w] = <<>>
        /\ \E start \in Worker :
             probe' = [probe EXCEPT ![w] = [victim |-> start, left |-> IF N <= 1 THEN 0 ELSE N]]
        /\ pc' = [pc EXCEPT ![w] = "steal"]
        /\ UNCHANGED <<queue, held>>
  /\ UNCHANGED <<stop, active, callVars, ctlVars, done>>

\* try_steal() looks at one victim after the other, each under its own lock.
TrySteal(w) ==
  LET v == probe[w].victim IN
  /\ pc[w] = "steal"
  /\ \/ /\ probe[w].left = 0
        /\ pc' = [pc EXCEPT ![w] = "idle"]
        /\ probe' = [probe EXCEPT ![w] = NoProbe]
        /\ UNCHANGED <<queue, held>>
     \/ /\ probe[w].left > 0
        /\ v = w \/ queue[v] = <<>>
        /\ probe' = [probe EXCEPT ![w] = [victim |-> (v + 1) % N, left |-> @.left - 1]]
        /\ UNCHANGED <<queue, held, pc>>
     \/ /\ probe[w].left > 0
        /\ v # w /\ queue[v] # <<>>
        /\ held' = [held EXCEPT ![w] = Head(queue[v])]
        /\ queue' = [queue EXCEPT ![v] = Tail(@)]
        /\ pc' = [pc EXCEPT ![w] = "run"]
        /\ probe' = [probe EXCEPT ![w] = NoProbe]
  /\ UNCHANGED <<stop, active, callVars, ctlVars, done>>

\* The packaged_task runs and makes its future ready; it lets no exception out.
RunTask(w) ==
  /\ pc[w] \in {"run", "drainRun"}
  /\ done' = done \cup {held[w]}
  /\ pc' = [pc EXCEPT ![w] = IF @ = "run" THEN "dec" ELSE "drainDec"]
  /\ UNCHANGED <<stop, active, queue, held, probe, callVars, ctlVars>>

\* Mutant: the fetch_sub is missing.
DecrementNothing(w) ==
  /\ pc[w] \in {"dec", "drainDec"}
  /\ held' = [held EXCEPT ![w] = NULL]
  /\ pc' = [pc EXCEPT ![w] = IF @ = "dec" THEN "test" ELSE "drain"]
  /\ UNCHANGED <<stop, active, queue, probe, callVars, ctlVars, done>>

Decrement(w) ==
  /\ pc[w] \in {"dec", "drainDec"}
  /\ active' = active - 1
  /\ held' = [held EXCEPT ![w] = NULL]
  /\ pc' = [pc EXCEPT ![w] = IF @ = "dec" THEN "test" ELSE "drain"]
  /\ UNCHANGED <<stop, queue, probe, callVars, ctlVars, done>>

\* wait_for() ends on a notification, on its predicate or after 1 ms.
IdleWait(w) ==
  /\ pc[w] = "idle"
  /\ pc' = [pc EXCEPT ![w] = "test"]
  /\ UNCHANGED <<stop, active, queue, held, probe, callVars, ctlVars, done>>

\* Mutant: the worker returns without draining.
DrainNothing(w) ==
  /\ pc[w] = "drain"
  /\ pc' = [pc EXCEPT ![w] = "exited"]
  /\ UNCHANGED <<stop, active, queue, held, probe, callVars, ctlVars, done>>

\* After stop_ a worker empties its own deque and returns.
DrainLocal(w) ==
  /\ pc[w] = "drain"
  /\ \/ PopBack(w, "drainRun")
     \/ /\ queue[w] = <<>>
        /\ pc' = [pc EXCEPT ![w] = "exited"]
        /\ UNCHANGED <<queue, held, probe>>
  /\ UNCHANGED <<stop, active, callVars, ctlVars, done>>
-----------------------------------------------------------------------------
(* shutdown() and the destructor                                           *)

MayShutdown(s) == IF s = Owner THEN life = "dtor" ELSE life = "alive"

\* stop_.exchange(true): whoever finds it already set returns at once.
ShutdownExchange(s) ==
  /\ MayShutdown(s)
  /\ shpc[s] = "off"
  /\ stop' = TRUE
  /\ shpc' = [shpc EXCEPT ![s] = IF stop THEN "returned" ELSE "joining"]
  /\ early' = IF stop THEN early ELSE {t \in Task : Queued(t) \/ Held(t)}
  /\ UNCHANGED <<active, queue, workerVars, callVars, wpc, life, waitFor, done>>

\* Mutant: the join() loop is missing.
JoinNobody(s) ==
  /\ shpc[s] = "joining"
  /\ shpc' = [shpc EXCEPT ![s] = "returned"]
  /\ UNCHANGED <<stop, active, queue, workerVars, callVars, wpc, life, waitFor, early, done>>

ShutdownJoin(s) ==
  /\ shpc[s] = "joining"
  /\ \A w \in Worker : pc[w] = "exited"
  /\ shpc' = [shpc EXCEPT ![s] = "returned"]
  /\ UNCHANGED <<stop, active, queue, workerVars, callVars, wpc, life, waitFor, early, done>>

\* No call is in progress: only then may the owner destroy the pool.
Quiescent ==
  /\ \A t \in Task : spc[t] \in {"new", "rejected", "returned"}
  /\ \A s \in Stopper \ {Owner} : shpc[s] \in {"off", "returned"}
  /\ wpc # "waiting"

DestructorBegin ==
  /\ life = "alive"
  /\ Quiescent
  /\ life' = "dtor"
  /\ UNCHANGED <<stop, active, queue, workerVars, callVars, shpc, wpc, waitFor, early, done>>

\* The members go: tasks left in a deque are destroyed unrun.
DestructorEnd ==
  /\ life = "dtor"
  /\ shpc[Owner] = "returned"
  /\ life' = "destroyed"
  /\ queue' = [w \in Worker |-> <<>>]
  /\ UNCHANGED <<stop, active, workerVars, callVars, shpc, wpc, waitFor, early, done>>
-----------------------------------------------------------------------------
(* wait_idle(): poll active_ until it reads 0.                             *)

WaitIdleCall ==
  /\ life = "alive"
  /\ wpc = "off"
  /\ wpc' = "waiting"
  /\ waitFor' = {t \in Task : spc[t] = "returned"}
  /\ UNCHANGED <<stop, active, queue, workerVars, callVars, shpc, life, early, done>>

WaitIdlePoll ==
  /\ wpc = "waiting"
  /\ active = 0
  /\ wpc' = "returned"
  /\ UNCHANGED <<stop, active, queue, workerVars, callVars, shpc, life, waitFor, early, done>>
-----------------------------------------------------------------------------
SubmitStep(t) == SubmitCheck(t) \/ SubmitCount(t) \/ SubmitTarget(t) \/ SubmitPush(t)

worker_loop(w) ==
  \/ TestStop(w) \/ PopLocal(w) \/ TrySteal(w) \/ RunTask(w)
  \/ Decrement(w) \/ IdleWait(w) \/ DrainLocal(w)

shutdown(s) == ShutdownExchange(s) \/ ShutdownJoin(s)

Next ==
  \/ \E t \in Task : SubmitStep(t)
  \/ \E w \in Worker : worker_loop(w)
  \/ \E s \in Stopper : shutdown(s)
  \/ DestructorBegin \/ DestructorEnd
  \/ WaitIdleCall \/ WaitIdlePoll

Spec == Init /\ [][Next]_vars

\* Every thread that has entered the pool keeps being scheduled; nobody has
\* to call submit(), shutdown(), wait_idle() or the destructor.
Fairness ==
  /\ \A t \in Task : WF_vars(SubmitCount(t) \/ SubmitTarget(t) \/ SubmitPush(t))
  /\ \A w \in Worker : WF_vars(worker_loop(w))
  /\ \A s \in Stopper : WF_vars(ShutdownJoin(s))
  /\ WF_vars(WaitIdlePoll)

FairSpec == Spec /\ Fairness
-----------------------------------------------------------------------------
(* Properties                                                              *)

\* Types of the variables; active_ is a size_t and never goes below 0.
TypeOK ==
  /\ stop \in BOOLEAN
  /\ active \in Nat
  /\ next_push \in Nat
  /\ queue \in [Worker -> Seq(Task)]
  /\ pc \in [Worker -> WorkerPC]
  /\ held \in [Worker -> Task \cup {NULL}]
  /\ probe \in [Worker -> Probe]
  /\ spc \in [Task -> SubmitPC]
  /\ target \in [Task -> Worker]
  /\ shpc \in [Stopper -> {"off", "joining", "returned"}]
  /\ wpc \in {"off", "waiting", "returned"}
  /\ life \in {"alive", "dtor", "destroyed"}
  /\ done \in SUBSET Task
  /\ waitFor \in SUBSET Task
  /\ early \in SUBSET Task

\* No task is run twice, although two workers may race for it: the owner of
\* a deque pops at its back while a thief takes from its front.
RunsOnce == \A w \in Worker : pc[w] \in {"run", "drainRun"} => held[w] \notin done

\* active_ counts exactly the tasks between submit()'s fetch_add and the
\* worker's fetch_sub, whichever threads are in between.
CountsInFlight == life # "destroyed" => active = Cardinality(InFlight)

\* When wait_idle() returns, every task whose submit() had returned when it
\* was called has run.
WaitIdleSound == wpc = "returned" => waitFor \subseteq done

\* Once all workers have left worker_loop(), every task that had been pushed
\* before stop_ was set has run: a thief that stops stealing leaves the rest
\* to the owner of the deque, which drains it.
EarlyTasksDrained == (\A w \in Worker : pc[w] = "exited") => early \subseteq done

\* The destructor never destroys a thread that is still running, even when
\* its own call of shutdown() finds stop_ already set and joins nobody.
JoinedBeforeDestroyed == life = "destroyed" => \A w \in Worker : pc[w] = "exited"

\* executor.hpp:34 "Joins all workers. Pending tasks complete": at the end of
\* the destructor every task that submit() took has run.
PendingTasksComplete ==
  life = "destroyed" => \A t \in Task : spc[t] = "returned" => t \in done

\* A task in a deque while the pool is open runs in the end, whether or not
\* a shutdown comes in between.
QueuedTaskRuns == \A t \in Task : (Queued(t) /\ ~stop) ~> (t \in done)

\* A shutdown that joins the workers returns.
ShutdownReturns == \A s \in Stopper : (shpc[s] = "joining") ~> (shpc[s] = "returned")

\* wait_idle() returns.
WaitIdleReturns == (wpc = "waiting") ~> (wpc = "returned")

-----------------------------------------------------------------------------
(* The inductive invariant behind the properties above                     *)

\* No task is in two places of the deques.
Distinct ==
  \A v, w \in Worker : \A i \in DOMAIN queue[v], j \in DOMAIN queue[w] :
    queue[v][i] = queue[w][j] => v = w /\ i = j

\* Where a task can be: in one deque, or with one worker, or done with.
Placement ==
  /\ Distinct
  /\ \A t \in Task : Queued(t) => spc[t] = "returned" /\ t \notin done /\ ~Held(t)
  /\ \A w \in Worker : Busy(w) =>
       /\ held[w] \in Task
       /\ spc[held[w]] = "returned"
       /\ held[w] \in done <=> pc[w] \in {"dec", "drainDec"}
  /\ \A v, w \in Worker : Busy(v) /\ Busy(w) /\ held[v] = held[w] => v = w
  /\ \A t \in done : spc[t] = "returned"

\* Until the pool is destroyed no accepted task gets out of sight.
Accounted ==
  life # "destroyed" =>
    \A t \in Task : spc[t] = "returned" => Queued(t) \/ Held(t) \/ t \in done

\* How shutdown() and the destructor proceed.
Closing ==
  /\ \A w \in Worker : pc[w] \in {"drain", "drainRun", "drainDec", "exited"} => stop
  /\ \A s \in Stopper : shpc[s] # "off" => stop
  /\ stop => \/ \E s \in Stopper : shpc[s] = "joining"
             \/ \A w \in Worker : pc[w] = "exited"
  /\ life # "alive" => \A s \in Stopper \ {Owner} : shpc[s] # "joining"
  /\ life # "alive" => \A t \in Task : spc[t] \in {"new", "rejected", "returned"}
  /\ life = "destroyed" => stop /\ \A w \in Worker : pc[w] = "exited"

\* A task pushed before stop_ was set has run, or is with a worker, or is in
\* the deque of a worker that has yet to drain it.
EarlyPlaced ==
  /\ ~stop => early = {}
  /\ \A t \in early :
       t \in done \/ Held(t) \/ \E w \in Worker : pc[w] # "exited" /\ InQueue(w, t)

WaitIdleInv ==
  /\ wpc = "off" => waitFor = {}
  /\ wpc = "waiting" => life = "alive"
  /\ \A t \in waitFor : spc[t] = "returned"
  /\ WaitIdleSound

\* The conjunction that every step of the pool preserves: together with the
\* types it implies all the invariants above.
IInv == Placement /\ Accounted /\ Closing /\ CountsInFlight /\ EarlyPlaced /\ WaitIdleInv
-----------------------------------------------------------------------------
(* The abstract specification                                              *)

\* What the caller of submit() can tell about a task.
statusOf(t) ==
  CASE spc[t] = "new" -> "new"
    [] spc[t] = "rejected" -> "refused"
    [] t \in done -> "completed"
    [] OTHER -> IF life = "destroyed" THEN "broken" ELSE "accepted"

Abstract == INSTANCE TaskPool
  WITH status <- [t \in Task |-> statusOf(t)], open <- ~stop, gone <- (life = "destroyed")

\* The pool implements the abstract task pool: acceptance is decided at
\* submit()'s read of stop_, a task completes at most once and only before the
\* pool is destroyed, and a promise breaks only when the pool is destroyed.
ImplementsTaskPool == Abstract!PoolSpec
=============================================================================
