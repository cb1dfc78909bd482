----------------------- MODULE WorkStealingPool_proofs -----------------------
(***************************************************************************)
(* Theorems about WorkStealingPool for every number of workers and every   *)
(* finite set of tasks and stoppers.                                       *)
(***************************************************************************)
EXTENDS WorkStealingPool, FiniteSetTheorems, TLAPS

-----------------------------------------------------------------------------
(* Lemmas about the operators                                              *)

\* The round-robin draw of submit() and the victim walk of try_steal() stay
\* within the workers.
LEMMA ModInWorker == \A k \in Nat : k % N \in Worker
BY NAssumption DEF Worker

\* What Front removes and keeps.
LEMMA FrontProperties ==
  ASSUME NEW S, NEW q \in Seq(S), q # <<>>
  PROVE  /\ Front(q) \in Seq(S)
         /\ Len(Front(q)) = Len(q) - 1
         /\ \A i \in 1 .. Len(q) - 1 : Front(q)[i] = q[i]
         /\ DOMAIN Front(q) = 1 .. Len(q) - 1
         /\ Last(q) \in S
         /\ Len(q) \in DOMAIN q
         /\ DOMAIN q = 1 .. Len(q)
         /\ Len(q) \in Nat \ {0}
<1>1. Len(q) \in Nat \ {0} /\ DOMAIN q = 1 .. Len(q) /\ Len(q) \in DOMAIN q
  OBVIOUS
<1>2. Last(q) \in S
  BY <1>1 DEF Last
<1>3. Front(q) = [i \in 1 .. Len(q) - 1 |-> q[i]]
  BY <1>1 DEF Front
<1>4. \A i \in 1 .. Len(q) - 1 : q[i] \in S
  BY <1>1
<1>5. Front(q) \in Seq(S) /\ Len(Front(q)) = Len(q) - 1
  BY <1>1, <1>3, <1>4
<1> QED BY <1>1, <1>2, <1>3, <1>5

\* What Tail removes and keeps.
LEMMA TailProperties ==
  ASSUME NEW S, NEW q \in Seq(S), q # <<>>
  PROVE  /\ Tail(q) \in Seq(S)
         /\ Len(Tail(q)) = Len(q) - 1
         /\ \A i \in 1 .. Len(q) - 1 : Tail(q)[i] = q[i + 1]
         /\ DOMAIN Tail(q) = 1 .. Len(q) - 1
         /\ Head(q) \in S
         /\ Head(q) = q[1]
         /\ DOMAIN q = 1 .. Len(q)
         /\ Len(q) \in Nat \ {0}
OBVIOUS

\* Pushing a task that is in no deque keeps the deques free of duplicates and
\* adds it to the target's deque only.
LEMMA PushEffect ==
  ASSUME queue \in [Worker -> Seq(Task)], NEW w \in Worker, NEW t \in Task,
         queue' = [queue EXCEPT ![w] = Append(queue[w], t)],
         Distinct, \A x \in Worker : ~InQueue(x, t)
  PROVE  /\ Distinct'
         /\ \A x \in Worker : \A u \in Task :
              InQueue(x, u)' <=> InQueue(x, u) \/ (x = w /\ u = t)
<1> DEFINE n == Len(queue[w])
<1>1. /\ n \in Nat
      /\ DOMAIN queue[w] = 1 .. n
      /\ DOMAIN queue'[w] = 1 .. n + 1
      /\ queue'[w][n + 1] = t
      /\ \A i \in 1 .. n : queue'[w][i] = queue[w][i]
  OBVIOUS
<1>2. \A x \in Worker : x # w => queue'[x] = queue[x]
  OBVIOUS
<1>3. \A x \in Worker : \A i \in DOMAIN queue'[x] :
        \/ i \in DOMAIN queue[x] /\ queue'[x][i] = queue[x][i]
        \/ x = w /\ i = n + 1 /\ queue'[x][i] = t
  BY <1>1, <1>2
<1>4. \A x \in Worker : \A i \in DOMAIN queue[x] : i \in DOMAIN queue'[x] /\ queue'[x][i] = queue[x][i]
  BY <1>1, <1>2
<1>5. Distinct'
  <2> SUFFICES ASSUME NEW x \in Worker, NEW y \in Worker,
                      NEW i \in DOMAIN queue'[x], NEW j \in DOMAIN queue'[y], queue'[x][i] = queue'[y][j]
               PROVE  x = y /\ i = j
    BY DEF Distinct
  <2> HIDE DEF n
  <2> QED BY <1>3 DEF Distinct, InQueue
<1>6. ASSUME NEW x \in Worker, NEW u \in Task
      PROVE  InQueue(x, u)' <=> InQueue(x, u) \/ (x = w /\ u = t)
  <2>1. n + 1 \in DOMAIN queue'[w] BY <1>1
  <2> HIDE DEF n
  <2> QED BY <1>1, <1>3, <1>4, <2>1 DEF InQueue
<1> QED BY <1>5, <1>6

\* Taking a task from the back or the front of a deque removes it from all of
\* them and keeps them free of duplicates.
LEMMA TakeEffect ==
  ASSUME queue \in [Worker -> Seq(Task)], NEW w \in Worker, queue[w] # <<>>,
         NEW t,
         \/ queue' = [queue EXCEPT ![w] = Front(queue[w])] /\ t = Last(queue[w])
         \/ queue' = [queue EXCEPT ![w] = Tail(queue[w])] /\ t = Head(queue[w]),
         Distinct
  PROVE  /\ t \in Task
         /\ InQueue(w, t)
         /\ Distinct'
         /\ \A x \in Worker : \A u \in Task : InQueue(x, u)' <=> InQueue(x, u) /\ u # t
<1> DEFINE n == Len(queue[w])
<1>0. n \in Nat \ {0} /\ DOMAIN queue[w] = 1 .. n
  BY FrontProperties
<1>1. PICK k \in {1, n}, d \in {0, 1} :
        /\ t = queue[w][k]
        /\ (k = 1 /\ d = 1) \/ (k = n /\ d = 0)
        /\ DOMAIN queue'[w] = 1 .. n - 1
        /\ \A i \in 1 .. n - 1 : queue'[w][i] = queue[w][i + d]
  <2>1. CASE queue' = [queue EXCEPT ![w] = Front(queue[w])] /\ t = Last(queue[w])
    <3>1. queue'[w] = Front(queue[w]) BY <2>1
    <3>2. t = queue[w][n] BY <2>1 DEF Last
    <3>3. DOMAIN queue'[w] = 1 .. n - 1 /\ \A i \in 1 .. n - 1 : queue'[w][i] = queue[w][i]
      <4>1. queue[w] \in Seq(Task) /\ queue[w] # <<>> OBVIOUS
      <4>2. /\ DOMAIN Front(queue[w]) = 1 .. n - 1
            /\ \A i \in 1 .. n - 1 : Front(queue[w])[i] = queue[w][i]
        BY <4>1, FrontProperties
      <4> QED BY <3>1, <4>2
    <3>4. \A i \in 1 .. n - 1 : i + 0 = i BY <1>0
    <3> HIDE DEF n
    <3> QED BY <3>2, <3>3, <3>4
  <2>2. CASE queue' = [queue EXCEPT ![w] = Tail(queue[w])] /\ t = Head(queue[w])
    <3>1. queue'[w] = Tail(queue[w]) BY <2>2
    <3>2. t = queue[w][1] BY <2>2, TailProperties
    <3>3. DOMAIN queue'[w] = 1 .. n - 1 /\ \A i \in 1 .. n - 1 : queue'[w][i] = queue[w][i + 1]
      BY <3>1, TailProperties
    <3> HIDE DEF n
    <3> QED BY <3>2, <3>3
  <2> QED BY <2>1, <2>2
<1>2. \A x \in Worker : x # w => queue'[x] = queue[x]
  OBVIOUS
<1>3. k \in DOMAIN queue[w] /\ t \in Task
  <2>1. queue[w] \in Seq(Task) OBVIOUS
  <2>2. \A i \in DOMAIN queue[w] : queue[w][i] \in Task BY <2>1
  <2> HIDE DEF n
  <2>3. k \in 1 .. n
    <3>1. n \in Nat \ {0} BY <1>0
    <3>2. k = 1 \/ k = n BY <1>1
    <3> QED BY <3>1, <3>2
  <2> QED BY <1>0, <1>1, <2>2, <2>3
<1> DEFINE e(x) == IF x = w THEN d ELSE 0
<1>4. \A x \in Worker : \A i \in DOMAIN queue'[x] :
        /\ i \in Int
        /\ i + e(x) \in DOMAIN queue[x]
        /\ queue'[x][i] = queue[x][i + e(x)]
        /\ x = w => i + e(x) # k
  <2> TAKE x \in Worker
  <2> TAKE i \in DOMAIN queue'[x]
  <2>1. CASE x = w
    <3> HIDE DEF n
    <3>1. i \in 1 .. n - 1 /\ queue'[x][i] = queue[x][i + d] BY <1>1, <2>1
    <3> QED BY <1>0, <1>1, <2>1, <3>1
  <2>2. CASE x # w
    <3>1. DOMAIN queue[x] = 1 .. Len(queue[x]) /\ queue'[x] = queue[x] BY <1>2, <2>2
    <3>2. i \in Int /\ i + 0 = i BY <3>1
    <3> QED BY <2>2, <3>1, <3>2
  <2> QED BY <2>1, <2>2
<1>5. \A x \in Worker : \A j \in DOMAIN queue[x] :
        (x = w /\ j = k) \/ \E i \in DOMAIN queue'[x] : queue'[x][i] = queue[x][j]
  <2> TAKE x \in Worker
  <2> TAKE j \in DOMAIN queue[x]
  <2>1. CASE x = w /\ j # k
    <3> HIDE DEF n
    <3>1. j \in 1 .. n BY <1>0, <2>1
    <3>2. j - d \in 1 .. n - 1 /\ (j - d) + d = j BY <1>0, <1>1, <2>1, <3>1
    <3> QED BY <1>1, <2>1, <3>2
  <2>2. CASE x # w BY <1>2, <2>2
  <2> QED BY <2>1, <2>2
<1> HIDE DEF n, e
<1>6. Distinct'
  <2> SUFFICES ASSUME NEW x \in Worker, NEW y \in Worker,
                      NEW i \in DOMAIN queue'[x], NEW j \in DOMAIN queue'[y], queue'[x][i] = queue'[y][j]
               PROVE  x = y /\ i = j
    BY DEF Distinct
  <2>1. x = y /\ i + e(x) = j + e(y) BY <1>4 DEF Distinct
  <2>2. e(x) \in Int BY DEF e
  <2> QED BY <1>4, <2>1, <2>2
<1>7. ASSUME NEW x \in Worker, NEW u \in Task
      PROVE  InQueue(x, u)' <=> InQueue(x, u) /\ u # t
  <2>1. ASSUME InQueue(x, u)' PROVE InQueue(x, u) /\ u # t
    <3>1. PICK i \in DOMAIN queue'[x] : queue'[x][i] = u BY <2>1 DEF InQueue
    <3>2. i + e(x) \in DOMAIN queue[x] /\ queue[x][i + e(x)] = u BY <1>4, <3>1
    <3>3. u # t
      <4> SUFFICES ASSUME u = t PROVE FALSE OBVIOUS
      <4>1. queue[x][i + e(x)] = queue[w][k] BY <3>2, <1>1
      <4>2. x = w /\ i + e(x) = k BY <4>1, <3>2, <1>3, ZenonT(30) DEF Distinct
      <4> QED BY <4>2, <1>4
    <3> QED BY <3>2, <3>3 DEF InQueue
  <2>2. ASSUME InQueue(x, u), u # t PROVE InQueue(x, u)'
    BY <2>2, <1>1, <1>5 DEF InQueue
  <2> QED BY <2>1, <2>2
<1> QED BY <1>1, <1>3, <1>6, <1>7 DEF InQueue

-----------------------------------------------------------------------------
(* Type correctness needs one fact besides itself: active_ is positive when *)
(* a worker is about to decrement it.  That comes from the counting         *)
(* invariant below, so the types are proved without the sign of active.     *)

TypesButSign ==
  /\ stop \in BOOLEAN
  /\ active \in Int
  /\ next_push \in Nat
  /\ queue \in [Worker -> Seq(Task)]
  /\ pc \in [Worker -> WorkerPC]
  /\ held \in [Worker -> Task \cup {NULL}]
  /\ (\A w \in Worker : Busy(w) => held[w] \in Task)
  /\ probe \in [Worker -> Probe]
  /\ spc \in [Task -> SubmitPC]
  /\ target \in [Task -> Worker]
  /\ shpc \in [Stopper -> {"off", "joining", "returned"}]
  /\ wpc \in {"off", "waiting", "returned"}
  /\ life \in {"alive", "dtor", "destroyed"}
  /\ done \in SUBSET Task
  /\ waitFor \in SUBSET Task
  /\ early \in SUBSET Task

\* Every variable keeps its type; active_ is an integer.
LEMMA Typing == Spec => []TypesButSign
<1>1. Init => TypesButSign
  <2> SUFFICES ASSUME Init PROVE TypesButSign
    OBVIOUS
  <2>1. 0 \in Worker /\ NoProbe \in Probe
    BY NAssumption DEF Worker, NoProbe, Probe
  <2>2. <<>> \in Seq(Task)
    OBVIOUS
  <2>3. queue \in [Worker -> Seq(Task)]
    BY <2>2 DEF Init
  <2>4. pc \in [Worker -> WorkerPC] /\ \A w \in Worker : ~Busy(w)
    BY DEF Init, WorkerPC, Busy
  <2> QED BY <2>1, <2>3, <2>4 DEF Init, TypesButSign, SubmitPC
<1>2. TypesButSign /\ [Next]_vars => TypesButSign'
  <2> SUFFICES ASSUME TypesButSign, [Next]_vars PROVE TypesButSign'
    OBVIOUS
  <2> USE DEF TypesButSign, Busy, WorkerPC, SubmitPC, vars, workerVars, callVars, ctlVars
  <2>1. ASSUME NEW t \in Task, SubmitStep(t) PROVE TypesButSign'
    <3>1. CASE SubmitCheck(t) BY <3>1 DEF SubmitCheck
    <3>2. CASE SubmitCount(t) BY <3>2 DEF SubmitCount
    <3>3. CASE SubmitTarget(t) BY <3>3, ModInWorker DEF SubmitTarget
    <3>4. CASE SubmitPush(t)
      <4>1. 0 \in Worker BY NAssumption DEF Worker
      <4> QED BY <3>4, <4>1 DEF SubmitPush
    <3> QED BY <2>1, <3>1, <3>2, <3>3, <3>4 DEF SubmitStep
  <2>2. ASSUME NEW w \in Worker, worker_loop(w) PROVE TypesButSign'
    <3>0. ASSUME NEW p, p \in {"run", "drainRun"}, PopBack(w, p)
          PROVE  /\ queue' \in [Worker -> Seq(Task)]
                 /\ held' \in [Worker -> Task \cup {NULL}]
                 /\ pc' \in [Worker -> WorkerPC]
                 /\ \A x \in Worker : Busy(x)' => held'[x] \in Task
                 /\ probe' = probe
      <4>1. Front(queue[w]) \in Seq(Task) /\ Last(queue[w]) \in Task
        BY <3>0, FrontProperties DEF PopBack
      <4> QED BY <3>0, <4>1 DEF PopBack
    <3>1. CASE TestStop(w) BY <3>1 DEF TestStop
    <3>2. CASE PopLocal(w)
      <4>1. CASE PopBack(w, "run") BY <3>0, <3>2, <4>1 DEF PopLocal
      <4>2. CASE ~PopBack(w, "run")
        <5>1. PICK start \in Worker :
                probe' = [probe EXCEPT ![w] = [victim |-> start, left |-> IF N <= 1 THEN 0 ELSE N]]
          BY <3>2, <4>2 DEF PopLocal
        <5>2. [victim |-> start, left |-> IF N <= 1 THEN 0 ELSE N] \in Probe
          BY NAssumption DEF Probe
        <5>3. probe' \in [Worker -> Probe]
          BY <5>1, <5>2
        <5> QED BY <3>2, <4>2, <5>3 DEF PopLocal
      <4> QED BY <4>1, <4>2
    <3>3. CASE TrySteal(w)
      <4> DEFINE v == probe[w].victim
      <4>0. v \in Worker /\ probe[w].left \in 0 .. N BY DEF Probe
      <4>1. (v + 1) % N \in Worker
        <5>1. v + 1 \in Nat BY <4>0, NAssumption DEF Worker
        <5> QED BY <5>1, ModInWorker
      <4>2. NoProbe \in Probe BY NAssumption DEF NoProbe, Probe, Worker
      <4>3. CASE probe[w].left = 0
        <5>1. /\ pc' = [pc EXCEPT ![w] = "idle"]
              /\ probe' = [probe EXCEPT ![w] = NoProbe]
              /\ UNCHANGED <<queue, held>>
          BY <3>3, <4>3 DEF TrySteal
        <5>2. probe' \in [Worker -> Probe] BY <5>1, <4>2
        <5> QED BY <3>3, <5>1, <5>2 DEF TrySteal
      <4>4. CASE probe[w].left > 0 /\ (v = w \/ queue[v] = <<>>)
        <5>1. [victim |-> (v + 1) % N, left |-> probe[w].left - 1] \in Probe
          BY <4>0, <4>1, <4>4, NAssumption DEF Probe
        <5>2. /\ probe' = [probe EXCEPT ![w] = [victim |-> (v + 1) % N, left |-> probe[w].left - 1]]
              /\ UNCHANGED <<queue, held, pc>>
          BY <3>3, <4>4, <4>0 DEF TrySteal
        <5>3. probe' \in [Worker -> Probe] BY <5>1, <5>2
        <5> QED BY <3>3, <5>2, <5>3 DEF TrySteal
      <4>5. CASE probe[w].left > 0 /\ v # w /\ queue[v] # <<>>
        <5>1. Tail(queue[v]) \in Seq(Task) /\ Head(queue[v]) \in Task
          BY <4>0, <4>5, TailProperties
        <5>2. /\ held' = [held EXCEPT ![w] = Head(queue[v])]
              /\ queue' = [queue EXCEPT ![v] = Tail(queue[v])]
              /\ pc' = [pc EXCEPT ![w] = "run"]
              /\ probe' = [probe EXCEPT ![w] = NoProbe]
          BY <3>3, <4>5, <4>0 DEF TrySteal
        <5>3. probe' \in [Worker -> Probe] /\ queue' \in [Worker -> Seq(Task)]
          BY <5>1, <5>2, <4>2
        <5>4. /\ held' \in [Worker -> Task \cup {NULL}] /\ pc' \in [Worker -> WorkerPC]
              /\ \A x \in Worker : Busy(x)' => held'[x] \in Task
          BY <5>1, <5>2
        <5> QED BY <3>3, <5>3, <5>4 DEF TrySteal
      <4> QED BY <3>3, <4>3, <4>4, <4>5, <4>0 DEF TrySteal
    <3>4. CASE RunTask(w) BY <3>4 DEF RunTask
    <3>5. CASE Decrement(w) BY <3>5 DEF Decrement
    <3>6. CASE IdleWait(w) BY <3>6 DEF IdleWait
    <3>7. CASE DrainLocal(w)
      <4>1. CASE PopBack(w, "drainRun") BY <3>0, <3>7, <4>1 DEF DrainLocal
      <4>2. CASE ~PopBack(w, "drainRun") BY <3>7, <4>2 DEF DrainLocal
      <4> QED BY <4>1, <4>2
    <3> QED BY <2>2, <3>1, <3>2, <3>3, <3>4, <3>5, <3>6, <3>7 DEF worker_loop
  <2>3. ASSUME NEW s \in Stopper, shutdown(s) PROVE TypesButSign'
    <3>1. CASE ShutdownExchange(s) BY <3>1 DEF ShutdownExchange
    <3>2. CASE ShutdownJoin(s) BY <3>2 DEF ShutdownJoin
    <3> QED BY <2>3, <3>1, <3>2 DEF shutdown
  <2>4. CASE DestructorBegin BY <2>4 DEF DestructorBegin
  <2>5. CASE DestructorEnd BY <2>5 DEF DestructorEnd
  <2>6. CASE WaitIdleCall BY <2>6 DEF WaitIdleCall
  <2>7. CASE WaitIdlePoll BY <2>7 DEF WaitIdlePoll
  <2>8. CASE UNCHANGED vars BY <2>8
  <2> QED BY <2>1, <2>2, <2>3, <2>4, <2>5, <2>6, <2>7, <2>8 DEF Next
<1> QED BY <1>1, <1>2, PTL DEF Spec
-----------------------------------------------------------------------------
(* The kinds of step a worker takes, by their effect on deques and workers. *)

sharedVars == <<stop, spc, shpc, wpc, life, waitFor, early>>

\* Worker w takes task t out of the deque of v.
Takes(w, v, t) ==
  /\ ~Busy(w) /\ pc[w] # "exited"
  /\ InQueue(v, t)
  /\ Distinct'
  /\ \A x \in Worker : \A u \in Task : InQueue(x, u)' <=> InQueue(x, u) /\ u # t
  /\ held' = [held EXCEPT ![w] = t]
  /\ \/ pc' = [pc EXCEPT ![w] = "run"]
     \/ pc' = [pc EXCEPT ![w] = "drainRun"] /\ stop
  /\ UNCHANGED <<active, done, sharedVars>>

\* Worker w moves on without touching a task.
Moves(w) ==
  /\ ~Busy(w) /\ pc[w] # "exited"
  /\ \/ \E p \in {"test", "pop", "steal", "idle"} : pc' = [pc EXCEPT ![w] = p]
     \/ pc' = [pc EXCEPT ![w] = "drain"] /\ stop
     \/ pc' = [pc EXCEPT ![w] = "exited"] /\ stop /\ queue[w] = <<>>
  /\ UNCHANGED <<queue, held, active, done, sharedVars>>

\* A step of worker_loop() takes a task, runs it, uncounts it or none of these.
LEMMA WorkerCases ==
  ASSUME TypesButSign, Placement, Closing, NEW w \in Worker, worker_loop(w)
  PROVE  \/ \E v \in Worker : \E t \in Task : Takes(w, v, t)
         \/ Moves(w)
         \/ RunTask(w)
         \/ Decrement(w)
<1> USE DEF sharedVars, callVars, ctlVars, Busy
<1>0. Distinct /\ queue \in [Worker -> Seq(Task)] /\ pc \in [Worker -> WorkerPC]
  BY DEF Placement, TypesButSign
<1>1. ASSUME NEW p, PopBack(w, p), p = "run" \/ (p = "drainRun" /\ stop),
             ~Busy(w), pc[w] # "exited", UNCHANGED <<active, done, sharedVars>>
      PROVE  \E v \in Worker : \E t \in Task : Takes(w, v, t)
  <2> DEFINE t == Last(queue[w])
  <2>1. /\ queue' = [queue EXCEPT ![w] = Front(queue[w])] /\ t = Last(queue[w])
        /\ queue[w] # <<>> /\ held' = [held EXCEPT ![w] = t]
    BY <1>1 DEF PopBack
  <2> HIDE DEF t
  <2>2. /\ t \in Task
        /\ InQueue(w, t)
        /\ Distinct'
        /\ \A x \in Worker : \A u \in Task : InQueue(x, u)' <=> InQueue(x, u) /\ u # t
    BY <1>0, <2>1, TakeEffect
  <2>3. Takes(w, w, t)
    BY <1>1, <2>1, <2>2 DEF Takes, PopBack
  <2> QED BY <2>2, <2>3
<1>2. CASE TestStop(w) BY <1>2 DEF TestStop, Moves
<1>3. CASE PopLocal(w)
  <2>1. CASE PopBack(w, "run") BY <1>1, <1>3, <2>1 DEF PopLocal
  <2>2. CASE ~PopBack(w, "run") BY <1>3, <2>2 DEF PopLocal, Moves
  <2> QED BY <2>1, <2>2
<1>4. CASE TrySteal(w)
  <2> DEFINE v == probe[w].victim
  <2>0. v \in Worker BY DEF TypesButSign, Probe
  <2>1. CASE probe[w].left > 0 /\ v # w /\ queue[v] # <<>> /\ pc' # pc /\ probe[w].left # 0
    <3> DEFINE t == Head(queue[v])
    <3>1. /\ held' = [held EXCEPT ![w] = t] /\ t = Head(queue[v])
          /\ queue' = [queue EXCEPT ![v] = Tail(queue[v])]
          /\ pc' = [pc EXCEPT ![w] = "run"]
      BY <1>4, <2>1 DEF TrySteal
    <3> HIDE DEF t, v
    <3>2. /\ t \in Task
          /\ InQueue(v, t)
          /\ Distinct'
          /\ \A x \in Worker : \A u \in Task : InQueue(x, u)' <=> InQueue(x, u) /\ u # t
      BY <1>0, <2>0, <2>1, <3>1, TakeEffect
    <3>3. Takes(w, v, t)
      BY <1>4, <3>1, <3>2 DEF Takes, TrySteal
    <3> QED BY <2>0, <3>2, <3>3
  <2>2. CASE ~(probe[w].left > 0 /\ v # w /\ queue[v] # <<>> /\ pc' # pc /\ probe[w].left # 0)
    <3>1. /\ pc[w] = "steal"
          /\ pc' = [pc EXCEPT ![w] = "idle"] \/ pc' = pc
          /\ UNCHANGED <<queue, held, active, done, sharedVars>>
      <4>1. pc[w] = "steal" /\ pc' = [pc EXCEPT ![w] = "run"] => pc' # pc
        BY <1>0
      <4>2. probe[w].left > 0 => probe[w].left # 0 BY DEF TypesButSign, Probe
      <4> QED BY <1>4, <2>2, <4>1, <4>2 DEF TrySteal
    <3>2. pc' = pc => pc' = [pc EXCEPT ![w] = "steal"] BY <1>0, <3>1
    <3> QED BY <3>1, <3>2 DEF Moves
  <2> QED BY <2>1, <2>2
<1>5. CASE IdleWait(w) BY <1>5 DEF IdleWait, Moves
<1>6. CASE DrainLocal(w)
  <2>0. stop BY <1>6 DEF Closing, DrainLocal
  <2>1. CASE PopBack(w, "drainRun") BY <1>1, <1>6, <2>0, <2>1 DEF DrainLocal
  <2>2. CASE ~PopBack(w, "drainRun") BY <1>6, <2>0, <2>2 DEF DrainLocal, Moves
  <2> QED BY <2>1, <2>2
<1> QED BY <1>2, <1>3, <1>4, <1>5, <1>6 DEF worker_loop
-----------------------------------------------------------------------------
(* Preservation of the inductive invariant, one lemma for each part.        *)

\* A step does not move a task from one place to two.
LEMMA PlacementStep ==
  ASSUME TypesButSign, Placement, Closing, [Next]_vars
  PROVE  Placement'
<1> USE DEF sharedVars
<1>0. \A t \in Task : (Queued(t) \/ Held(t)) => spc[t] = "returned"
  BY DEF Placement, Held
<1>1. ASSUME NEW t \in Task, SubmitStep(t) PROVE Placement'
  <2>1. CASE ~SubmitPush(t)
    <3>1. /\ spc[t] \in {"new", "checked", "counted"}
          /\ \A u \in Task : u # t => spc'[u] = spc[u]
          /\ UNCHANGED <<queue, pc, held, done>>
      BY <1>1, <2>1 DEF SubmitStep, SubmitCheck, SubmitCount, SubmitTarget, TypesButSign,
                        workerVars, ctlVars, callVars
    <3>2. Distinct' /\ (\A u : Queued(u)' <=> Queued(u)) /\ (\A u : Held(u)' <=> Held(u))
      BY <3>1 DEF Placement, Distinct, Queued, InQueue, Held, Busy
    <3>3. \A x \in Worker : Busy(x)' <=> Busy(x)
      BY <3>1 DEF Busy
    <3>4. \A u \in Task : spc[u] = "returned" => spc'[u] = "returned"
      BY <3>1
    <3>5. \A x \in Worker : Busy(x)' =>
            /\ held'[x] \in Task
            /\ spc'[held'[x]] = "returned"
            /\ held'[x] \in done' <=> pc'[x] \in {"dec", "drainDec"}
      BY <3>1, <3>3, <3>4 DEF Placement
    <3>6. \A u \in Task : Queued(u)' => spc'[u] = "returned" /\ u \notin done' /\ ~Held(u)'
      BY <3>1, <3>2, <3>4 DEF Placement
    <3>7. \A x, y \in Worker : Busy(x)' /\ Busy(y)' /\ held'[x] = held'[y] => x = y
      BY <3>1, <3>3 DEF Placement
    <3>8. \A u \in done' : spc'[u] = "returned"
      BY <3>1, <3>4 DEF Placement, TypesButSign
    <3> QED BY <3>2, <3>5, <3>6, <3>7, <3>8 DEF Placement
  <2>2. CASE SubmitPush(t)
    <3>1. /\ spc[t] = "targeted" /\ spc' = [spc EXCEPT ![t] = "returned"]
          /\ queue' = [queue EXCEPT ![target[t]] = Append(queue[target[t]], t)]
          /\ UNCHANGED <<pc, held, done>>
      BY <2>2 DEF SubmitPush, workerVars
    <3>2. target[t] \in Worker /\ queue \in [Worker -> Seq(Task)] /\ spc \in [Task -> SubmitPC]
      BY DEF TypesButSign
    <3>3. ~Queued(t) /\ ~Held(t) /\ t \notin done
      BY <1>0, <3>1 DEF Placement
    <3>4. \A x \in Worker : ~InQueue(x, t)
      BY <3>3 DEF Queued
    <3>5. Distinct BY DEF Placement
    <3>6. /\ Distinct'
          /\ \A x \in Worker : \A u \in Task :
               InQueue(x, u)' <=> InQueue(x, u) \/ (x = target[t] /\ u = t)
      BY <3>1, <3>2, <3>4, <3>5, PushEffect
    <3>7. \A u \in Task : Queued(u)' <=> Queued(u) \/ u = t
      BY <3>2, <3>6 DEF Queued
    <3>8. \A u : Held(u)' <=> Held(u)
      BY <3>1 DEF Held, Busy
    <3>9. \A u \in Task : (spc[u] = "returned" => spc'[u] = "returned") /\ spc'[t] = "returned"
      BY <3>1, <3>2
    <3>10. \A w \in Worker : Busy(w)' <=> Busy(w)
      BY <3>1 DEF Busy
    <3>11. done \subseteq Task BY DEF TypesButSign
    <3> QED BY <3>1, <3>3, <3>6, <3>7, <3>8, <3>9, <3>10, <3>11 DEF Placement
  <2> QED BY <2>1, <2>2
<1>2. ASSUME NEW w \in Worker, worker_loop(w) PROVE Placement'
  <2>1. ASSUME NEW v \in Worker, NEW t \in Task, Takes(w, v, t) PROVE Placement'
    <3>1. Queued(t) /\ spc[t] = "returned" /\ t \notin done /\ ~Held(t)
      BY <2>1 DEF Takes, Queued, Placement
    <3>2. /\ held' = [held EXCEPT ![w] = t]
          /\ pc' = [pc EXCEPT ![w] = "run"] \/ pc' = [pc EXCEPT ![w] = "drainRun"]
          /\ UNCHANGED <<spc, done>>
          /\ ~Busy(w) /\ Distinct'
      BY <2>1 DEF Takes
    <3>3. \A x \in Worker : x # w => pc'[x] = pc[x] /\ held'[x] = held[x] /\ (Busy(x)' <=> Busy(x))
      BY <3>2 DEF Busy, TypesButSign
    <3>4. held'[w] = t /\ Busy(w)' /\ pc'[w] \in {"run", "drainRun"}
      BY <3>2 DEF Busy, TypesButSign
    <3>5. \A u \in Task : Queued(u)' <=> Queued(u) /\ u # t
      BY <2>1 DEF Takes, Queued
    <3>6. \A u : Held(u)' <=> Held(u) \/ u = t
      BY <3>2, <3>3, <3>4 DEF Held
    <3>7. \A x \in Worker : Busy(x)' =>
            /\ held'[x] \in Task
            /\ spc'[held'[x]] = "returned"
            /\ held'[x] \in done' <=> pc'[x] \in {"dec", "drainDec"}
      BY <3>1, <3>2, <3>3, <3>4 DEF Placement
    <3>8. \A x \in Worker : Busy(x) => held[x] # t
      BY <3>1 DEF Held
    <3>9. \A x, y \in Worker : Busy(x)' /\ Busy(y)' /\ held'[x] = held'[y] => x = y
      BY <3>3, <3>4, <3>8 DEF Placement
    <3> QED BY <3>1, <3>2, <3>5, <3>6, <3>7, <3>9 DEF Placement
  <2>2. CASE Moves(w)
    <3>1. /\ ~Busy(w) /\ ~Busy(w)'
          /\ \A x \in Worker : x # w => pc'[x] = pc[x]
          /\ UNCHANGED <<queue, held, spc, done>>
      BY <2>2 DEF Moves, Busy, TypesButSign
    <3>2. \A x \in Worker : (Busy(x)' <=> Busy(x)) /\ (Busy(x) => pc'[x] = pc[x])
      BY <3>1 DEF Busy
    <3>3. Distinct' /\ (\A u : Queued(u)' <=> Queued(u)) /\ (\A u : Held(u)' <=> Held(u))
      BY <3>1, <3>2 DEF Placement, Distinct, Queued, InQueue, Held
    <3>4. \A x \in Worker : Busy(x)' =>
            /\ held'[x] \in Task
            /\ spc'[held'[x]] = "returned"
            /\ held'[x] \in done' <=> pc'[x] \in {"dec", "drainDec"}
      BY <3>1, <3>2 DEF Placement
    <3>5. \A u \in Task : Queued(u)' => spc'[u] = "returned" /\ u \notin done' /\ ~Held(u)'
      BY <3>1, <3>3 DEF Placement
    <3>6. \A x, y \in Worker : Busy(x)' /\ Busy(y)' /\ held'[x] = held'[y] => x = y
      BY <3>1, <3>2 DEF Placement
    <3>7. \A u \in done' : spc'[u] = "returned"
      BY <3>1 DEF Placement
    <3> QED BY <3>3, <3>4, <3>5, <3>6, <3>7 DEF Placement
  <2>3. CASE RunTask(w)
    <3>1. /\ Busy(w) /\ Busy(w)'
          /\ pc[w] \in {"run", "drainRun"} /\ pc'[w] \in {"dec", "drainDec"}
          /\ \A x \in Worker : x # w => pc'[x] = pc[x]
          /\ done' = done \cup {held[w]}
          /\ UNCHANGED <<queue, held, spc>>
      BY <2>3 DEF RunTask, Busy, TypesButSign, callVars
    <3>2. \A x \in Worker : (Busy(x)' <=> Busy(x))
      BY <3>1 DEF Busy
    <3>3. Distinct' /\ (\A u : Queued(u)' <=> Queued(u)) /\ (\A u : Held(u)' <=> Held(u))
      BY <3>1, <3>2 DEF Placement, Distinct, Queued, InQueue, Held
    <3>4. Held(held[w]) /\ held[w] \in Task /\ spc[held[w]] = "returned"
      BY <3>1 DEF Held, Placement
    <3>5. \A u \in Task : Queued(u)' => spc'[u] = "returned" /\ u \notin done' /\ ~Held(u)'
      BY <3>1, <3>3, <3>4 DEF Placement
    <3>6. \A x \in Worker : x # w /\ Busy(x) => held[x] # held[w]
      BY <3>1 DEF Placement
    <3>7. \A x \in Worker : Busy(x)' =>
            /\ held'[x] \in Task
            /\ spc'[held'[x]] = "returned"
            /\ held'[x] \in done' <=> pc'[x] \in {"dec", "drainDec"}
      BY <3>1, <3>2, <3>4, <3>6 DEF Placement
    <3>8. \A x, y \in Worker : Busy(x)' /\ Busy(y)' /\ held'[x] = held'[y] => x = y
      BY <3>1, <3>2 DEF Placement
    <3>9. \A u \in done' : spc'[u] = "returned"
      BY <3>1, <3>4 DEF Placement
    <3> QED BY <3>3, <3>5, <3>7, <3>8, <3>9 DEF Placement
  <2>4. CASE Decrement(w)
    <3>1. /\ Busy(w) /\ ~Busy(w)'
          /\ \A x \in Worker : x # w => pc'[x] = pc[x] /\ held'[x] = held[x]
          /\ UNCHANGED <<queue, done, spc>>
      BY <2>4 DEF Decrement, Busy, TypesButSign, callVars
    <3>2. \A x \in Worker : (Busy(x)' <=> Busy(x) /\ x # w)
      BY <3>1 DEF Busy
    <3>3. Distinct' /\ (\A u : Queued(u)' <=> Queued(u)) /\ (\A u : Held(u)' => Held(u))
      BY <3>1, <3>2 DEF Placement, Distinct, Queued, InQueue, Held
    <3>4. \A x \in Worker : Busy(x)' =>
            /\ held'[x] \in Task
            /\ spc'[held'[x]] = "returned"
            /\ held'[x] \in done' <=> pc'[x] \in {"dec", "drainDec"}
      BY <3>1, <3>2 DEF Placement
    <3>5. \A u \in Task : Queued(u)' => spc'[u] = "returned" /\ u \notin done' /\ ~Held(u)'
      BY <3>1, <3>3 DEF Placement
    <3>6. \A x, y \in Worker : Busy(x)' /\ Busy(y)' /\ held'[x] = held'[y] => x = y
      BY <3>1, <3>2 DEF Placement
    <3>7. \A u \in done' : spc'[u] = "returned"
      BY <3>1 DEF Placement
    <3> QED BY <3>3, <3>4, <3>5, <3>6, <3>7 DEF Placement
  <2> QED BY <1>2, <2>1, <2>2, <2>3, <2>4, WorkerCases
<1>3. ASSUME UNCHANGED <<queue, pc, held, spc, done>> PROVE Placement'
  BY <1>3 DEF Placement, Distinct, Queued, InQueue, Held, Busy
<1>4. ASSUME NEW s \in Stopper, shutdown(s) PROVE Placement'
  BY <1>3, <1>4 DEF shutdown, ShutdownExchange, ShutdownJoin, workerVars, callVars
<1>5. CASE DestructorEnd
  <2>1. /\ \A w \in Worker : DOMAIN queue'[w] = {}
        /\ UNCHANGED <<pc, held, spc, done>>
    BY <1>5 DEF DestructorEnd, workerVars, callVars
  <2>2. Distinct' /\ (\A u : ~Queued(u)') /\ (\A u : Held(u)' <=> Held(u))
    BY <2>1 DEF Distinct, Queued, InQueue, Held, Busy
  <2>3. \A x \in Worker : Busy(x)' <=> Busy(x)
    BY <2>1 DEF Busy
  <2> QED BY <2>1, <2>2, <2>3 DEF Placement
<1>6. CASE DestructorBegin \/ WaitIdleCall \/ WaitIdlePoll \/ UNCHANGED vars
  BY <1>3, <1>6 DEF DestructorBegin, WaitIdleCall, WaitIdlePoll, vars, workerVars, callVars
<1> QED BY <1>1, <1>2, <1>4, <1>5, <1>6 DEF Next
-----------------------------------------------------------------------------
(* The effect of the steps on where tasks are, in the terms of the          *)
(* invariants: what is queued, what is held.                                *)

\* submit()'s push puts a fresh task into one deque and changes nothing else.
LEMMA SubmitPushEffect ==
  ASSUME TypesButSign, Placement, NEW t \in Task, SubmitPush(t)
  PROVE  /\ ~Queued(t) /\ ~Held(t) /\ t \notin done
         /\ target[t] \in Worker
         /\ \A x \in Worker : \A u \in Task :
              InQueue(x, u)' <=> InQueue(x, u) \/ (x = target[t] /\ u = t)
         /\ \A u \in Task : Queued(u)' <=> Queued(u) \/ u = t
         /\ \A u : Held(u)' <=> Held(u)
         /\ spc[t] = "targeted" /\ spc' = [spc EXCEPT ![t] = "returned"]
         /\ UNCHANGED <<stop, active, done, pc, shpc, wpc, life, waitFor, early>>
<1>1. /\ spc[t] = "targeted" /\ spc' = [spc EXCEPT ![t] = "returned"]
      /\ queue' = [queue EXCEPT ![target[t]] = Append(queue[target[t]], t)]
      /\ UNCHANGED <<stop, active, done, pc, held, shpc, wpc, life, waitFor, early>>
  BY DEF SubmitPush, workerVars, ctlVars
<1>2. target[t] \in Worker /\ queue \in [Worker -> Seq(Task)]
  BY DEF TypesButSign
<1>3. ~Queued(t) /\ ~Held(t) /\ t \notin done
  BY <1>1 DEF Placement, Held
<1>4. (\A x \in Worker : ~InQueue(x, t)) /\ Distinct
  BY <1>3 DEF Queued, Placement
<1>5. \A x \in Worker : \A u \in Task :
        InQueue(x, u)' <=> InQueue(x, u) \/ (x = target[t] /\ u = t)
  BY <1>1, <1>2, <1>4, PushEffect
<1>6. \A u \in Task : Queued(u)' <=> Queued(u) \/ u = t
  BY <1>2, <1>5 DEF Queued
<1>7. \A u : Held(u)' <=> Held(u)
  BY <1>1 DEF Held, Busy
<1> QED BY <1>1, <1>2, <1>3, <1>5, <1>6, <1>7

\* submit()'s other steps leave deques and workers alone.
LEMMA OtherSubmitEffect ==
  ASSUME TypesButSign, NEW t \in Task, SubmitStep(t), ~SubmitPush(t)
  PROVE  /\ \A x, u : InQueue(x, u)' <=> InQueue(x, u)
         /\ \A u : Queued(u)' <=> Queued(u)
         /\ \A u : Held(u)' <=> Held(u)
         /\ \A u \in Task : spc'[u] = "returned" <=> spc[u] = "returned"
         /\ life = "alive" \/ spc[t] # "new"
         /\ UNCHANGED <<stop, done, pc, shpc, wpc, life, waitFor, early>>
<1>1. UNCHANGED <<stop, queue, done, pc, held, shpc, wpc, life, waitFor, early>>
  BY DEF SubmitStep, SubmitCheck, SubmitCount, SubmitTarget, workerVars, ctlVars
<1>2. \A u \in Task : spc'[u] = "returned" <=> spc[u] = "returned"
  BY DEF SubmitStep, SubmitCheck, SubmitCount, SubmitTarget, TypesButSign
<1>3. life = "alive" \/ spc[t] # "new"
  BY DEF SubmitStep, SubmitCheck, SubmitCount, SubmitTarget
<1> QED BY <1>1, <1>2, <1>3 DEF InQueue, Queued, Held, Busy

\* Taking a task moves it from the deques to one worker.
LEMMA TakesEffect ==
  ASSUME TypesButSign, NEW w \in Worker, NEW v \in Worker, NEW t \in Task, Takes(w, v, t)
  PROVE  /\ Queued(t) /\ InQueue(v, t)
         /\ \A x \in Worker : \A u \in Task : InQueue(x, u)' <=> InQueue(x, u) /\ u # t
         /\ \A u \in Task : Queued(u)' <=> Queued(u) /\ u # t
         /\ \A u : Held(u)' <=> Held(u) \/ u = t
         /\ \A x \in Worker : pc'[x] = "exited" <=> pc[x] = "exited"
         /\ \A x \in Worker : pc'[x] \in {"drain", "drainRun", "drainDec", "exited"} =>
              stop \/ pc[x] \in {"drain", "drainRun", "drainDec", "exited"}
         /\ pc[w] # "exited"
         /\ UNCHANGED <<active, done, stop, spc, shpc, wpc, life, waitFor, early>>
<1>1. /\ held' = [held EXCEPT ![w] = t]
      /\ \/ pc' = [pc EXCEPT ![w] = "run"]
         \/ pc' = [pc EXCEPT ![w] = "drainRun"] /\ stop
      /\ ~Busy(w) /\ pc[w] # "exited"
      /\ UNCHANGED <<active, done, stop, spc, shpc, wpc, life, waitFor, early>>
  BY DEF Takes, sharedVars
<1>2. \A x \in Worker : x # w => pc'[x] = pc[x] /\ held'[x] = held[x] /\ (Busy(x)' <=> Busy(x))
  BY <1>1 DEF Busy, TypesButSign
<1>3. held'[w] = t /\ Busy(w)' /\ pc'[w] \in {"run", "drainRun"} /\ (pc'[w] = "drainRun" => stop)
  BY <1>1 DEF Busy, TypesButSign
<1>4. \A u : Held(u)' <=> Held(u) \/ u = t
  BY <1>1, <1>2, <1>3 DEF Held
<1>5. \A u \in Task : Queued(u)' <=> Queued(u) /\ u # t
  BY DEF Takes, Queued
<1>6. \A x \in Worker : \A u \in Task : InQueue(x, u)' <=> InQueue(x, u) /\ u # t
  BY DEF Takes
<1>7. Queued(t) /\ InQueue(v, t)
  BY DEF Takes, Queued
<1>8. \A x \in Worker : pc'[x] = "exited" <=> pc[x] = "exited"
  BY <1>1, <1>2, <1>3
<1>9. \A x \in Worker : pc'[x] \in {"drain", "drainRun", "drainDec", "exited"} =>
        stop \/ pc[x] \in {"drain", "drainRun", "drainDec", "exited"}
  BY <1>2, <1>3
<1> QED BY <1>1, <1>4, <1>5, <1>6, <1>7, <1>8, <1>9

\* A step without a task moves none; a worker exits only on an empty deque.
LEMMA MovesEffect ==
  ASSUME TypesButSign, NEW w \in Worker, Moves(w)
  PROVE  /\ \A x, u : InQueue(x, u)' <=> InQueue(x, u)
         /\ \A u : Queued(u)' <=> Queued(u)
         /\ \A u : Held(u)' <=> Held(u)
         /\ \A x \in Worker : pc'[x] # pc[x] => x = w
         /\ pc[w] # "exited"
         /\ pc'[w] = "exited" => stop /\ \A u : ~InQueue(w, u)
         /\ pc'[w] \in {"drain", "drainRun", "drainDec", "exited"} => stop
         /\ UNCHANGED <<active, done, stop, spc, shpc, wpc, life, waitFor, early>>
<1>1. /\ ~Busy(w) /\ ~Busy(w)'
      /\ \A x \in Worker : x # w => pc'[x] = pc[x]
      /\ UNCHANGED <<queue, held, active, done, stop, spc, shpc, wpc, life, waitFor, early>>
  BY DEF Moves, Busy, TypesButSign, sharedVars
<1>2. \A x \in Worker : Busy(x)' <=> Busy(x)
  BY <1>1 DEF Busy
<1>3. (\A x, u : InQueue(x, u)' <=> InQueue(x, u)) /\ (\A u : Queued(u)' <=> Queued(u))
  BY <1>1 DEF Queued, InQueue
<1>4. \A u : Held(u)' <=> Held(u)
  BY <1>1, <1>2 DEF Held
<1>5. pc'[w] = "exited" => stop /\ queue[w] = <<>>
  BY DEF Moves, TypesButSign
<1>6. queue[w] = <<>> => \A u : ~InQueue(w, u)
  BY DEF InQueue
<1>7. pc'[w] \in {"drain", "drainRun", "drainDec", "exited"} => stop
  BY DEF Moves, TypesButSign
<1>8. pc[w] # "exited"
  BY DEF Moves
<1> QED BY <1>1, <1>3, <1>4, <1>5, <1>6, <1>7, <1>8

\* Running a task marks it done, and it was not done before.
LEMMA RunEffect ==
  ASSUME TypesButSign, Placement, NEW w \in Worker, RunTask(w)
  PROVE  /\ \A x, u : InQueue(x, u)' <=> InQueue(x, u)
         /\ \A u : Queued(u)' <=> Queued(u)
         /\ \A u : Held(u)' <=> Held(u)
         /\ held[w] \in Task /\ held[w] \notin done /\ spc[held[w]] = "returned"
         /\ done' = done \cup {held[w]}
         /\ pc[w] # "exited"
         /\ \A x \in Worker : pc'[x] = "exited" <=> pc[x] = "exited"
         /\ \A x \in Worker : pc'[x] \in {"drain", "drainRun", "drainDec", "exited"} =>
              pc[x] \in {"drain", "drainRun", "drainDec", "exited"}
         /\ UNCHANGED <<active, stop, spc, shpc, wpc, life, waitFor, early>>
<1>1. /\ pc[w] \in {"run", "drainRun"}
      /\ pc' = [pc EXCEPT ![w] = IF pc[w] = "run" THEN "dec" ELSE "drainDec"]
      /\ done' = done \cup {held[w]}
      /\ UNCHANGED <<queue, held, active, stop, spc, shpc, wpc, life, waitFor, early>>
  BY DEF RunTask, callVars, ctlVars
<1>2. /\ \A x \in Worker : Busy(x)' <=> Busy(x)
      /\ \A x \in Worker : pc'[x] = "exited" <=> pc[x] = "exited"
      /\ \A x \in Worker : pc'[x] \in {"drain", "drainRun", "drainDec", "exited"} =>
           pc[x] \in {"drain", "drainRun", "drainDec", "exited"}
  BY <1>1 DEF Busy, TypesButSign
<1>3. Busy(w) /\ held[w] \in Task /\ held[w] \notin done /\ spc[held[w]] = "returned"
  BY <1>1 DEF Busy, Placement
<1>4. (\A x, u : InQueue(x, u)' <=> InQueue(x, u)) /\ (\A u : Queued(u)' <=> Queued(u))
  BY <1>1 DEF Queued, InQueue
<1>5. \A u : Held(u)' <=> Held(u)
  BY <1>1, <1>2 DEF Held
<1> QED BY <1>1, <1>2, <1>3, <1>4, <1>5

\* Uncounting a task takes it, done, from its worker.
LEMMA DecrementEffect ==
  ASSUME TypesButSign, Placement, NEW w \in Worker, Decrement(w)
  PROVE  /\ \A x, u : InQueue(x, u)' <=> InQueue(x, u)
         /\ \A u : Queued(u)' <=> Queued(u)
         /\ \A u : Held(u)' <=> Held(u) /\ u # held[w]
         /\ Held(held[w]) /\ ~Queued(held[w])
         /\ held[w] \in Task /\ held[w] \in done /\ spc[held[w]] = "returned"
         /\ active' = active - 1
         /\ pc[w] # "exited"
         /\ \A x \in Worker : pc'[x] = "exited" <=> pc[x] = "exited"
         /\ \A x \in Worker : pc'[x] \in {"drain", "drainRun", "drainDec", "exited"} =>
              pc[x] \in {"drain", "drainRun", "drainDec", "exited"}
         /\ UNCHANGED <<done, stop, spc, shpc, wpc, life, waitFor, early>>
<1>1. /\ pc[w] \in {"dec", "drainDec"}
      /\ pc' = [pc EXCEPT ![w] = IF pc[w] = "dec" THEN "test" ELSE "drain"]
      /\ active' = active - 1
      /\ held' = [held EXCEPT ![w] = NULL]
      /\ UNCHANGED <<queue, done, stop, spc, shpc, wpc, life, waitFor, early>>
  BY DEF Decrement, callVars, ctlVars
<1>2. /\ \A x \in Worker : Busy(x)' <=> Busy(x) /\ x # w
      /\ \A x \in Worker : x # w => held'[x] = held[x]
      /\ \A x \in Worker : pc'[x] = "exited" <=> pc[x] = "exited"
      /\ \A x \in Worker : pc'[x] \in {"drain", "drainRun", "drainDec", "exited"} =>
           pc[x] \in {"drain", "drainRun", "drainDec", "exited"}
  BY <1>1 DEF Busy, TypesButSign
<1>3. Busy(w) /\ held[w] \in Task /\ held[w] \in done /\ spc[held[w]] = "returned"
  BY <1>1 DEF Busy, Placement
<1>4. (\A x, u : InQueue(x, u)' <=> InQueue(x, u)) /\ (\A u : Queued(u)' <=> Queued(u))
  BY <1>1 DEF Queued, InQueue
<1>5. \A x \in Worker : Busy(x) /\ x # w => held[x] # held[w]
  BY <1>3 DEF Placement
<1>6. \A u : Held(u)' <=> Held(u) /\ u # held[w]
  BY <1>2, <1>5 DEF Held
<1>7. \E x \in Worker : Busy(x) /\ held[x] = held[w]
  BY <1>3
<1>8. \A u \in Task : Queued(u) => \A x \in Worker : ~(Busy(x) /\ held[x] = u)
  BY DEF Placement, Held
<1>9. Held(held[w]) /\ ~Queued(held[w])
  BY <1>3, <1>7, <1>8 DEF Held, Queued, InQueue
<1> QED BY <1>1, <1>2, <1>3, <1>4, <1>6, <1>9
-----------------------------------------------------------------------------
(* The other parts of the invariant                                         *)

\* No step loses sight of an accepted task.
LEMMA AccountedStep ==
  ASSUME TypesButSign, Placement, Closing, Accounted, [Next]_vars
  PROVE  Accounted'
<1>1. ASSUME NEW t \in Task, SubmitStep(t) PROVE Accounted'
  <2>1. CASE SubmitPush(t)
    BY <2>1, SubmitPushEffect DEF Accounted, TypesButSign
  <2>2. CASE ~SubmitPush(t)
    BY <1>1, <2>2, OtherSubmitEffect DEF Accounted
  <2> QED BY <2>1, <2>2
<1>2. ASSUME NEW w \in Worker, worker_loop(w) PROVE Accounted'
  <2>1. ASSUME NEW v \in Worker, NEW t \in Task, Takes(w, v, t) PROVE Accounted'
    BY <2>1, TakesEffect DEF Accounted
  <2>2. CASE Moves(w) BY <2>2, MovesEffect DEF Accounted
  <2>3. CASE RunTask(w) BY <2>3, RunEffect DEF Accounted
  <2>4. CASE Decrement(w) BY <2>4, DecrementEffect DEF Accounted
  <2> QED BY <1>2, <2>1, <2>2, <2>3, <2>4, WorkerCases
<1>3. ASSUME UNCHANGED <<queue, pc, held, spc, done>>, life' # "destroyed" => life # "destroyed"
      PROVE  Accounted'
  BY <1>3 DEF Accounted, Queued, InQueue, Held, Busy
<1>4. ASSUME NEW s \in Stopper, shutdown(s) PROVE Accounted'
  BY <1>3, <1>4 DEF shutdown, ShutdownExchange, ShutdownJoin, workerVars, callVars
<1>5. CASE DestructorEnd BY <1>5 DEF DestructorEnd, Accounted
<1>6. CASE DestructorBegin \/ WaitIdleCall \/ WaitIdlePoll \/ UNCHANGED vars
  BY <1>3, <1>6 DEF DestructorBegin, WaitIdleCall, WaitIdlePoll, vars, workerVars, callVars, ctlVars
<1> QED BY <1>1, <1>2, <1>4, <1>5, <1>6 DEF Next

\* Shutdown and destruction keep their order.
LEMMA ClosingStep ==
  ASSUME TypesButSign, Placement, Closing, [Next]_vars
  PROVE  Closing'
<1>1. ASSUME NEW t \in Task, SubmitStep(t) PROVE Closing'
  <2>1. UNCHANGED <<stop, pc, shpc, life>>
    BY <1>1 DEF SubmitStep, SubmitCheck, SubmitCount, SubmitTarget, SubmitPush, workerVars, ctlVars
  <2>2. life # "alive" => spc' = spc
    BY <1>1 DEF SubmitStep, SubmitCheck, SubmitCount, SubmitTarget, SubmitPush, Closing
  <2> QED BY <2>1, <2>2 DEF Closing
<1>2. ASSUME NEW w \in Worker, worker_loop(w) PROVE Closing'
  <2>1. ASSUME NEW v \in Worker, NEW t \in Task, Takes(w, v, t) PROVE Closing'
    BY <2>1, TakesEffect DEF Closing
  <2>2. CASE Moves(w) BY <2>2, MovesEffect DEF Closing
  <2>3. CASE RunTask(w) BY <2>3, RunEffect DEF Closing
  <2>4. CASE Decrement(w) BY <2>4, DecrementEffect DEF Closing
  <2> QED BY <1>2, <2>1, <2>2, <2>3, <2>4, WorkerCases
<1>3. ASSUME NEW s \in Stopper, ShutdownExchange(s) PROVE Closing'
  <2>1. /\ stop' /\ UNCHANGED <<pc, spc, life>>
        /\ shpc' = [shpc EXCEPT ![s] = IF stop THEN "returned" ELSE "joining"]
        /\ shpc[s] = "off" /\ (life # "alive" => s = Owner)
    BY <1>3 DEF ShutdownExchange, MayShutdown, workerVars, callVars
  <2>2. ASSUME ~stop PROVE \E x \in Stopper : shpc'[x] = "joining"
    <3>1. shpc'[s] = "joining" BY <2>1, <2>2 DEF TypesButSign
    <3> QED BY <3>1
  <2>3. ASSUME stop, NEW x \in Stopper, shpc[x] = "joining" PROVE shpc'[x] = "joining"
    BY <2>1, <2>3 DEF TypesButSign
  <2>4. \A x \in Stopper \ {Owner} : life # "alive" => shpc'[x] # "joining"
    BY <2>1 DEF Closing, TypesButSign
  <2> QED BY <2>1, <2>2, <2>3, <2>4 DEF Closing
<1>4. ASSUME NEW s \in Stopper, ShutdownJoin(s) PROVE Closing'
  <2>1. /\ UNCHANGED <<stop, pc, spc, life>>
        /\ shpc' = [shpc EXCEPT ![s] = "returned"] /\ shpc[s] = "joining"
        /\ \A w \in Worker : pc[w] = "exited"
    BY <1>4 DEF ShutdownJoin, workerVars, callVars
  <2>2. \A x \in Stopper : shpc'[x] = "joining" => shpc[x] = "joining"
    BY <2>1 DEF TypesButSign
  <2>3. stop BY <2>1 DEF Closing
  <2> QED BY <2>1, <2>2, <2>3 DEF Closing
<1>5. CASE DestructorBegin
  BY <1>5 DEF DestructorBegin, Quiescent, Closing, workerVars, callVars
<1>6. CASE DestructorEnd
  <2>1. /\ life = "dtor" /\ shpc[Owner] = "returned" /\ life' = "destroyed"
        /\ UNCHANGED <<stop, pc, spc, shpc>>
    BY <1>6 DEF DestructorEnd, workerVars, callVars
  <2>2. stop /\ \A s \in Stopper : shpc[s] # "joining"
    BY <2>1, OwnerAssumption DEF Closing
  <2>3. \A w \in Worker : pc[w] = "exited"
    BY <2>2 DEF Closing
  <2> QED BY <2>1, <2>2, <2>3 DEF Closing
<1>7. CASE WaitIdleCall \/ WaitIdlePoll \/ UNCHANGED vars
  BY <1>7 DEF WaitIdleCall, WaitIdlePoll, vars, workerVars, callVars, ctlVars, Closing
<1> QED BY <1>1, <1>2, <1>3, <1>4, <1>5, <1>6, <1>7 DEF Next, shutdown

\* A step adds a task to the counted ones, removes one, or leaves them alone.
LEMMA CountStep ==
  ASSUME TypesButSign, Placement, Closing, CountsInFlight, [Next]_vars
  PROVE  CountsInFlight'
<1>0. IsFiniteSet(InFlight)
  BY TaskAssumption, FS_Subset DEF InFlight
<1>1. ASSUME InFlight' = InFlight, active' = active, life # "destroyed" \/ life' = "destroyed"
      PROVE  CountsInFlight'
  BY <1>1 DEF CountsInFlight
<1>2. ASSUME NEW t \in Task, SubmitStep(t) PROVE CountsInFlight'
  <2>1. CASE SubmitPush(t)
    <3>1. InFlight' = InFlight
      BY <2>1, SubmitPushEffect DEF InFlight, TypesButSign
    <3> QED BY <1>1, <2>1, <3>1, SubmitPushEffect
  <2>2. CASE SubmitCount(t)
    <3>1. /\ spc[t] = "checked" /\ spc' = [spc EXCEPT ![t] = "counted"]
          /\ active' = active + 1 /\ life' = life
      BY <2>2 DEF SubmitCount, ctlVars
    <3>2. ~SubmitPush(t) /\ SubmitStep(t)
      BY <2>2, <3>1 DEF SubmitPush, SubmitStep
    <3>3. ~Queued(t) /\ ~Held(t)
      BY <3>1 DEF Placement, Held
    <3>4. InFlight' = InFlight \cup {t}
      BY <3>1, <3>2, OtherSubmitEffect DEF InFlight, TypesButSign
    <3>5. t \notin InFlight BY <3>1, <3>3 DEF InFlight
    <3>6. Cardinality(InFlight \cup {t}) = Cardinality(InFlight) + 1
      BY <1>0, <3>5, FS_AddElement
    <3> QED BY <3>1, <3>4, <3>6 DEF CountsInFlight
  <2>3. CASE SubmitCheck(t) \/ SubmitTarget(t)
    <3>1. active' = active /\ life' = life
      BY <2>3 DEF SubmitCheck, SubmitTarget, ctlVars
    <3>2. /\ ~SubmitPush(t) /\ SubmitStep(t)
          /\ \A u \in Task : spc'[u] \in {"counted", "targeted"} <=> spc[u] \in {"counted", "targeted"}
      BY <2>3 DEF SubmitCheck, SubmitTarget, SubmitPush, SubmitStep, TypesButSign
    <3>3. InFlight' = InFlight
      BY <3>2, OtherSubmitEffect DEF InFlight
    <3> QED BY <1>1, <3>1, <3>3 DEF TypesButSign
  <2> QED BY <1>2, <2>1, <2>2, <2>3 DEF SubmitStep
<1>3. ASSUME NEW w \in Worker, worker_loop(w) PROVE CountsInFlight'
  <2>1. ASSUME NEW v \in Worker, NEW t \in Task, Takes(w, v, t) PROVE CountsInFlight'
    <3>1. InFlight' = InFlight
      BY <2>1, TakesEffect DEF InFlight
    <3> QED BY <1>1, <2>1, <3>1, TakesEffect
  <2>2. CASE Moves(w)
    <3>1. InFlight' = InFlight BY <2>2, MovesEffect DEF InFlight
    <3> QED BY <1>1, <2>2, <3>1, MovesEffect
  <2>3. CASE RunTask(w)
    <3>1. InFlight' = InFlight BY <2>3, RunEffect DEF InFlight
    <3> QED BY <1>1, <2>3, <3>1, RunEffect
  <2>4. CASE Decrement(w)
    <3> DEFINE t == held[w]
    <3>1. /\ t \in Task /\ Held(t) /\ ~Queued(t) /\ spc[t] = "returned"
          /\ \A u : Queued(u)' <=> Queued(u)
          /\ \A u : Held(u)' <=> Held(u) /\ u # t
          /\ active' = active - 1 /\ life' = life /\ spc' = spc
      BY <2>4, DecrementEffect
    <3> HIDE DEF t
    <3>2. InFlight' = InFlight \ {t} BY <3>1 DEF InFlight
    <3>3. t \in InFlight BY <3>1 DEF InFlight
    <3>4. Cardinality(InFlight \ {t}) = Cardinality(InFlight) - 1
      BY <1>0, <3>3, FS_RemoveElement
    <3> QED BY <3>1, <3>2, <3>4 DEF CountsInFlight
  <2> QED BY <1>3, <2>1, <2>2, <2>3, <2>4, WorkerCases
<1>4. ASSUME UNCHANGED <<queue, pc, held, spc>> PROVE InFlight' = InFlight
  BY <1>4 DEF InFlight, Queued, InQueue, Held, Busy
<1>5. ASSUME NEW s \in Stopper, shutdown(s) PROVE CountsInFlight'
  BY <1>1, <1>4, <1>5 DEF shutdown, ShutdownExchange, ShutdownJoin, workerVars, callVars
<1>6. CASE DestructorEnd BY <1>6 DEF DestructorEnd, CountsInFlight
<1>7. CASE DestructorBegin \/ WaitIdleCall \/ WaitIdlePoll \/ UNCHANGED vars
  BY <1>1, <1>4, <1>7 DEF DestructorBegin, WaitIdleCall, WaitIdlePoll, vars, workerVars, callVars, ctlVars
<1> QED BY <1>2, <1>3, <1>5, <1>6, <1>7 DEF Next

\* A task pushed before the stop stays with somebody who will run it.
LEMMA EarlyStep ==
  ASSUME TypesButSign, Placement, Closing, EarlyPlaced, [Next]_vars
  PROVE  EarlyPlaced'
<1>0. early \subseteq Task BY DEF TypesButSign
<1>1. ASSUME NEW t \in Task, SubmitStep(t) PROVE EarlyPlaced'
  <2>1. CASE SubmitPush(t)
    BY <1>0, <2>1, SubmitPushEffect DEF EarlyPlaced
  <2>2. CASE ~SubmitPush(t)
    BY <1>1, <2>2, OtherSubmitEffect DEF EarlyPlaced
  <2> QED BY <2>1, <2>2
<1>2. ASSUME NEW w \in Worker, worker_loop(w) PROVE EarlyPlaced'
  <2>1. ASSUME NEW v \in Worker, NEW t \in Task, Takes(w, v, t) PROVE EarlyPlaced'
    BY <1>0, <2>1, TakesEffect DEF EarlyPlaced
  <2>2. CASE Moves(w)
    BY <1>0, <2>2, MovesEffect DEF EarlyPlaced
  <2>3. CASE RunTask(w) BY <1>0, <2>3, RunEffect DEF EarlyPlaced
  <2>4. CASE Decrement(w) BY <1>0, <2>4, DecrementEffect DEF EarlyPlaced
  <2> QED BY <1>2, <2>1, <2>2, <2>3, <2>4, WorkerCases
<1>3. ASSUME UNCHANGED <<queue, pc, held, done, early, stop>> PROVE EarlyPlaced'
  BY <1>3 DEF EarlyPlaced, InQueue, Held, Busy
<1>4. ASSUME NEW s \in Stopper, ShutdownExchange(s) PROVE EarlyPlaced'
  <2>1. CASE stop
    BY <1>3, <1>4, <2>1 DEF ShutdownExchange, workerVars
  <2>2. CASE ~stop
    <3>1. /\ stop' /\ early' = {t \in Task : Queued(t) \/ Held(t)}
          /\ UNCHANGED <<queue, pc, held, done>>
      BY <1>4, <2>2 DEF ShutdownExchange, workerVars
    <3>2. \A w \in Worker : pc[w] # "exited" BY <2>2 DEF Closing
    <3> QED BY <3>1, <3>2 DEF EarlyPlaced, Queued, InQueue, Held, Busy
  <2> QED BY <2>1, <2>2
<1>5. ASSUME NEW s \in Stopper, ShutdownJoin(s) PROVE EarlyPlaced'
  BY <1>3, <1>5 DEF ShutdownJoin, workerVars
<1>6. CASE DestructorEnd
  <2>1. Closing' BY ClosingStep
  <2>2. /\ life' = "destroyed" /\ UNCHANGED <<pc, held, done, early, stop>>
    BY <1>6 DEF DestructorEnd, workerVars
  <2>3. \A w \in Worker : pc[w] = "exited" BY <2>1, <2>2 DEF Closing
  <2> QED BY <2>2, <2>3 DEF EarlyPlaced, Held, Busy
<1>7. CASE DestructorBegin \/ WaitIdleCall \/ WaitIdlePoll \/ UNCHANGED vars
  BY <1>3, <1>7 DEF DestructorBegin, WaitIdleCall, WaitIdlePoll, vars, workerVars, callVars, ctlVars
<1> QED BY <1>1, <1>2, <1>4, <1>5, <1>6, <1>7 DEF Next, shutdown

\* wait_idle() returns on a counter that has seen every task it waits for.
LEMMA WaitIdleStep ==
  ASSUME TypesButSign, Placement, Accounted, Closing, CountsInFlight, WaitIdleInv, [Next]_vars
  PROVE  WaitIdleInv'
<1> USE DEF WaitIdleSound
<1>1. ASSUME done \subseteq done', UNCHANGED <<wpc, waitFor, life>>,
             \A t \in Task : spc[t] = "returned" => spc'[t] = "returned"
      PROVE  WaitIdleInv'
  BY <1>1 DEF WaitIdleInv, TypesButSign
<1>2. ASSUME NEW t \in Task, SubmitStep(t) PROVE WaitIdleInv'
  <2>1. UNCHANGED <<done, wpc, waitFor, life>>
    BY <1>2 DEF SubmitStep, SubmitCheck, SubmitCount, SubmitTarget, SubmitPush, ctlVars
  <2>2. \A u \in Task : spc[u] = "returned" => spc'[u] = "returned"
    BY <1>2 DEF SubmitStep, SubmitCheck, SubmitCount, SubmitTarget, SubmitPush, TypesButSign
  <2> QED BY <1>1, <2>1, <2>2
<1>3. ASSUME NEW w \in Worker, worker_loop(w) PROVE WaitIdleInv'
  <2>1. ASSUME NEW v \in Worker, NEW t \in Task, Takes(w, v, t) PROVE WaitIdleInv'
    BY <1>1, <2>1, TakesEffect
  <2>2. CASE Moves(w) BY <1>1, <2>2, MovesEffect
  <2>3. CASE RunTask(w) BY <1>1, <2>3, RunEffect
  <2>4. CASE Decrement(w) BY <1>1, <2>4, DecrementEffect
  <2> QED BY <1>3, <2>1, <2>2, <2>3, <2>4, WorkerCases
<1>4. ASSUME NEW s \in Stopper, shutdown(s) PROVE WaitIdleInv'
  BY <1>1, <1>4 DEF shutdown, ShutdownExchange, ShutdownJoin, callVars
<1>5. CASE DestructorBegin
  BY <1>5 DEF DestructorBegin, Quiescent, WaitIdleInv, callVars
<1>6. CASE DestructorEnd
  BY <1>6 DEF DestructorEnd, WaitIdleInv, callVars
<1>7. CASE WaitIdleCall
  BY <1>7 DEF WaitIdleCall, WaitIdleInv, callVars
<1>8. CASE WaitIdlePoll
  <2>1. /\ wpc = "waiting" /\ active = 0 /\ wpc' = "returned"
        /\ UNCHANGED <<spc, done, waitFor, life>>
    BY <1>8 DEF WaitIdlePoll, callVars
  <2>2. life = "alive" BY <2>1 DEF WaitIdleInv
  <2>3. Cardinality(InFlight) = 0 BY <2>1, <2>2 DEF CountsInFlight
  <2>4. IsFiniteSet(InFlight)
    BY TaskAssumption, FS_Subset DEF InFlight
  <2>5. InFlight = {} BY <2>3, <2>4, FS_EmptySet
  <2>6. \A t \in Task : ~Queued(t) /\ ~Held(t) BY <2>5 DEF InFlight
  <2>7. \A t \in Task : spc[t] = "returned" => t \in done
    BY <2>2, <2>6 DEF Accounted
  <2>8. \A t \in waitFor : t \in Task /\ spc[t] = "returned"
    BY DEF WaitIdleInv, TypesButSign
  <2> QED BY <2>1, <2>2, <2>7, <2>8 DEF WaitIdleInv
<1>9. CASE UNCHANGED vars
  BY <1>1, <1>9 DEF vars, callVars, ctlVars
<1> QED BY <1>2, <1>3, <1>4, <1>5, <1>6, <1>7, <1>8, <1>9 DEF Next

-----------------------------------------------------------------------------
(* The theorems                                                             *)

\* The inductive invariant holds of every reachable state.
LEMMA Invariance == Spec => [](TypesButSign /\ IInv)
<1>1. Init => IInv
  <2> SUFFICES ASSUME Init PROVE IInv OBVIOUS
  <2>1. /\ \A w \in Worker : DOMAIN queue[w] = {} /\ pc[w] = "test"
        /\ \A t \in Task : spc[t] = "new"
        /\ \A s \in Stopper : shpc[s] = "off"
        /\ stop = FALSE /\ active = 0 /\ wpc = "off" /\ life = "alive"
        /\ done = {} /\ waitFor = {} /\ early = {}
    BY DEF Init
  <2>2. \A w \in Worker : ~Busy(w) BY <2>1 DEF Busy
  <2>3. (\A t : ~Queued(t)) /\ (\A t : ~Held(t)) /\ Distinct
    BY <2>1, <2>2 DEF Queued, InQueue, Held, Distinct
  <2>4. Placement /\ Accounted BY <2>1, <2>2, <2>3 DEF Placement, Accounted
  <2>5. Closing BY <2>1 DEF Closing
  <2>6. InFlight = {} BY <2>1, <2>3 DEF InFlight
  <2>7. CountsInFlight BY <2>1, <2>6, FS_EmptySet DEF CountsInFlight
  <2>8. EarlyPlaced /\ WaitIdleInv BY <2>1 DEF EarlyPlaced, WaitIdleInv, WaitIdleSound
  <2> QED BY <2>4, <2>5, <2>7, <2>8 DEF IInv
<1>2. TypesButSign /\ IInv /\ [Next]_vars => IInv'
  BY PlacementStep, AccountedStep, ClosingStep, CountStep, EarlyStep, WaitIdleStep DEF IInv
<1>3. Spec => []TypesButSign BY Typing
<1> QED BY <1>1, <1>2, <1>3, PTL DEF Spec

\* Every variable has its type in every reachable state; in particular the
\* unsigned counter active_ never wraps below 0.
THEOREM TypeCorrect == Spec => []TypeOK
<1>1. ASSUME IInv, life # "destroyed" PROVE active \in Nat
  <2>1. IsFiniteSet(InFlight) BY TaskAssumption, FS_Subset DEF InFlight
  <2>2. Cardinality(InFlight) \in Nat BY <2>1, FS_CardinalityType
  <2> QED BY <1>1, <2>2 DEF IInv, CountsInFlight
<1>2. ASSUME TypesButSign, IInv, [Next]_vars, life = "destroyed" PROVE active' = active
  <2>1. /\ \A w \in Worker : pc[w] = "exited"
        /\ \A t \in Task : spc[t] \in {"new", "rejected", "returned"}
    BY <1>2 DEF IInv, Closing
  <2>2. ASSUME NEW t \in Task, SubmitStep(t) PROVE active' = active
    BY <2>1, <2>2 DEF SubmitStep, SubmitCheck, SubmitCount, SubmitTarget, SubmitPush
  <2>3. ASSUME NEW w \in Worker, worker_loop(w) PROVE active' = active
    BY <2>1, <2>3 DEF worker_loop, TestStop, PopLocal, TrySteal, RunTask, Decrement, IdleWait,
                      DrainLocal
  <2>4. ASSUME NEW s \in Stopper, shutdown(s) PROVE active' = active
    BY <2>4 DEF shutdown, ShutdownExchange, ShutdownJoin
  <2>5. CASE DestructorBegin \/ DestructorEnd \/ WaitIdleCall \/ WaitIdlePoll \/ UNCHANGED vars
    BY <2>5 DEF DestructorBegin, DestructorEnd, WaitIdleCall, WaitIdlePoll, vars
  <2> QED BY <1>2, <2>2, <2>3, <2>4, <2>5 DEF Next
<1>3. ASSUME TypesButSign, IInv, active \in Nat, [Next]_vars PROVE active' \in Nat
  <2>1. CASE life # "destroyed" /\ life' = "destroyed"
    <3>1. DestructorEnd
      <4>1. CASE \E t \in Task : SubmitStep(t)
        BY <2>1, <4>1 DEF SubmitStep, SubmitCheck, SubmitCount, SubmitTarget, SubmitPush, ctlVars
      <4>2. CASE \E w \in Worker : worker_loop(w)
        BY <2>1, <4>2 DEF worker_loop, TestStop, PopLocal, TrySteal, RunTask, Decrement, IdleWait,
                          DrainLocal, ctlVars
      <4>3. CASE \E s \in Stopper : shutdown(s)
        BY <2>1, <4>3 DEF shutdown, ShutdownExchange, ShutdownJoin
      <4>4. CASE DestructorBegin \/ WaitIdleCall \/ WaitIdlePoll \/ UNCHANGED vars
        BY <2>1, <4>4 DEF DestructorBegin, WaitIdleCall, WaitIdlePoll, vars, ctlVars
      <4> QED BY <1>3, <4>1, <4>2, <4>3, <4>4 DEF Next
    <3> QED BY <1>3, <3>1 DEF DestructorEnd
  <2>2. CASE life = "destroyed" BY <1>2, <1>3, <2>2
  <2>3. CASE life' # "destroyed"
    <3>1. IInv'
      BY <1>3, PlacementStep, AccountedStep, ClosingStep, CountStep, EarlyStep, WaitIdleStep DEF IInv
    <3>2. IsFiniteSet(InFlight)' BY TaskAssumption, FS_Subset DEF InFlight
    <3>3. (Cardinality(InFlight))' \in Nat BY <3>2, FS_CardinalityType
    <3> QED BY <2>3, <3>1, <3>3 DEF IInv, CountsInFlight
  <2> QED BY <2>1, <2>2, <2>3
<1>4. Init => active \in Nat BY DEF Init
<1>5. TypesButSign /\ active \in Nat => TypeOK BY DEF TypesButSign, TypeOK
<1>6. TypesButSign /\ IInv /\ active \in Nat /\ [Next]_vars => (active \in Nat)'
  BY <1>3
<1> QED BY <1>4, <1>5, <1>6, Invariance, PTL DEF Spec

\* active_ counts exactly the tasks in flight, in every reachable state.
THEOREM CountCorrect == Spec => []CountsInFlight
<1>1. IInv => CountsInFlight BY DEF IInv
<1> QED BY <1>1, Invariance, PTL

\* No task is run twice.
THEOREM RunsOnceCorrect == Spec => []RunsOnce
<1>1. IInv => RunsOnce BY DEF IInv, Placement, RunsOnce, Busy
<1> QED BY <1>1, Invariance, PTL

\* wait_idle() returns only when all tasks submitted before its call have run.
THEOREM WaitIdleCorrect == Spec => []WaitIdleSound
<1>1. IInv => WaitIdleSound BY DEF IInv, WaitIdleInv
<1> QED BY <1>1, Invariance, PTL

\* Shutdown leaves no task behind that was pushed before it began.
THEOREM EarlyTasksCorrect == Spec => []EarlyTasksDrained
<1>1. IInv => EarlyTasksDrained
  BY DEF IInv, EarlyPlaced, EarlyTasksDrained, Held, Busy
<1> QED BY <1>1, Invariance, PTL

\* The destructor has no running thread left when it destroys the members.
THEOREM JoinedCorrect == Spec => []JoinedBeforeDestroyed
<1>1. IInv => JoinedBeforeDestroyed BY DEF IInv, Closing, JoinedBeforeDestroyed
<1> QED BY <1>1, Invariance, PTL

\* With nobody but the destructor to stop the pool, no task is accepted once
\* stop_ is set: all that were accepted are early or have run.
StopIsLast ==
  stop => life # "alive" /\ \A t \in Task : spc[t] = "returned" => t \in early \cup done

\* Every step keeps StopIsLast if only the destructor stops the pool.
LEMMA StopIsLastStep ==
  ASSUME Stopper = {Owner}
  PROVE  TypesButSign /\ IInv /\ StopIsLast /\ [Next]_vars => StopIsLast'
<1> SUFFICES ASSUME TypesButSign, IInv, StopIsLast, [Next]_vars, stop'
             PROVE  life' # "alive" /\ \A t \in Task : spc'[t] = "returned" => t \in early' \cup done'
  BY DEF StopIsLast
<1> USE DEF StopIsLast
<1>1. ASSUME NEW u \in Task, SubmitStep(u) PROVE FALSE
  <2>1. stop
    BY <1>1 DEF SubmitStep, SubmitCheck, SubmitCount, SubmitTarget, SubmitPush
  <2>2. life # "alive" /\ spc[u] \in {"new", "rejected", "returned"}
    BY <2>1 DEF IInv, Closing
  <2> QED BY <1>1, <2>2 DEF SubmitStep, SubmitCheck, SubmitCount, SubmitTarget, SubmitPush
<1>2. ASSUME NEW w \in Worker, worker_loop(w)
      PROVE  UNCHANGED <<stop, life, spc, early>> /\ done \subseteq done'
  BY <1>2 DEF worker_loop, TestStop, PopLocal, TrySteal, RunTask, Decrement, IdleWait,
              DrainLocal, callVars, ctlVars
<1>3. ASSUME NEW s \in Stopper, ShutdownExchange(s)
      PROVE  life' # "alive" /\ \A t \in Task : spc'[t] = "returned" => t \in early' \cup done'
  <2>1. life = "dtor" /\ UNCHANGED <<life, spc, done>>
    BY <1>3 DEF ShutdownExchange, MayShutdown, callVars
  <2>2. CASE stop
    BY <1>3, <2>1, <2>2 DEF ShutdownExchange
  <2>3. CASE ~stop
    BY <1>3, <2>1, <2>3 DEF ShutdownExchange, IInv, Accounted
  <2> QED BY <2>2, <2>3
<1>4. CASE \/ \E s \in Stopper : ShutdownJoin(s)
           \/ DestructorBegin \/ DestructorEnd \/ WaitIdleCall \/ WaitIdlePoll \/ UNCHANGED vars
  BY <1>4 DEF ShutdownJoin, DestructorBegin, DestructorEnd, WaitIdleCall, WaitIdlePoll, vars,
              callVars, ctlVars
<1> QED BY <1>1, <1>2, <1>3, <1>4 DEF Next, shutdown

\* As Pipeline uses the pool, with the destructor as the only caller of
\* shutdown(), "pending tasks complete": nothing that submit() took is lost.
THEOREM PendingCorrect ==
  ASSUME Stopper = {Owner}
  PROVE  Spec => []PendingTasksComplete
<1>1. Init => StopIsLast
  BY DEF Init, StopIsLast
<1>2. TypesButSign /\ IInv /\ StopIsLast /\ [Next]_vars => StopIsLast'
  BY StopIsLastStep
<1>3. IInv /\ StopIsLast => PendingTasksComplete
  BY DEF IInv, Closing, EarlyPlaced, Held, Busy, StopIsLast, PendingTasksComplete
<1> QED BY <1>1, <1>2, <1>3, Invariance, PTL DEF Spec

\* The conjunction of who may hold which task, what is counted and how the
\* pool closes, from which the properties above follow, is itself invariant.
THEOREM InvariantCorrect == Spec => []IInv
BY Invariance, PTL

-----------------------------------------------------------------------------
(* The pool implements TaskPool                                             *)

\* Every behaviour of the pool, seen through what callers of submit() can
\* tell, is a behaviour of the abstract task pool.
THEOREM Refinement == Spec => ImplementsTaskPool
<1> DEFINE st == [t \in Task |-> statusOf(t)]
<1>1. Init => Abstract!PoolInit
  BY DEF Init, Abstract!PoolInit, statusOf
<1>2. TypesButSign /\ IInv /\ [Next]_vars => [Abstract!PoolNext]_(Abstract!poolVars)
  <2> SUFFICES ASSUME TypesButSign, IInv, [Next]_vars
               PROVE  Abstract!PoolNext \/ UNCHANGED <<st, ~stop, life = "destroyed">>
    BY DEF Abstract!poolVars
  <2>0. /\ \A t \in done : spc[t] = "returned"
        /\ life = "destroyed" => stop /\ \A w \in Worker : pc[w] = "exited"
    BY DEF IInv, Placement, Closing
  <2>1. ASSUME \A t \in Task : statusOf(t)' = statusOf(t), UNCHANGED <<stop, life>>
        PROVE  UNCHANGED <<st, ~stop, life = "destroyed">>
    BY <2>1
  <2>2. ASSUME NEW t \in Task, SubmitStep(t)
        PROVE  Abstract!PoolNext \/ UNCHANGED <<st, ~stop, life = "destroyed">>
    <3>1. CASE SubmitCheck(t)
      <4>1. /\ life = "alive" /\ spc[t] = "new" /\ t \notin done
            /\ spc' = [spc EXCEPT ![t] = IF stop THEN "rejected" ELSE "checked"]
            /\ UNCHANGED <<stop, life, done>>
        BY <2>0, <3>1 DEF SubmitCheck, ctlVars
      <4>2. statusOf(t) = "new" /\ statusOf(t)' = IF stop THEN "refused" ELSE "accepted"
        BY <4>1 DEF statusOf, TypesButSign
      <4>3. \A u \in Task : u # t => statusOf(u)' = statusOf(u)
        BY <4>1 DEF statusOf, TypesButSign
      <4>4. st' = [st EXCEPT ![t] = IF stop THEN "refused" ELSE "accepted"]
        BY <4>2, <4>3
      <4>5. Abstract!Accept(t) \/ Abstract!Refuse(t)
        BY <4>1, <4>2, <4>4 DEF Abstract!Accept, Abstract!Refuse
      <4> QED BY <4>5 DEF Abstract!PoolNext
    <3>2. CASE ~SubmitCheck(t)
      <4>1. /\ UNCHANGED <<stop, life, done>>
            /\ spc[t] \in {"checked", "counted", "targeted"}
            /\ \E p \in {"counted", "targeted", "returned"} : spc' = [spc EXCEPT ![t] = p]
        BY <2>2, <3>2 DEF SubmitStep, SubmitCount, SubmitTarget, SubmitPush, ctlVars
      <4>2. \A u \in Task : statusOf(u)' = statusOf(u)
        BY <4>1 DEF statusOf, TypesButSign
      <4> QED BY <2>1, <4>1, <4>2
    <3> QED BY <3>1, <3>2
  <2>3. ASSUME NEW w \in Worker, worker_loop(w)
        PROVE  Abstract!PoolNext \/ UNCHANGED <<st, ~stop, life = "destroyed">>
    <3>1. CASE RunTask(w)
      <4>1. /\ held[w] \in Task /\ held[w] \notin done /\ spc[held[w]] = "returned"
            /\ done' = done \cup {held[w]} /\ pc[w] # "exited"
            /\ UNCHANGED <<stop, spc, life>>
        BY <3>1, RunEffect DEF IInv
      <4> DEFINE t == held[w]
      <4>2. life # "destroyed" BY <2>0, <4>1
      <4>3. statusOf(t) = "accepted" BY <4>1, <4>2 DEF statusOf
      <4>4. \A u \in Task : statusOf(u)' = IF u = t THEN "completed" ELSE statusOf(u)
        BY <4>1 DEF statusOf
      <4> HIDE DEF t
      <4>5. st' = [st EXCEPT ![t] = "completed"] BY <4>4
      <4>6. t \in Task BY <4>1 DEF t
      <4>7. Abstract!Complete(t)
        BY <4>1, <4>2, <4>3, <4>5, <4>6 DEF Abstract!Complete
      <4> QED BY <4>6, <4>7 DEF Abstract!PoolNext
    <3>2. CASE ~RunTask(w)
      <4>1. UNCHANGED <<stop, spc, life, done>>
        BY <2>3, <3>2 DEF worker_loop, TestStop, PopLocal, TrySteal, Decrement, IdleWait,
                          DrainLocal, callVars, ctlVars
      <4>2. \A u \in Task : statusOf(u)' = statusOf(u) BY <4>1 DEF statusOf
      <4> QED BY <2>1, <4>1, <4>2
    <3> QED BY <3>1, <3>2
  <2>4. ASSUME NEW s \in Stopper, shutdown(s)
        PROVE  Abstract!PoolNext \/ UNCHANGED <<st, ~stop, life = "destroyed">>
    <3>1. UNCHANGED <<spc, life, done>> /\ (stop' = stop \/ (stop' = TRUE /\ ~stop))
      BY <2>4 DEF shutdown, ShutdownExchange, ShutdownJoin, callVars, TypesButSign
    <3>2. \A u \in Task : statusOf(u)' = statusOf(u) BY <3>1 DEF statusOf
    <3>3. CASE stop' = stop BY <2>1, <3>1, <3>2, <3>3
    <3>4. CASE stop' = TRUE /\ ~stop
      <4>1. Abstract!Close BY <3>1, <3>2, <3>4 DEF Abstract!Close
      <4> QED BY <4>1 DEF Abstract!PoolNext
    <3> QED BY <3>1, <3>3, <3>4
  <2>5. CASE DestructorEnd
    <3>1. /\ life = "dtor" /\ life' = "destroyed" /\ shpc[Owner] = "returned"
          /\ UNCHANGED <<stop, spc, done>>
      BY <2>5 DEF DestructorEnd, callVars
    <3>2. stop BY <3>1, OwnerAssumption DEF IInv, Closing
    <3>3. \A t \in Task :
            statusOf(t)' = IF statusOf(t) = "accepted" THEN "broken" ELSE statusOf(t)
      BY <3>1 DEF statusOf
    <3>4. Abstract!Destroy BY <3>1, <3>2, <3>3 DEF Abstract!Destroy
    <3> QED BY <3>4 DEF Abstract!PoolNext
  <2>6. CASE DestructorBegin
    <3>1. life = "alive" /\ life' = "dtor" /\ UNCHANGED <<stop, spc, done>>
      BY <2>6 DEF DestructorBegin, callVars
    <3>2. \A u \in Task : statusOf(u)' = statusOf(u) BY <3>1 DEF statusOf
    <3> QED BY <3>1, <3>2
  <2>7. CASE WaitIdleCall \/ WaitIdlePoll \/ UNCHANGED vars
    <3>1. UNCHANGED <<stop, spc, life, done>>
      BY <2>7 DEF WaitIdleCall, WaitIdlePoll, vars, callVars, ctlVars
    <3>2. \A u \in Task : statusOf(u)' = statusOf(u) BY <3>1 DEF statusOf
    <3> QED BY <2>1, <3>1, <3>2
  <2> QED BY <2>2, <2>3, <2>4, <2>5, <2>6, <2>7 DEF Next
<1> QED BY <1>1, <1>2, Invariance, PTL DEF Spec, ImplementsTaskPool, Abstract!PoolSpec
=============================================================================
