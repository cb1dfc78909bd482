----------------------- MODULE TailwindWatcher_proofs -----------------------
(***************************************************************************)
(* Theorems about TailwindWatcher for any number of starts and any number  *)
(* of rounds in which stop() polls.                                        *)
(***************************************************************************)
EXTENDS TailwindWatcher, TLAPS

-----------------------------------------------------------------------------
(* The inductive invariant                                                 *)

\* A thread that is to fork can, and one that has forked knows its child.
ForkBound ==
  /\ waiter = "fork" => forked < MaxStart
  /\ waiter \in {"forked", "wait"} => forked \in Pid

\* A child that was not waited for is the last one, and a thread is there to
\* wait for it.
ChildIsWatched == \A p \in Unreaped : p = forked /\ waiter \in {"forked", "wait"}

\* Between the calls a thread is at work only while running is set; during
\* stop() and after the destruction running is not set.
AtWork ==
  /\ ~running /\ caller \in {"idle", "destroyed"} => waiter \in {"none", "ended"}
  /\ running => caller = "idle"

\* A thread that was left to be joined although nobody stops it ended unasked.
LeftUnasked == caller = "idle" /\ ~running /\ joinable => unasked

\* stop() signals only after it has read the child's id, and the id is there
\* from the moment the thread waits for the child until stop() is done with
\* it; before and after that child_pid is NoPid.
PidKnown ==
  /\ caller \in {"term", "poll", "check", "kill", "clear"} =>
       waiter \in {"wait", "reaped", "leave", "ended"}
  /\ waiter = "wait" /\ caller # "join" => child_pid = forked
  /\ waiter \notin {"wait", "reaped"} => child_pid = NoPid

IInv ==
  /\ TypeOK /\ ForkBound /\ ChildIsWatched /\ AtWork /\ LeftUnasked
  /\ RunningIsWatched /\ AbortsOnlyUnasked
-----------------------------------------------------------------------------
(* Types                                                                   *)

\* The invariant holds before start().
LEMMA InitIInv == Init => IInv
<1> SUFFICES ASSUME Init PROVE IInv
  OBVIOUS
<1>1. TypeOK
  <2>1. {running, joinable, aborted, unasked} \subseteq BOOLEAN
    BY Zenon DEF Init
  <2>2. round \in 0 .. Rounds /\ forked \in 0 .. MaxStart
    BY StartAssumption, RoundsAssumption DEF Init
  <2> QED BY <2>1, <2>2 DEF Init, TypeOK
<1>2. ForkBound /\ ChildIsWatched
  BY DEF Init, ForkBound, ChildIsWatched, Unreaped
<1>3. AtWork /\ LeftUnasked /\ RunningIsWatched /\ AbortsOnlyUnasked
  BY DEF Init, AtWork, LeftUnasked, RunningIsWatched, AbortsOnlyUnasked
<1> QED BY <1>1, <1>2, <1>3 DEF IInv

\* Whom a signal reaches is one of the three kinds.
LEMMA HitType ==
  ASSUME NEW signal \in {"SIGTERM", "SIGKILL"}, NEW pid
  PROVE  Hit(signal, pid) \subseteq {"SIGTERM", "SIGKILL"} \X {"child", "stranger", "everyone"}
BY DEF Hit

\* Every step keeps the types.
LEMMA TypeStep == TypeOK /\ ForkBound /\ [Next]_vars => TypeOK'
<1> SUFFICES ASSUME TypeOK, ForkBound, [Next]_vars PROVE TypeOK'
  OBVIOUS
<1> USE StartAssumption, RoundsAssumption DEF TypeOK
<1>1. CASE Start
  BY <1>1 DEF Start, system, call
<1>2. CASE Fork
  BY <1>2 DEF Fork, ForkBound, object, call, Pid
<1>3. CASE SetPid
  BY <1>3 DEF SetPid, ForkBound, system, call
<1>4. CASE Reap
  BY <1>4 DEF Reap, object, call
<1>5. CASE ClearPid
  BY <1>5 DEF ClearPid, system, call
<1>6. CASE Leave
  BY <1>6 DEF Leave, system, call
<1>7. CASE StopEnter \/ StopTest \/ StopCheck
  BY <1>7 DEF StopEnter, StopTest, StopCheck, system, object
<1>8. CASE StopTerm
  <2>1. struck' \subseteq {"SIGTERM", "SIGKILL"} \X {"child", "stranger", "everyone"}
    BY <1>8, HitType DEF StopTerm
  <2> QED BY <1>8, <2>1 DEF StopTerm, system, object
<1>9. CASE StopPoll
  BY <1>9 DEF StopPoll, system, object
<1>10. CASE StopKill
  <2>1. struck' \subseteq {"SIGTERM", "SIGKILL"} \X {"child", "stranger", "everyone"}
    BY <1>10, HitType DEF StopKill
  <2> QED BY <1>10, <2>1 DEF StopKill, object
<1>11. CASE StopClear \/ StopJoin
  BY <1>11 DEF StopClear, StopJoin, system
<1>12. CASE Destroy
  BY <1>12 DEF Destroy, system, object
<1>13. CASE ChildEnds
  BY <1>13 DEF ChildEnds, object, call
<1>14. CASE Recycle
  BY <1>14 DEF Recycle, object, call
<1>15. CASE UNCHANGED vars
  BY <1>15 DEF vars, object, system, call
<1> QED
  BY <1>1, <1>2, <1>3, <1>4, <1>5, <1>6, <1>7, <1>8, <1>9, <1>10, <1>11, <1>12, <1>13,
     <1>14, <1>15 DEF Next, Thread, stop
-----------------------------------------------------------------------------
(* Invariance                                                              *)

\* A step that lets no new child appear and keeps the thread where it waits
\* leaves every child watched.
LEMMA ChildrenStay ==
  ASSUME ChildIsWatched, UNCHANGED <<forked, waiter>>, Unreaped' \subseteq Unreaped
  PROVE  ChildIsWatched'
BY DEF ChildIsWatched

\* Every step keeps the invariant.
LEMMA NextIInv == IInv /\ [Next]_vars => IInv'
<1> SUFFICES ASSUME IInv, [Next]_vars PROVE IInv'
  OBVIOUS
<1>0. TypeOK /\ TypeOK'
  BY TypeStep DEF IInv
<1> USE <1>0 DEF IInv
<1>1. CASE ~aborted /\ Start
  <2>1. ~joinable => Unreaped = {} /\ waiter \in {"none", "ended"}
    BY <1>1 DEF Start, ChildIsWatched, AtWork
  <2>2. ChildIsWatched' /\ ForkBound'
    BY <1>1, <2>1 DEF Start, system, call, Unreaped, ChildIsWatched, ForkBound
  <2>3. AtWork' /\ LeftUnasked' /\ RunningIsWatched' /\ AbortsOnlyUnasked'
    BY <1>1, <2>1 DEF Start, call, AtWork, LeftUnasked, RunningIsWatched, AbortsOnlyUnasked
  <2> QED BY <2>2, <2>3
<1>2. CASE ~aborted /\ Fork
  <2>1. Unreaped = {}
    BY <1>2 DEF Fork, ChildIsWatched
  <2>2. ChildIsWatched' /\ ForkBound'
    BY <1>2, <2>1, StartAssumption
    DEF Fork, ChildIsWatched, ForkBound, Unreaped, TypeOK, Pid
  <2>3. AtWork' /\ LeftUnasked' /\ RunningIsWatched' /\ AbortsOnlyUnasked'
    BY <1>2 DEF Fork, object, call, AtWork, LeftUnasked, RunningIsWatched, AbortsOnlyUnasked
  <2> QED BY <2>2, <2>3
<1>3. CASE ~aborted /\ SetPid
  BY <1>3 DEF SetPid, system, call, ForkBound, ChildIsWatched, Unreaped, AtWork, LeftUnasked,
              RunningIsWatched, AbortsOnlyUnasked
<1>4. CASE ~aborted /\ Reap
  <2>1. Unreaped' = {}
    BY <1>4 DEF Reap, ChildIsWatched, Unreaped, TypeOK
  <2> QED
    BY <1>4, <2>1 DEF Reap, object, call, ForkBound, ChildIsWatched, AtWork, LeftUnasked,
                      RunningIsWatched, AbortsOnlyUnasked
<1>5. CASE ~aborted /\ (ClearPid \/ Leave)
  <2>1. Unreaped = {} /\ Unreaped' = Unreaped
    BY <1>5 DEF ClearPid, Leave, system, ChildIsWatched, Unreaped
  <2>2. ForkBound' /\ ChildIsWatched' /\ RunningIsWatched'
    BY <1>5, <2>1 DEF ClearPid, Leave, ForkBound, ChildIsWatched, RunningIsWatched
  <2>3. AtWork' /\ AbortsOnlyUnasked'
    BY <1>5 DEF ClearPid, Leave, call, AtWork, AbortsOnlyUnasked
  <2>4. LeftUnasked'
    <3>1. CASE ClearPid
      BY <3>1 DEF ClearPid, call, LeftUnasked
    <3>2. CASE Leave
      BY <3>2, Zenon DEF Leave, call, LeftUnasked
    <3> QED BY <1>5, <3>1, <3>2
  <2> QED BY <2>2, <2>3, <2>4
<1>6. CASE ~aborted /\ (StopEnter \/ StopTest \/ StopTerm \/ StopPoll \/ StopCheck \/ StopClear)
  <2>1. ChildIsWatched'
    BY <1>6, ChildrenStay DEF StopEnter, StopTest, StopTerm, StopPoll, StopCheck, StopClear,
                              object, system, Unreaped
  <2> QED
    BY <1>6, <2>1 DEF StopEnter, StopTest, StopTerm, StopPoll, StopCheck, StopClear, object,
                      system, ForkBound, AtWork, LeftUnasked, RunningIsWatched,
                      AbortsOnlyUnasked
<1>7. CASE ~aborted /\ StopKill
  <2>1. Unreaped' \subseteq Unreaped
    BY <1>7 DEF StopKill, Unreaped, Victims
  <2> QED
    BY <1>7, <2>1, ChildrenStay DEF StopKill, object, ForkBound, AtWork, LeftUnasked,
                                    RunningIsWatched, AbortsOnlyUnasked
<1>8. CASE ~aborted /\ StopJoin
  BY <1>8 DEF StopJoin, system, ForkBound, ChildIsWatched, Unreaped, AtWork, LeftUnasked,
              RunningIsWatched, AbortsOnlyUnasked
<1>9. CASE ~aborted /\ Destroy
  BY <1>9 DEF Destroy, object, system, ForkBound, ChildIsWatched, Unreaped, AtWork,
              LeftUnasked, RunningIsWatched, AbortsOnlyUnasked
<1>10. CASE ~aborted /\ (ChildEnds \/ Recycle)
  <2>1. Unreaped' \subseteq Unreaped
    BY <1>10 DEF ChildEnds, Recycle, Unreaped, TypeOK
  <2> QED
    BY <1>10, <2>1, ChildrenStay DEF ChildEnds, Recycle, object, call, ForkBound, AtWork,
                                     LeftUnasked, RunningIsWatched, AbortsOnlyUnasked
<1>11. CASE UNCHANGED vars
  BY <1>11 DEF vars, object, system, call, ForkBound, ChildIsWatched, Unreaped, AtWork,
               LeftUnasked, RunningIsWatched, AbortsOnlyUnasked
<1> QED
  BY <1>1, <1>2, <1>3, <1>4, <1>5, <1>6, <1>7, <1>8, <1>9, <1>10, <1>11 DEF Next, Thread, stop

\* The invariant holds of every behaviour.
LEMMA Invariance == Spec => []IInv
BY InitIInv, NextIInv, PTL DEF Spec
-----------------------------------------------------------------------------
(* The theorems                                                            *)

\* The fields of the watcher and the state of its children keep their types.
THEOREM TypeCorrect == Spec => []TypeOK
<1>1. IInv => TypeOK
  BY DEF IInv
<1> QED BY <1>1, Invariance, PTL

\* When nothing is running and no stop() is under way, no child is left,
\* neither running nor as a zombie, however often start() and stop() were
\* called and whenever children died.
THEOREM ChildCorrect == Spec => []NoChildLeft
<1>1. IInv => NoChildLeft
  BY DEF IInv, NoChildLeft, ChildIsWatched, AtWork
<1> QED BY <1>1, Invariance, PTL

\* is_running() is backed by a thread that will take it down.
THEOREM RunningCorrect == Spec => []RunningIsWatched
<1>1. IInv => RunningIsWatched
  BY DEF IInv
<1> QED BY <1>1, Invariance, PTL

\* std::terminate() is called by start() or the destructor only after a thread
\* has ended without a stop().
THEOREM AbortCorrect == Spec => []AbortsOnlyUnasked
<1>1. IInv => AbortsOnlyUnasked
  BY DEF IInv
<1> QED BY <1>1, Invariance, PTL

\* Every step keeps child_pid in step with thread and stop().
LEMMA PidStep == IInv /\ PidKnown /\ [Next]_vars => PidKnown'
<1> SUFFICES ASSUME IInv, PidKnown, [Next]_vars PROVE PidKnown'
  OBVIOUS
<1> USE DEF PidKnown, IInv
<1>1. CASE ~aborted /\ Start
  BY <1>1 DEF Start, system, call, AtWork
<1>2. CASE Fork \/ SetPid \/ Reap \/ ClearPid \/ Leave
  BY <1>2 DEF Fork, SetPid, Reap, ClearPid, Leave, object, system, call
<1>3. CASE StopEnter
  BY <1>3 DEF StopEnter, system, AtWork
<1>4. CASE StopTest
  BY <1>4 DEF StopTest, object, system, NoPid, TypeOK
<1>5. CASE StopTerm \/ StopPoll \/ StopCheck \/ StopKill
  BY <1>5 DEF StopTerm, StopPoll, StopCheck, StopKill, object, system
<1>6. CASE StopClear \/ StopJoin
  BY <1>6 DEF StopClear, StopJoin, system
<1>7. CASE Destroy \/ ChildEnds \/ Recycle
  BY <1>7 DEF Destroy, ChildEnds, Recycle, object, system, call
<1>8. CASE UNCHANGED vars
  BY <1>8 DEF vars, object, system, call
<1> QED BY <1>1, <1>2, <1>3, <1>4, <1>5, <1>6, <1>7, <1>8 DEF Next, Thread, stop

\* A signal of stop() reaches somebody else than the child only after the
\* thread's waitpid() has returned: the window of the stray SIGKILL opens
\* there and nowhere earlier.
THEOREM SparesCorrect == Spec => SparesOthers
<1>1. Init => PidKnown
  BY DEF Init, PidKnown
<1>2. IInv /\ PidKnown /\ [Next]_vars =>
        [Unreaped # {} => \A hit \in struck' \ struck : hit[2] = "child"]_vars
  <2> SUFFICES ASSUME IInv, PidKnown, Next, NEW p \in Unreaped
               PROVE  \A hit \in struck' \ struck : hit[2] = "child"
    BY DEF vars
  <2>1. p = forked /\ waiter \in {"forked", "wait"}
    BY DEF IInv, ChildIsWatched
  <2>2. CASE StopTerm \/ StopKill
    <3>1. child_pid = p /\ child_pid # NoPid
      BY <2>1, <2>2 DEF StopTerm, StopKill, PidKnown, Unreaped, Pid, NoPid
    <3>2. \A signal : \A hit \in Hit(signal, child_pid) : hit[2] = "child"
      BY <3>1 DEF Hit, Unreaped
    <3> QED BY <2>2, <3>2 DEF StopTerm, StopKill
  <2>3. CASE Thread \/ Start \/ Destroy \/ ChildEnds \/ Recycle
    BY <2>3 DEF Thread, Start, Fork, SetPid, Reap, ClearPid, Leave, Destroy, ChildEnds, Recycle
  <2>4. CASE StopEnter \/ StopTest \/ StopPoll \/ StopCheck \/ StopClear \/ StopJoin
    BY <2>4 DEF StopEnter, StopTest, StopPoll, StopCheck, StopClear, StopJoin
  <2> QED BY <2>2, <2>3, <2>4 DEF Next, stop
<1> QED BY <1>1, <1>2, Invariance, PidStep, PTL DEF Spec, SparesOthers
=============================================================================
