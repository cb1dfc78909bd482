--------------------------- MODULE TailwindWatcher ---------------------------
(***************************************************************************)
(* TailwindWatcher (crates/tailwind): start() spawns a thread that forks   *)
(* the Tailwind CLI and waits for it; stop() signals the child and joins   *)
(* the thread.  child_pid is a plain field that both threads read and      *)
(* write, and stop() reads it anew for every kill(), so each access is an  *)
(* action.  The child may end at any time and may ignore SIGTERM.          *)
(***************************************************************************)
EXTENDS Integers, FiniteSets

CONSTANTS
  MaxStart,  \* bound: children forked, and so calls of start() that fork
  Rounds     \* times stop() looks whether the child is gone: 20 in the code

ASSUME StartAssumption == MaxStart \in Nat \ {0}
ASSUME RoundsAssumption == Rounds \in Nat

NoPid == -1
Pid == 1 .. MaxStart    \* the n-th child has process id n

VARIABLES
  running,   \* Impl::running
  joinable,  \* Impl::thread stands for a thread that was not joined
  child_pid, \* Impl::child_pid
  waiter,    \* where the thread is
  forked,    \* number of children forked
  child,     \* child[p]: none, alive, zombie, reaped
  other,     \* ids of reaped children that a stranger has got since
  caller,    \* where the owner is: idle, or in stop()
  round,     \* the loop variable of stop()
  aborted,   \* std::terminate() was called
  unasked,   \* history: a thread ended without a call of stop()
  struck     \* history: <<signal, whom>> of the signals that stop() sent

object == <<running, joinable, child_pid>>
system == <<forked, child, other>>
call == <<caller, round>>
vars == <<object, waiter, system, call, aborted, unasked, struck>>

Init ==
  /\ running = FALSE
  /\ joinable = FALSE
  /\ child_pid = NoPid
  /\ waiter = "none"
  /\ forked = 0
  /\ child = [p \in Pid |-> "none"]
  /\ other = {}
  /\ caller = "idle"
  /\ round = 0
  /\ aborted = FALSE
  /\ unasked = FALSE
  /\ struck = {}
-----------------------------------------------------------------------------
(* start(), on an object that is not running; its early failures change    *)
(* nothing.                                                                *)

\* The new thread is assigned to Impl::thread: std::terminate() if the one
\* that is there was not joined (what the new one does meanwhile is left out,
\* and so is the exception for want of a thread, which leaves running set).
Start ==
  /\ caller = "idle"
  /\ ~running
  /\ forked < MaxStart
  /\ running' = TRUE
  /\ joinable' = TRUE
  /\ IF joinable THEN aborted' = TRUE /\ UNCHANGED waiter
                 ELSE waiter' = "fork" /\ UNCHANGED aborted
  /\ UNCHANGED <<child_pid, system, call, unasked, struck>>
-----------------------------------------------------------------------------
(* The thread                                                              *)

Fork ==
  /\ waiter = "fork"
  /\ \/ /\ forked' = forked + 1
        /\ child' = [child EXCEPT ![forked + 1] = "alive"]
        /\ waiter' = "forked"
     \/ waiter' = "leave" /\ UNCHANGED <<forked, child>>
  /\ UNCHANGED <<object, other, call, aborted, unasked, struck>>

SetPid ==
  /\ waiter = "forked"
  /\ child_pid' = forked
  /\ waiter' = "wait"
  /\ UNCHANGED <<running, joinable, system, call, aborted, unasked, struck>>

\* waitpid() returns.
Reap ==
  /\ waiter = "wait"
  /\ child[forked] = "zombie"
  /\ child' = [child EXCEPT ![forked] = "reaped"]
  /\ waiter' = "reaped"
  /\ UNCHANGED <<object, forked, other, call, aborted, unasked, struck>>

ClearPid ==
  /\ waiter = "reaped"
  /\ child_pid' = NoPid
  /\ waiter' = "leave"
  /\ UNCHANGED <<running, joinable, system, call, aborted, unasked, struck>>

\* Mutant: running stays set when the thread ends.
LeaveRunning ==
  /\ waiter = "leave"
  /\ waiter' = "ended"
  /\ unasked' = (unasked \/ caller = "idle")
  /\ UNCHANGED <<object, system, call, aborted, struck>>

Leave ==
  /\ waiter = "leave"
  /\ running' = FALSE
  /\ waiter' = "ended"
  /\ unasked' = (unasked \/ caller = "idle")
  /\ UNCHANGED <<joinable, child_pid, system, call, aborted, struck>>
-----------------------------------------------------------------------------
(* kill(2): -1 stands for every process the user may signal, of which      *)
(* there is always one; it spares the caller.                              *)

Exists(pid) ==
  \/ pid = NoPid
  \/ child[pid] \in {"alive", "zombie"}
  \/ pid \in other

Hit(signal, pid) ==
  {signal} \X ( IF pid = NoPid THEN {"everyone"}
               ELSE IF child[pid] \in {"alive", "zombie"} THEN {"child"}
               ELSE IF pid \in other THEN {"stranger"} ELSE {} )

Victims(pid) == {p \in Pid : child[p] = "alive" /\ pid \in {p, NoPid}}
-----------------------------------------------------------------------------
(* stop()                                                                  *)

StopEnter ==
  /\ caller = "idle"
  /\ running
  /\ running' = FALSE
  /\ caller' = "test"
  /\ UNCHANGED <<joinable, child_pid, waiter, system, round, aborted, unasked, struck>>

\* if (child_pid > 0)
StopTest ==
  /\ caller = "test"
  /\ caller' = IF child_pid > 0 THEN "term" ELSE "join"
  /\ UNCHANGED <<object, waiter, system, round, aborted, unasked, struck>>

StopTerm ==
  /\ caller = "term"
  /\ struck' = struck \union Hit("SIGTERM", child_pid)
  /\ caller' = "poll"
  /\ round' = 0
  /\ UNCHANGED <<object, waiter, system, aborted, unasked>>

\* One round of the loop, or its end.
StopPoll ==
  /\ caller = "poll"
  /\ IF round < Rounds /\ Exists(child_pid)
       THEN round' = round + 1 /\ UNCHANGED caller
       ELSE caller' = "check" /\ round' = 0
  /\ UNCHANGED <<object, waiter, system, aborted, unasked, struck>>

\* Mutant: a child that ignores SIGTERM is left alone.
StopCheckNothing ==
  /\ caller = "check"
  /\ caller' = "clear"
  /\ UNCHANGED <<object, waiter, system, round, aborted, unasked, struck>>

\* if (kill(child_pid, 0) == 0)
StopCheck ==
  /\ caller = "check"
  /\ caller' = IF Exists(child_pid) THEN "kill" ELSE "clear"
  /\ UNCHANGED <<object, waiter, system, round, aborted, unasked, struck>>

StopKill ==
  /\ caller = "kill"
  /\ struck' = struck \union Hit("SIGKILL", child_pid)
  /\ child' = [p \in Pid |-> IF p \in Victims(child_pid) THEN "zombie" ELSE child[p]]
  /\ caller' = "clear"
  /\ UNCHANGED <<object, waiter, forked, other, round, aborted, unasked>>

StopClear ==
  /\ caller = "clear"
  /\ child_pid' = NoPid
  /\ caller' = "join"
  /\ UNCHANGED <<running, joinable, waiter, system, round, aborted, unasked, struck>>

\* Mutant: stop() detaches the thread.
StopDetach ==
  /\ caller = "join"
  /\ joinable' = FALSE
  /\ caller' = "idle"
  /\ UNCHANGED <<running, child_pid, waiter, system, round, aborted, unasked, struck>>

\* Mutant: stop() leaves the thread to the destructor.
StopNoJoin ==
  /\ caller = "join"
  /\ waiter = "ended"
  /\ caller' = "idle"
  /\ UNCHANGED <<object, waiter, system, round, aborted, unasked, struck>>

StopJoin ==
  /\ caller = "join"
  /\ waiter = "ended"
  /\ joinable' = FALSE
  /\ waiter' = "none"
  /\ caller' = "idle"
  /\ UNCHANGED <<running, child_pid, system, round, aborted, unasked, struck>>

\* ~TailwindWatcher() after stop() has returned or has found nothing to do:
\* ~thread() calls std::terminate() if the thread was not joined.
Destroy ==
  /\ caller = "idle"
  /\ ~running
  /\ caller' = "destroyed"
  /\ aborted' = joinable
  /\ UNCHANGED <<object, waiter, system, round, unasked, struck>>
-----------------------------------------------------------------------------
(* The system                                                              *)

\* The child ends, by itself or because of SIGTERM.
ChildEnds ==
  \E p \in Pid :
    /\ child[p] = "alive"
    /\ child' = [child EXCEPT ![p] = "zombie"]
    /\ UNCHANGED <<object, waiter, forked, other, call, aborted, unasked, struck>>

Recycle ==
  \E p \in Pid :
    /\ child[p] = "reaped"
    /\ other' = other \union {p}
    /\ UNCHANGED <<object, waiter, forked, child, call, aborted, unasked, struck>>
-----------------------------------------------------------------------------
Thread == Fork \/ SetPid \/ Reap \/ ClearPid \/ Leave
stop ==
  \/ StopEnter \/ StopTest \/ StopTerm \/ StopPoll \/ StopCheck \/ StopKill
  \/ StopClear \/ StopJoin

Next ==
  /\ ~aborted
  /\ Start \/ Thread \/ stop \/ Destroy \/ ChildEnds \/ Recycle

Spec == Init /\ [][Next]_vars

\* Both threads keep being scheduled; nothing makes the child end, except
\* SIGKILL, or the owner call anything.
FairSpec ==
  /\ Spec
  /\ WF_vars(~aborted /\ Thread)
  /\ WF_vars(~aborted /\ stop /\ caller # "idle")
-----------------------------------------------------------------------------
(* Properties                                                              *)

\* Types of the variables.
TypeOK ==
  /\ {running, joinable, aborted, unasked} \subseteq BOOLEAN
  /\ child_pid \in Pid \union {NoPid}
  /\ waiter \in {"none", "fork", "forked", "wait", "reaped", "leave", "ended"}
  /\ forked \in 0 .. MaxStart
  /\ child \in [Pid -> {"none", "alive", "zombie", "reaped"}]
  /\ other \subseteq Pid
  /\ caller \in {"idle", "test", "term", "poll", "check", "kill", "clear", "join",
                 "destroyed"}
  /\ round \in 0 .. Rounds
  /\ struck \subseteq {"SIGTERM", "SIGKILL"} \X {"child", "stranger", "everyone"}

Unreaped == {p \in Pid : child[p] \in {"alive", "zombie"}}

\* tailwind.hpp:115 "Stop the watch process": when nothing is running and no
\* stop() is under way, no child is left, neither running nor as a zombie.
NoChildLeft == ~running /\ caller \in {"idle", "destroyed"} => Unreaped = {}

\* is_running() holds only while a thread that will take it down is there.
RunningIsWatched == running => aborted \/ waiter \notin {"none", "ended"}

\* A start(), stop() and destruction in any order end the process through
\* std::terminate() only if a child, or its fork(), once ended unasked.
AbortsOnlyUnasked == aborted => unasked

\* "Give it 2s to exit, then SIGKILL" (tailwind.cpp:491): a stop() that has
\* found the child's id returns, even if the child ignores SIGTERM.
StopReturns == (caller = "term") ~> (caller = "idle")

\* Until waitpid() has returned, stop() signals its child and nobody else,
\* although it reads child_pid anew for every kill().
SparesOthers ==
  [][Unreaped # {} => \A hit \in struck' \ struck : hit[2] = "child"]_vars

\* "Stop the watch process" (tailwind.hpp:115), "Give it 2s to exit, then
\* SIGKILL" (tailwind.cpp:491): the SIGKILL is for the watch process; it is
\* never sent to -1, to every process that the user may signal.
KillIsForOne == <<"SIGKILL", "everyone">> \notin struck
=============================================================================
