---------------------------- MODULE NativeWatcher ----------------------------
(***************************************************************************)
(* NativeFileWatcher on Linux (crates/server/watcher/native_watcher.cpp):  *)
(* one inotify watch per directory, two tables between watch descriptors   *)
(* and paths, and a thread that reads the events in batches.  The author   *)
(* makes, removes and moves directories, with all that is below them, and  *)
(* changes files between any two steps of start() and of the thread.       *)
(*                                                                         *)
(* A path is a sequence of names.  The paths that do not begin with Root   *)
(* are the rest of the disk: a directory may be moved there and back.  The *)
(* kernel's part (watches, events, limits) follows inotify(7).             *)
(***************************************************************************)
EXTENDS Integers, Sequences

CONSTANTS
  Name,      \* names of directories
  Ignored,   \* those that hold one of ignored_substrings
  Path,      \* the paths at which directories may be
  Root,      \* config.root
  First,     \* First[p]: the directory that is at p at first
  FirstMade, \* number of directories made at first
  MaxOp,     \* bound: directories made, removed or moved
  MaxWd,     \* watches that the kernel gives to one inotify instance
  MaxQueue   \* events that it queues: max_queued_events

None == 0        \* no directory, no descriptor
NoPath == <<>>   \* the descriptor is not in wd_to_path

Parent(p) == SubSeq(p, 1, Len(p) - 1)
Base(p) == p[Len(p)]

ASSUME PathAssumption ==
  /\ Path \subseteq Seq(Name) \ {NoPath}
  /\ \A p \in Path : Len(p) > 1 => Parent(p) \in Path
  /\ Root \in Path
ASSUME BoundAssumption ==
  /\ FirstMade \in Nat /\ MaxOp \in Nat /\ MaxWd \in Nat /\ MaxQueue \in Nat

\* Every directory but those at the top is in one, and is at one path only.
IsTree(d) ==
  /\ \A p \in Path : d[p] # None /\ Len(p) > 1 => d[Parent(p)] # None
  /\ \A p, q \in Path : d[p] = d[q] /\ d[p] # None => p = q

ASSUME FirstAssumption ==
  First \in [Path -> 0 .. FirstMade] /\ First[Root] # None /\ IsTree(First)

Inode == 1 .. FirstMade + MaxOp
Wd == 1 .. MaxWd

VARIABLES
  dir,        \* dir[p]: the directory at p
  ops,        \* number of operations on directories
  watch,      \* watch[w]: the directory that the kernel watches as w
  nextwd,     \* the next watch descriptor
  queue,      \* events that were not read
  wd_to_path, \* Impl::wd_to_path
  path_to_wd, \* Impl::path_to_wd
  owner,      \* stopped, starting, started, stopping
  thread,     \* none, test, select, apply (in process_events() or callback)
  new_dirs,   \* <<k, p>>: add_watch_recursive() has to visit p, for event k of
              \* the batch; k = 0: of the directory that it has listed
  opened,     \* what it has visited and has still to list
  removed_dirs, events,  \* of the running process_events()
  owed,       \* history: a directory of which a change is still to be reported
  unsure      \* history: paths of which the watcher need not know

tree == <<dir, ops>>
kernel == <<watch, nextwd, queue>>
tables == <<wd_to_path, path_to_wd>>
batch == <<new_dirs, opened, removed_dirs, events>>
vars == <<tree, kernel, tables, owner, thread, batch, owed, unsure>>

Below == [p \in Path |-> {q \in Path : Len(p) <= Len(q) /\ SubSeq(q, 1, Len(p)) = p}]
Children(p) == {q \in Path : Parent(q) = p /\ dir[q] # None}

\* is_ignored() looks for the substrings in the whole path.
Seen == {p \in Path : \A k \in 1 .. Len(p) : p[k] \notin Ignored}

NoWatch == [w \in Wd |-> None]
NoPaths == [w \in Wd |-> NoPath]
NoWds == [p \in Path |-> None]

Init ==
  /\ dir = First
  /\ ops = 0
  /\ watch = NoWatch
  /\ nextwd = 1
  /\ queue = <<>>
  /\ wd_to_path = NoPaths
  /\ path_to_wd = NoWds
  /\ owner = "stopped"
  /\ thread = "none"
  /\ new_dirs = {}
  /\ opened = {}
  /\ removed_dirs = {}
  /\ events = {}
  /\ owed = NoPath
  /\ unsure = {}
-----------------------------------------------------------------------------
(* inotify: an event is <<kind, descriptor, entry>>, where the kind is      *)
(*   new   IN_CREATE or IN_MOVED_TO, of the entry of the watched directory *)
(*   gone  IN_DELETE or IN_MOVED_FROM, of the entry                        *)
(*   self  IN_DELETE_SELF                                                  *)
(*   file  any event of a file in the directory                            *)
(* (IN_IGNORED, which has no entry, is skipped by the loop).               *)

Event == ({"new", "gone"} \X Wd \X Name) \union ({"self", "file"} \X Wd \X {"."})

WatchOf(i) == {w \in Wd : watch[w] = i}
WdOf(i) == CHOOSE w \in WatchOf(i) : TRUE

\* The event goes to the watch of directory i, if it has one.
Note(kind, i, n) ==
  IF i # None /\ WatchOf(i) # {} THEN << <<kind, WdOf(i), n>> >> ELSE <<>>

\* What does not fit in the queue is lost; the IN_Q_OVERFLOW that takes its
\* place has no descriptor and is skipped by the loop.
Fits(seq) == Len(queue) + Len(seq) <= MaxQueue
Tell(seq) ==
  queue' = IF Fits(seq) THEN queue \o seq ELSE SubSeq(queue \o seq, 1, MaxQueue)

\* From now on the watcher may be wrong about the paths of P, and about
\* everything if one of the events is lost.  start() begins anew.
Upset(P, seq) ==
  unsure' = IF owner = "stopped" THEN {} ELSE IF Fits(seq) THEN unsure \union P ELSE Path

\* e is about the directory p, as the loop of process_events() sees it: the
\* descriptor must be known and the name not ignored.
About(e, p) ==
  /\ wd_to_path[e[2]] # NoPath
  /\ IF e[1] \in {"new", "gone"}
       THEN Parent(p) = wd_to_path[e[2]] /\ Base(p) = e[3] /\ Base(p) \notin Ignored
       ELSE p = wd_to_path[e[2]]
-----------------------------------------------------------------------------
(* The author                                                              *)

Pending == {d[2] : d \in new_dirs}

Above(p) == IF Len(p) = 1 THEN None ELSE dir[Parent(p)]
Home(p) == Len(p) > 1 => dir[Parent(p)] # None

\* The watcher has nothing left to do about an earlier directory of the path.
Forgotten(p) ==
  /\ path_to_wd[p] = None
  /\ p \notin Pending \union opened \union removed_dirs
  /\ \A k \in 1 .. Len(queue) : ~About(queue[k], p)

Operate ==
  /\ ops < MaxOp
  /\ ops' = ops + 1
  /\ UNCHANGED <<nextwd, tables, owner, thread, batch, owed>>

Mkdir(p) ==
  LET seq == Note("new", Above(p), Base(p)) IN
  /\ dir[p] = None /\ Home(p)
  /\ dir' = [dir EXCEPT ![p] = FirstMade + ops + 1]
  /\ Tell(seq)
  /\ Upset(IF Forgotten(p) THEN {} ELSE Below[p], seq)
  /\ Operate
  /\ UNCHANGED watch

\* The kernel drops the watch with the directory.
Rmdir(p) ==
  /\ dir[p] # None /\ Children(p) = {} /\ Root \notin Below[p]
  /\ dir' = [dir EXCEPT ![p] = None]
  /\ LET gone == Note("gone", Above(p), Base(p))
         self == Note("self", dir[p], ".")
     IN /\ Tell(gone \o self) \/ Tell(self \o gone)
        /\ Upset({}, gone \o self)
  /\ watch' = [w \in Wd |-> IF watch[w] = dir[p] THEN None ELSE watch[w]]
  /\ Operate

\* Where p was before what is at x was moved to y.
Moved(x, y, p) == x \o SubSeq(p, Len(y) + 1, Len(p))

\* What comes to y was never in the tree, nor does the watcher remember y.
Stranger(x, y) ==
  /\ x \notin Below[Root]
  /\ \A p \in Below[x] : dir[p] # None => WatchOf(dir[p]) = {}
  /\ \A p \in Below[y] : Forgotten(p)

\* rename(): inside the watched tree, out of it or into it.
Move(x, y) ==
  LET seq == Note("gone", Above(x), Base(x)) \o Note("new", Above(y), Base(y)) IN
  /\ Root \notin Below[x] \union Below[y]
  /\ dir[x] # None
  /\ dir[y] = None /\ Home(y) /\ y \notin Below[x]
  /\ \A q \in Below[x] : dir[q] # None => \E p \in Below[y] : Moved(x, y, p) = q
  /\ dir' = [p \in Path |->
       IF p \in Below[y]
         THEN IF Moved(x, y, p) \in Path THEN dir[Moved(x, y, p)] ELSE None
         ELSE IF p \in Below[x] THEN None ELSE dir[p]]
  /\ Tell(seq)
  /\ Upset(IF Stranger(x, y) THEN {} ELSE Below[x] \union Below[y], seq)
  /\ Operate
  /\ UNCHANGED watch

\* A file in the directory is changed: one change at a time is followed until
\* it is reported.  Nobody is told without a watch.
Change(p) ==
  LET seq == Note("file", dir[p], ".") IN
  /\ dir[p] # None
  /\ seq # <<>>
  /\ Tell(seq)
  /\ Upset({}, seq)
  /\ owed = NoPath
  /\ owed' = p
  /\ UNCHANGED <<tree, watch, nextwd, tables, owner, thread, batch>>
-----------------------------------------------------------------------------
(* add_watch_recursive(), remove_watch()                                   *)

\* For a directory that is watched inotify_add_watch() returns its descriptor.
Watch(p, i) ==
  LET w == IF WatchOf(i) = {} THEN nextwd ELSE WdOf(i) IN
  /\ w \in Wd
  /\ watch' = [watch EXCEPT ![w] = i]
  /\ nextwd' = IF w = nextwd THEN nextwd + 1 ELSE nextwd
  /\ wd_to_path' = [wd_to_path EXCEPT ![w] = p]
  /\ path_to_wd' = [path_to_wd EXCEPT ![p] = w]

\* Mutant: the result of inotify_add_watch() is not looked at.
AddUnchecked(p) ==
  \/ path_to_wd[p] # None /\ UNCHANGED <<watch, nextwd, tables, unsure>>
  \/ path_to_wd[p] = None /\ Watch(p, dir[p]) /\ UNCHANGED unsure
  \/ /\ path_to_wd[p] = None
     /\ path_to_wd' = [path_to_wd EXCEPT ![p] = -1]
     /\ UNCHANGED <<watch, nextwd, wd_to_path, unsure>>

\* The call may fail, at the limit on watches for instance, and is not tried
\* again.
add_watch(p) ==
  \/ path_to_wd[p] # None /\ UNCHANGED <<watch, nextwd, tables, unsure>>
  \/ path_to_wd[p] = None /\ Watch(p, dir[p]) /\ UNCHANGED unsure
  \/ /\ path_to_wd[p] = None
     /\ unsure' = unsure \union Below[p]
     /\ UNCHANGED <<watch, nextwd, tables>>

Walking == owner = "starting" \/ thread = "apply"

Visit(k, p) ==
  /\ Walking
  /\ opened = {}
  /\ <<k, p>> \in new_dirs
  /\ \A d \in new_dirs : k <= d[1]
  /\ new_dirs' = new_dirs \ {<<k, p>>}
  /\ \/ /\ dir[p] # None /\ p \in Seen
        /\ add_watch(p)
        /\ opened' = opened \union {p}
     \/ /\ dir[p] = None \/ p \notin Seen
        /\ UNCHANGED <<watch, nextwd, tables, unsure, opened>>
  /\ UNCHANGED <<tree, queue, owner, thread, removed_dirs, events, owed>>

\* Mutant: the directories in a new directory are left to their events.
ListNothing(p) ==
  /\ Walking /\ p \in opened
  /\ opened' = opened \ {p}
  /\ UNCHANGED <<tree, kernel, tables, owner, thread, new_dirs, removed_dirs, events, owed, unsure>>

\* directory_iterator: what is there by now.
List(p) ==
  /\ Walking
  /\ p \in opened
  /\ opened' = opened \ {p}
  /\ new_dirs' = new_dirs \union ({0} \X Children(p))
  /\ UNCHANGED <<tree, kernel, tables, owner, thread, removed_dirs, events, owed, unsure>>

\* Mutant: the table of descriptors is left alone.
RemoveHalf(p) ==
  /\ path_to_wd' = [path_to_wd EXCEPT ![p] = None]
  /\ watch' = [w \in Wd |-> IF w = path_to_wd[p] THEN None ELSE watch[w]]
  /\ UNCHANGED wd_to_path

\* Only p itself: what is watched below it stays watched, and in the tables.
remove_watch(p) ==
  /\ path_to_wd' = [path_to_wd EXCEPT ![p] = None]
  /\ wd_to_path' = [w \in Wd |-> IF w = path_to_wd[p] THEN NoPath ELSE wd_to_path[w]]
  /\ watch' = [w \in Wd |-> IF w = path_to_wd[p] THEN None ELSE watch[w]]
-----------------------------------------------------------------------------
(* start() and stop()                                                      *)

Start ==
  /\ owner = "stopped"
  /\ owner' = "starting"
  /\ new_dirs' = {<<0, Root>>}
  /\ UNCHANGED <<tree, kernel, tables, thread, opened, removed_dirs, events, owed, unsure>>

StartThread ==
  /\ owner = "starting"
  /\ new_dirs = {} /\ opened = {}
  /\ owner' = "started"
  /\ thread' = "test"
  /\ UNCHANGED <<tree, kernel, tables, batch, owed, unsure>>

Stop ==
  /\ owner = "started"
  /\ owner' = "stopping"
  /\ UNCHANGED <<tree, kernel, tables, thread, batch, owed, unsure>>

\* join(), close(), clear().
Join ==
  /\ owner = "stopping"
  /\ thread = "none"
  /\ owner' = "stopped"
  /\ watch' = NoWatch
  /\ nextwd' = 1
  /\ queue' = <<>>
  /\ wd_to_path' = NoPaths
  /\ path_to_wd' = NoWds
  /\ owed' = NoPath
  /\ unsure' = {}
  /\ UNCHANGED <<tree, thread, batch>>
-----------------------------------------------------------------------------
(* run() and process_events()                                              *)

GoTo(from, to) ==
  /\ thread = from
  /\ thread' = to
  /\ UNCHANGED <<tree, kernel, tables, owner, batch, owed, unsure>>

\* while (running.load())
Test == GoTo("test", IF owner = "started" THEN "select" ELSE "none")

\* Mutant: select() without a timeout.
NoTimeout == FALSE

\* select() returns after 200 ms without an event.
Timeout == queue = <<>> /\ GoTo("select", "test")

\* select() or read() fails.
Break == GoTo("select", "none")

\* Mutant: a descriptor that is not known ends the loop.
KnownPrefix(buf, kinds) ==
  {p \in Path : \E k \in 1 .. Len(buf) :
     /\ buf[k][1] \in kinds /\ About(buf[k], p)
     /\ \A j \in 1 .. k : wd_to_path[buf[j][2]] # NoPath}

\* The paths of the events of these kinds in the buffer.
Paths(buf, kinds) ==
  {p \in Path : \E k \in 1 .. Len(buf) : buf[k][1] \in kinds /\ About(buf[k], p)}

\* read() returns what is there or as much as fits, and the loop sorts it:
\* only this thread uses the tables, so nothing can come between.
Read ==
  /\ thread = "select"
  /\ \E k \in 1 .. Len(queue) :
       LET buf == SubSeq(queue, 1, k) IN
       /\ queue' = SubSeq(queue, k + 1, Len(queue))
       /\ new_dirs' = {d \in (1 .. k) \X Path : buf[d[1]][1] = "new" /\ About(buf[d[1]], d[2])}
       /\ removed_dirs' = Paths(buf, {"gone", "self"})
       /\ events' = Paths(buf, {"file"})
  /\ thread' = "apply"
  /\ UNCHANGED <<tree, watch, nextwd, tables, owner, opened, owed, unsure>>

Remove(p) ==
  /\ thread = "apply"
  /\ new_dirs = {} /\ opened = {}
  /\ p \in removed_dirs
  /\ removed_dirs' = removed_dirs \ {p}
  /\ IF path_to_wd[p] = None THEN UNCHANGED <<watch, tables>> ELSE remove_watch(p)
  /\ UNCHANGED <<tree, nextwd, queue, owner, thread, new_dirs, opened, events, owed, unsure>>

\* callback(events).
Callback ==
  /\ thread = "apply"
  /\ new_dirs = {} /\ opened = {} /\ removed_dirs = {}
  /\ owed' = IF owed \in events THEN NoPath ELSE owed
  /\ events' = {}
  /\ thread' = "test"
  /\ UNCHANGED <<tree, kernel, tables, owner, new_dirs, opened, removed_dirs, unsure>>
-----------------------------------------------------------------------------
Author ==
  \E p \in Path : Mkdir(p) \/ Rmdir(p) \/ Change(p) \/ \E q \in Path : Move(p, q)
walk == \E p \in Path : List(p) \/ \E k \in 0 .. MaxQueue : Visit(k, p)
run == Test \/ Timeout \/ Read \/ Callback \/ \E p \in Path : Remove(p)

Next == Author \/ Start \/ StartThread \/ Stop \/ Join \/ walk \/ run \/ Break

Spec == Init /\ [][Next]_vars

\* The program's threads are scheduled; nothing makes the author act or the
\* owner call start() or stop().
FairSpec == Spec /\ WF_vars(StartThread) /\ WF_vars(Join) /\ WF_vars(walk) /\ WF_vars(run)
-----------------------------------------------------------------------------
(* Properties                                                              *)

\* Types of the variables.
TypeOK ==
  /\ dir \in [Path -> Inode \union {None}]
  /\ ops \in 0 .. MaxOp
  /\ watch \in [Wd -> Inode \union {None}]
  /\ nextwd \in 1 .. MaxWd + 1
  /\ queue \in Seq(Event) /\ Len(queue) <= MaxQueue
  /\ wd_to_path \in [Wd -> Path \union {NoPath}]
  /\ path_to_wd \in [Path -> Wd \union {None}]
  /\ owner \in {"stopped", "starting", "started", "stopping"}
  /\ thread \in {"none", "test", "select", "apply"}
  /\ new_dirs \subseteq (0 .. MaxQueue) \X Path
  /\ opened \union removed_dirs \union events \subseteq Path
  /\ owed \in Path \union {NoPath}
  /\ unsure \subseteq Path

\* Whatever the author does, whatever is lost or refused: a directory that the
\* kernel watches can be found in wd_to_path, so its events are not skipped,
\* and what wd_to_path says path_to_wd says too, so the watch can be removed.
NoStrayWatch ==
  \A w \in Wd :
    /\ watch[w] # None => wd_to_path[w] # NoPath
    /\ wd_to_path[w] # NoPath => path_to_wd[wd_to_path[w]] = w

\* A watcher that waits for events and has read them all knows p: if there is
\* a directory it is watched, under this path, and else nothing is left of it.
Tracked(p) ==
  thread = "select" /\ queue = <<>> =>
    \/ dir[p] = None /\ path_to_wd[p] = None
    \/ /\ dir[p] # None /\ path_to_wd[p] # None
       /\ watch[path_to_wd[p]] = dir[p] /\ wd_to_path[path_to_wd[p]] = p

\* ADR 0013:41 "Recursive watch: on `start()`, walk all directories under root"
\* and :43 "Dynamic tracking", for every path that was not moved, with or below
\* a directory, nor made again before its removal was dealt with, while
\* anything may happen to the others.
InSync == \A p \in (Seen \cap Below[Root]) \ unsure : Tracked(p)

\* The same for all paths.
DynamicTracking == \A p \in Seen \cap Below[Root] : Tracked(p)

\* The two tables are inverse to each other.
TablesInverse ==
  \A w \in Wd, p \in Path : wd_to_path[w] = p <=> path_to_wd[p] = w

\* A change of a file that the kernel has queued is handed to the callback
\* under the path of its directory, unless the watcher ends.
Reported == (owed # NoPath) ~> (owed = NoPath \/ owed \in unsure \/ thread = "none")

\* stop() returns, whatever the thread is doing.
StopReturns == (owner = "stopping") ~> (owner = "stopped")
=============================================================================
