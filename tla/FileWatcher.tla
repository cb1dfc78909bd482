---------------------------- MODULE FileWatcher ----------------------------
(***************************************************************************)
(* `nift serve`: cmd_serve (crates/cli) builds the site, then starts the   *)
(* polling FileWatcher (crates/server/watcher), whose thread scans the     *)
(* modification times of content_dir, in whole seconds, and rebuilds when  *)
(* they differ from the last scan.  Files are visited one by one, so the   *)
(* author can act between any two visits of a scan or of a build.          *)
(*                                                                         *)
(* cmd_build is taken by what SiteBuild says of it, which IncrementalBuild *)
(* implements: every source is published as it was when it was opened.     *)
(***************************************************************************)
EXTENDS Integers, FiniteSets

CONSTANTS
  File,      \* the files content_dir may hold
  Ignored,   \* those whose path holds one of ignored_substrings
  MaxTime,   \* bound: seconds the clock runs
  MaxEdit,   \* bound: number of edits
  Paced      \* the files the author changes at most once per second

ASSUME FileAssumption == IsFiniteSet(File) /\ Ignored \subseteq File
ASSUME BoundAssumption == MaxTime \in Nat \ {0, 1} /\ MaxEdit \in Nat \ {0}   \* Init fits
ASSUME PacedAssumption == Paced \subseteq File

None == 0        \* no such file, no such mtime

VARIABLES
  clock,     \* the time of day in seconds
  root,      \* content_dir exists
  ver,       \* ver[f]: the edit that gave f its content, or None
  mtime,     \* mtime[f]: the second f was last changed
  edits,     \* number of edits so far
  main,      \* where cmd_serve is
  todo,      \* the sources the running build has still to open
  failed,    \* the running build has a Failed source
  out,       \* out[f]: the edit whose content is in the output of f
  wpc,       \* where the watcher thread is
  walk,      \* the files the running scan has still to visit
  seen,      \* seen[f]: the mtime the running scan found
  mtimes,    \* mtimes[f]: the mtime the last scan recorded
  running,   \* FileWatcher::running
  late       \* history: f was changed after the baseline scan had visited it

author  == <<clock, root, ver, mtime, edits>>
build   == <<todo, failed, out>>
watcher == <<wpc, walk, seen, mtimes, running>>
vars == <<author, main, build, watcher, late>>

Unseen == [f \in File |-> None]
-----------------------------------------------------------------------------
Init ==
  /\ clock = 2
  /\ root = TRUE
  /\ ver \in [File -> {None, 1}]
  /\ mtime = [f \in File |-> IF ver[f] = None THEN None ELSE 1]
  /\ edits = 1
  /\ main = "discover"
  /\ todo = {}
  /\ failed = FALSE
  /\ out = Unseen
  /\ wpc = "off"
  /\ walk = {}
  /\ seen = Unseen
  /\ mtimes = Unseen
  /\ running = FALSE
  /\ late = [f \in File |-> FALSE]
-----------------------------------------------------------------------------
(* The author                                                              *)

Tick ==
  /\ clock < MaxTime
  /\ clock' = clock + 1
  /\ UNCHANGED <<root, ver, mtime, edits, main, build, watcher, late>>

\* The baseline has visited f, or there is no baseline to come.
Watched(f) == main = "serve" \/ (main = "baseline" /\ f \notin walk)

Touch(f) ==
  /\ f \in Paced => mtime[f] # clock
  /\ mtime' = [mtime EXCEPT ![f] = clock]
  /\ late' = [late EXCEPT ![f] = @ \/ Watched(f)]
  /\ UNCHANGED <<clock, main, build, watcher>>

Edit(f) ==
  /\ edits < MaxEdit
  /\ edits' = edits + 1
  /\ ver' = [ver EXCEPT ![f] = edits + 1]
  /\ root' = TRUE
  /\ Touch(f)

Delete(f) ==
  /\ ver[f] # None
  /\ ver' = [ver EXCEPT ![f] = None]
  /\ Touch(f)
  /\ UNCHANGED <<root, edits>>

\* The last file goes, and content_dir with it.
RemoveRoot ==
  /\ root
  /\ \A f \in File : ver[f] = None
  /\ root' = FALSE
  /\ UNCHANGED <<clock, ver, mtime, edits, main, build, watcher, late>>
-----------------------------------------------------------------------------
(* cmd_build                                                               *)

\* discover_sources().
Discover ==
  /\ todo' = {f \in File : ver[f] # None}
  /\ failed' = FALSE
  /\ UNCHANGED out

\* One task of the build opens f and writes its output.
BuildFile(f) ==
  /\ f \in todo
  /\ todo' = todo \ {f}
  /\ failed' = (failed \/ ver[f] = None)
  /\ out' = [out EXCEPT ![f] = IF ver[f] = None THEN @ ELSE ver[f]]
  /\ UNCHANGED <<author, main, watcher, late>>
-----------------------------------------------------------------------------
(* cmd_serve: build, baseline scan, serve                                  *)

InitialBuild ==
  /\ main = "discover"
  /\ Discover
  /\ main' = "build"
  /\ UNCHANGED <<author, watcher, late>>

\* What is in content_dir when a scan begins; a file that is added later may
\* be missed by the walk, which is as if it were added after the scan.
BeginWalk == walk' = {f \in File \ Ignored : ver[f] # None}

\* A failed initial build ends cmd_serve, and so does an HTTP server that
\* cannot bind its port.
StartWatching ==
  /\ main = "build"
  /\ todo = {}
  /\ \/ main' = "exited" /\ UNCHANGED walk
     \/ ~failed /\ main' = "baseline" /\ BeginWalk
  /\ UNCHANGED <<author, build, wpc, seen, mtimes, running, late>>

\* FileWatcher::start(): the baseline is recorded, its events are dropped.
Baseline ==
  /\ main = "baseline"
  /\ walk = {}
  /\ mtimes' = seen
  /\ seen' = Unseen
  /\ running' = TRUE
  /\ main' = "serve"
  /\ wpc' = "loop"
  /\ UNCHANGED <<author, build, walk, late>>

\* cmd_serve returns when the HTTP server is down: ~FileWatcher() stops.
Stop ==
  /\ main = "serve"
  /\ running' = FALSE
  /\ main' = "stopping"
  /\ UNCHANGED <<author, build, wpc, walk, seen, mtimes, late>>

Join ==
  /\ main = "stopping"
  /\ wpc = "ended"
  /\ main' = "exited"
  /\ UNCHANGED <<author, build, watcher, late>>
-----------------------------------------------------------------------------
(* FileWatcher::Impl::scan() and the thread that calls it                  *)

\* Visit f: last_write_time(); a file that is gone is skipped.
Visit(f) ==
  /\ f \in walk
  /\ walk' = walk \ {f}
  /\ seen' = [seen EXCEPT ![f] = IF ver[f] = None THEN None ELSE mtime[f]]
  /\ UNCHANGED <<author, main, build, wpc, mtimes, running, late>>

\* Test running and begin a scan; no events and no change of mtimes if
\* content_dir cannot be opened.
Loop ==
  /\ wpc = "loop"
  /\ \/ ~running /\ wpc' = "ended" /\ UNCHANGED walk
     \/ running /\ root /\ wpc' = "scan" /\ BeginWalk
     \/ running /\ ~root /\ wpc' = "sleep" /\ UNCHANGED walk
  /\ UNCHANGED <<author, main, build, seen, mtimes, running, late>>

\* Mutant: only files that have come or gone count.
CommitNames ==
  /\ wpc = "scan" /\ walk = {}
  /\ mtimes' = seen
  /\ seen' = Unseen
  /\ \/ (\E f \in File : (mtimes[f] = None) # (seen[f] = None)) /\ wpc' = "build" /\ Discover
     \/ (\A f \in File : (mtimes[f] = None) = (seen[f] = None)) /\ wpc' = "sleep" /\ UNCHANGED build
  /\ UNCHANGED <<author, main, walk, running, late>>

\* The scan is over: an Added, Modified or Removed event for each file whose
\* mtime is not the recorded one; any event runs the callback, which rebuilds.
Commit ==
  /\ wpc = "scan"
  /\ walk = {}
  /\ mtimes' = seen
  /\ seen' = Unseen
  /\ \/ seen # mtimes /\ wpc' = "build" /\ Discover
     \/ seen = mtimes /\ wpc' = "sleep" /\ UNCHANGED build
  /\ UNCHANGED <<author, main, walk, running, late>>

\* The rebuild is done, with sources that had gone or not, and the callback
\* returns.  Its status is thrown away; a rebuild that fails for another reason
\* (a full disk) is left out: the mtimes are recorded, nothing would repeat it.
Rebuilt ==
  /\ wpc = "build"
  /\ todo = {}
  /\ wpc' = "sleep"
  /\ UNCHANGED <<author, main, build, walk, seen, mtimes, running, late>>

\* poll_interval passes.
Sleep ==
  /\ wpc = "sleep"
  /\ wpc' = "loop"
  /\ UNCHANGED <<author, main, build, walk, seen, mtimes, running, late>>
-----------------------------------------------------------------------------
Author ==
  \/ Tick \/ RemoveRoot
  \/ \E f \in File : Edit(f) \/ Delete(f)

cmd_serve ==
  \/ InitialBuild \/ StartWatching \/ Baseline \/ Stop \/ Join
  \/ \E f \in File : BuildFile(f) \/ Visit(f)

watch == Loop \/ Commit \/ Rebuilt \/ Sleep

Next == Author \/ cmd_serve \/ watch

Spec == Init /\ [][Next]_vars

\* Both threads keep being scheduled; nothing makes the author act, the clock
\* tick or the server stop.
Fairness ==
  /\ WF_vars(\E f \in File : BuildFile(f))
  /\ WF_vars(\E f \in File : Visit(f))
  /\ WF_vars(InitialBuild \/ StartWatching \/ Baseline \/ Join)
  /\ WF_vars(watch)

FairSpec == Spec /\ Fairness
-----------------------------------------------------------------------------
(* Properties                                                              *)

\* Types of the variables.
TypeOK ==
  /\ clock \in 1 .. MaxTime
  /\ root \in BOOLEAN
  /\ ver \in [File -> 0 .. MaxEdit]
  /\ mtime \in [File -> 0 .. MaxTime]
  /\ edits \in 1 .. MaxEdit
  /\ main \in {"discover", "build", "baseline", "serve", "stopping", "exited"}
  /\ todo \subseteq File
  /\ failed \in BOOLEAN
  /\ out \in [File -> 0 .. MaxEdit]
  /\ wpc \in {"off", "loop", "scan", "build", "sleep", "ended"}
  /\ walk \subseteq File
  /\ seen \in [File -> 0 .. MaxTime]
  /\ mtimes \in [File -> 0 .. MaxTime]
  /\ running \in BOOLEAN
  /\ late \in [File -> BOOLEAN]

\* When the recorded mtime of f is the one on disk, so that the scans to come
\* will not report it, its output holds its content, unless the rebuild that
\* will see to it is still under way.
Recorded(f) ==
  /\ main = "serve" /\ late[f] /\ ver[f] # None
  /\ mtimes[f] = mtime[f]
  /\ f \notin todo
  => out[f] = ver[f]

\* The watcher never records the mtime of a content that it leaves
\* unpublished.
RecordedIsPublished == \A f \in File \ Ignored : Recorded(f)

\* quickstart.md:59 "Edits to `content/` trigger a rebuild": while the server
\* runs, an edit made after the baseline scan to a file that is not ignored
\* gets published in the end.
EditPublished ==
  \A f \in File \ Ignored : late[f] ~> (ver[f] = None \/ out[f] = ver[f] \/ ~running)
-----------------------------------------------------------------------------
(* Refinement                                                              *)

busy == main = "build" \/ wpc = "build"
amiss == failed \/ main = "discover"

Site == INSTANCE SiteBuild
  WITH Source <- File, Bytes <- 0 .. MaxEdit, Absent <- None,
       src <- ver, site <- out, building <- busy, failed <- amiss

\* cmd_serve and the watcher use builds as SiteBuild offers them and no other
\* way: one at a time, each from its discovery to its end.
UsesSiteBuild == Site!QuietSpec
=============================================================================
