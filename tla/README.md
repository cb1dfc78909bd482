# A TLA+ model of nift v2

nift v2 (`src/crates`, C++20) is a static site generator: `nift build` copies
the sources under `content/` to `public/` on a work-stealing thread pool and
keeps an index of BLAKE3 hashes so that the next build skips what has not
changed; `nift serve` builds, serves `public/` over HTTP and rebuilds when a
watcher sees a change. This directory models the parts of it where the order
of events matters, checks them with TLC on small instances and proves the
safety properties of all but the template engine with TLAPS for every
instance.

## The system

| part | state | operations | hard because |
|---|---|---|---|
| executor (`crates/build/executor`) | one deque per worker, `stop_`, `active_`, `next_push_` | `submit`, `worker_loop`, `try_steal`, `wait_idle`, `shutdown`, destructor | owners and thieves race for tasks; `submit` races with `shutdown` |
| pipeline (`crates/build/pipeline`) | the tasks of a build, their results | `build`, `build_one` | tasks share the cache without a lock; outputs are truncated in place |
| build cache (`crates/project/cache`) | `entries_`; `index.json.cbor`, `index.json` and their `.tmp` files | `load`, `save`, `is_dirty`, `put` | the index must stay true to the outputs over crashes, failed writes, edits during a build |
| mapped reader, core file system | - | `MmapReader::open`, `write_file` | a mapping is live; an `ofstream` reports errors late |
| command line (`crates/cli`) | exit status | `cmd_build`, `cmd_clean`, `cmd_serve`, `cmd_init`, `cmd_migrate` | a command can be interrupted between two steps |
| polling watcher (`crates/server/watcher`) | recorded mtimes, `running` | `start`, `scan`, `stop`, `poll_once` | the author edits during scans and rebuilds; mtimes have a granularity |
| native watcher | inotify descriptor tables | `add_watch_recursive`, `remove_watch`, `process_events`, `stop` | events arrive in batches, after the fact; trees move as a whole |
| HTTP server, live reload | SSE sinks, `generation` | SSE handler, `notify_rebuild`, `stop`; injected script | sinks outlive handlers; clients connect and leave at any time |
| Tailwind watcher | child process, thread, `running` | `start`, `stop` | the child may end at any time |
| template lexer, parser, evaluator, expressions | tokens, AST, variables, output | recursive functions | control flow across blocks; limits |
| SIMD scanner, configuration, migrator, plugins, assets, images, markdown | mostly none | functions of their input | boundaries, precedence of inputs |
| `legacy/` | - | - | the old program, not built |

`cmd_build` loads the cache, finds the sources, gives each as a task to the
pipeline's pool, waits for all of them and saves the cache. `cmd_serve` calls
`cmd_build`, starts the HTTP server and then the watcher, whose thread calls
`cmd_build` and `HttpServer::notify_rebuild` from its callback. The template
engine, markdown and images are libraries that `build_one` does not call yet:
it copies bytes ("Phase 4 placeholder").

What makes each part correct:

* executor: every accepted task runs exactly once; `wait_idle` and `shutdown`
  mean what they say and return;
* build and cache: a build that exits with 0 leaves every output equal to its
  source, whatever happened to earlier builds; the index is always readable;
* watcher: every edit is published in the end, and stopping works at any time;
* live reload: a page in a browser is in the end the one on disk, and stays;
* Tailwind: the child is stopped with the server, and nothing else is;
* templates: the output is the one the language's rules give.

## Modules

| module | models | run by |
|---|---|---|
| `TaskPool` | abstract specification of a task pool | - |
| `WorkStealingPool` (`_proofs`) | the executor | `MC_Pool` |
| `SiteBuild` | abstract specification of a build: no cache, no tasks, no files of its own | - |
| `IncrementalBuild` (`_proofs`) | `cmd_build`, `cmd_clean`, pipeline, cache, the files on disk | `MC_Build` |
| `FileWatcher` (`_proofs`) | `cmd_serve` and the polling watcher | `MC_Watch` |
| `LiveReload` | the HTTP server, its event streams, the injected script, the browser | - |
| `DevServer` (`_proofs`) | `nift serve`: `FileWatcher` composed with `LiveReload` | `MC_Serve` |
| `TailwindWatcher` (`_proofs`) | the Tailwind child process, its thread and `stop()` | `TailwindWatcher` |
| `NativeWatcher` (`_proofs`) | the inotify watcher: tables, walk, batches, `start()` and `stop()` | `MC_Native` |
| `Template`, `TemplateLaws` | lexer, parser and evaluator; the laws they are checked against | `TemplateLaws` |
| `Config` (`_proofs`) | `load_or_default`, `nift init`, `nift migrate` | `MC_Config` |

`M_proofs` extends `M` with its inductive invariant and the theorems about it.
Each specification module also holds, right before some of its actions, a
mutated form of the action (marked "Mutant"): a mistake the code could have.
They are not part of any specification; they show that the properties notice.

### WorkStealingPool

A variable per member of the class, a program counter per thread. One action
is one critical section or one atomic access: `SubmitCheck`, `SubmitCount`,
`SubmitTarget`, `SubmitPush` are the four steps of `submit()`; `TestStop`,
`PopLocal`, `TrySteal` (one victim at a time), `RunTask`, `Decrement`,
`IdleWait`, `DrainLocal` those of `worker_loop()`; `ShutdownExchange` and
`ShutdownJoin` those of `shutdown()`. The condition variable is left out: a
worker waits with a timeout of 1 ms and therefore wakes without it. Every task
has a submitting thread of its own; any number of threads may call
`shutdown()`; one call of `wait_idle()` is followed. The destructor begins only
when no other call is in progress, as C++ demands. `next_push_` is a natural
number: a wrap of the 64-bit counter would only change which deque is drawn.

`TaskPool` says what a caller may rely on: a task is accepted or refused,
accepted only while the pool is open; an accepted task completes at most once,
and only while the pool exists; it is abandoned only by the pool's end.
`statusOf` and `Abstract` give the refinement.

### IncrementalBuild

The disk: sources, outputs, two index files with their `.tmp` files. The
process: the phase of the command, `entries_`, and per source where
`build_one` is. A content is a number that also stands for its hash (BLAKE3 is
taken to be injective); the k-th edit makes content k. `Torn` is any other
sequence of bytes: empty, cut off, or mixed from two versions.

`build_one` is `TaskOpen` (map and hash, in one step: an edit between the two
counts as made before both or, if it replaces the file, after both),
`TaskLookup` (`is_dirty`), `TaskTruncate` and `TaskCopy` (`write_file`),
`TaskPut`. At most `Threads` tasks run at once. `Copied` is what the copy of a
live mapping can leave. `SaveTruncate`, `SaveWrite`, `SaveRename` are `save()`,
once for CBOR and once for JSON. `Exit` and `Return` end the process.
`CleanOutput` and `CleanCache` are the two removals of `cmd_clean`.

`env`, chosen from `Envs` in the initial state and fixed from then on, says
what else happens: `crash` (the process dies between any two steps), `enospc`
(an open, a write or a rename fails and says so), `silent` (it fails in the
destructor of the `ofstream`), `live` (in-place edits of mapped sources),
`race` (unsynchronised accesses to `entries_` lose entries or miss them),
`revert` (contents come back: an undo, a checkout), `nocache`, `clean`, and
`halfclean` (`clean` dies between its two removals). Edits and deletions of
sources are always possible, during a build too. Directories are not modelled;
a power failure that loses data already written is not; two nift processes at
once are not.

`SiteBuild` says what a caller of `cmd_build` may rely on: a build takes the
sources it finds, publishes each as it is when it is opened, and ends well only
if none failed (`QuietSpec`); an edit in place, a file that cannot be read or
written, the death of the process and `nift clean` are the only things that
disturb it (`Spec`). `published`, `view`, `queued`, `busy` and `amiss` give the
refinement: as soon as a task has hashed a source, that content counts as
published, because the task will either write it or find that it is there. That
it *is* there when the cache says so is what makes the refinement hard.

### FileWatcher

`cmd_serve` step by step: the initial build, the baseline scan, then the
watcher thread (`Loop`, `Visit` per file, `Commit`, `Rebuilt`, `Sleep`) beside
the author, who edits and deletes between any two visits. mtimes are seconds
of a clock. `cmd_build` is taken as `SiteBuild` offers it: each output gets the
content its source has when it is opened. `IncrementalBuild` implements that
(`QuietRefinement`) and this module uses no more than that (`UsesSiteBuild`,
theorem `BuildUse`), so the two models meet in one specification. A rebuild
that fails because of the disk is therefore left out: the callback throws its
status away after the scan has recorded the mtimes, and nothing repeats it. `late`
records that a file was changed after the baseline had visited it. `Paced` is
the set of files that the author changes at most once per second.

### LiveReload and DevServer

`LiveReload` has the fields of `HttpServerImpl` (`generation`, `sse_clients`,
`http` for its life cycle), one slot per address a sink may have (`hpc` where
its handler is, `conn` which tab is at the other end) and the browser: per tab
the state of its script, the page it was served, the messages on their way
and the script's `last`. A handler keeps one of cpp-httplib's `Workers` until
its stream ends; that is why a server with all workers taken answers nobody.
`Accept` writes the greeting, `Register` inserts the sink under the lock:
they are two actions because `notify_rebuild()` (`Bump`, `Push`) can come in
between. `StreamEnds` leaves the address in `sse_clients`, as the code does; a
later handler may get the same address, and a push to an address with nobody
behind it is undefined behaviour: it may do nothing or end the process
(`crashed`).

`ServePage` adds the script only where the code does: a file that is not there
(404), is not HTML or has no `</body>` leaves the tab `plain`, and so may one
that is read while a build writes it in place. Nothing reloads a plain tab.
`ListenFails` lets handlers go on after the server has stopped accepting, which
is more than cpp-httplib does.

What a page may show is a value of `View`, and `Scripted` says in which of them
the document of a tab gets the script. By itself, `LiveReload` only says
that under a running server the site changes while the callback builds, and
then `notify_rebuild()` runs.

`DevServer` is `FileWatcher` with `L == INSTANCE LiveReload WITH site <- out`:
the site is what the builds have written. It implements both specifications
(`ImplementsWatcher`, `ImplementsLiveReload`). Its actions join the two: the
callback is `cmd_build` and then `notify_rebuild()`, the server starts before
the baseline scan, and the order of `cmd_serve`'s locals stops and joins the
watcher before the server is destroyed. `Doc` is the file whose output a tab
shows, `Html` the edits that leave it a page with a `</body>`.

### TailwindWatcher

`child_pid` is a plain field that the thread and the owner both use, so each
access is an action: `Fork`, `SetPid`, `Reap`, `ClearPid`, `Leave` are the
thread, `StopEnter` to `StopJoin` are `stop()`, with its 20 rounds of
`kill(child_pid, 0)`. The child may end at any time or ignore `SIGTERM`; a
zombie still takes signals; the id of a reaped child may be given to a
stranger (`Recycle`); `kill(-1, sig)` goes to everyone. `struck` records which
signal went to whom. Assigning to or destroying a joinable `std::thread` is
`std::terminate()`. Left out: a `std::thread` constructor that throws, which
leaves `running` set without a thread; what a new thread does before the
assignment that terminates the process; processes that the child forks.

### NativeWatcher

A path is a sequence of names and `dir` a tree of directories of any depth, the
watched root and a part of the disk outside of it. The kernel's part (one watch
per directory, descriptors that are never reused, a queue that overflows at
`MaxQueue`, `MaxWd` watches) follows inotify(7). The program's part is the two
tables and the threads: `Visit` and `List` are `add_watch_recursive()`, which
sets a watch and then lists what is in the directory *by now*; `Read` takes a
batch and sorts it; `Remove` is `remove_watch()`, which does not descend;
`Callback` reports; `Break` is the end of the loop on an error. A watch may be
refused. The author makes, removes and moves directories with all that is below
them, within the tree, into it and out of it, and changes files between any two
of these steps, those of `start()`'s walk included.

The code does not follow all of this, so the properties say what remains.
`NoStrayWatch` holds whatever happens. `unsure` is a history variable: the paths
with or below which a directory was moved, or made again before its removal
was dealt with, or refused a watch, and every path once an event is lost. `InSync`
speaks of all the others, *while* anything may happen to these.

### Template and TemplateLaws

`tokenize`, `parse` and `accept` are the three stages, with the parser's split
of a text token (the remainder goes back in front of the others) and the
evaluator's results `Ok`, `Skip`, `Break`, `Return`, `Error`. Left out: white
space, quotes, comments, escapes, and the operators of conditions; an argument
is one word or one variable. They are recursive operators, so TLAPS cannot be
used here.

`TemplateLaws` takes every pair of trees of a family (two bodies, a law, two
levels of context), prints them as source, and sends them through the stages.
The reference is the law, not a second evaluator: for instance a loop of two
rounds equals its body written twice, a `@break` leaves the innermost loop, a
function equals its body, a `@break` in a function ends the loop that calls it,
a section writes where it is yielded. For `@exit` the second tree has a mark in
its place, and the output of the first must be that of the second up to the
mark, no less and no more. Arguments are single words, without nesting or `;`,
and texts have no braces of their own.

### Config

The files: the five places of a v1 configuration, `nift.json`, the two
`tracked.json`, the sample page. `load_or_default` and `find_v1_config` are the
two searches, operators over these files. `nift init` and `nift migrate` are a
step per open and per write; `Kill` ends them between any two, a write may be
lost (the results of most are not looked at; a `tracked.json` that cannot be
read has the effect of a lost one), the author edits between
commands, and `Revert` deletes `nift.json` as `migration.md` advises. `Bad` is
a file that is there and cannot be read or parsed. Two fields stand for all:
each is translated, rebased and written the same way; text that is not UTF-8, on
which the JSON library throws, is left out.

## Runs

| run | checks | shows |
|---|---|---|
| `pool_safety` | `TypeOK`, `RunsOnce`, `CountsInFlight`, `WaitIdleSound`, `EarlyTasksDrained`, `JoinedBeforeDestroyed`, `IInv`, `ImplementsTaskPool` | the executor is safe with a second thread calling `shutdown()`; the inductive invariant holds |
| `pool_live` | `PendingTasksComplete`, `WaitIdleReturns`, `QueuedTaskRuns`, `ShutdownReturns` | used as the pipeline uses it, the pool loses nothing and every call returns |
| `build` | `TypeOK`, `UpToDate`, `CachedIsFresh`, `IndexSound`, `IndexNeverTorn`, `ImplementsSiteBuild` | neither crashes, failed writes and edits during builds, nor `--no-cache`, `clean` and lost cache entries, nor edits that are undone leave a later successful build out of date; to a caller the cache does not show |
| `build_race` | `CacheSingleThreaded` violated | tasks race on the cache, against `architecture.md:160` |
| `watch_paced` | `RecordedIsPublished`, `EditPublished` | every edit is published if a file is saved at most once per second |
| `serve` | `NoLostReload`, `CallbackHasServer`, `ImplementsLiveReload`, `EditShown`, `ServeReturns` | edits reach the screen of a tab with the script, no announced rebuild is lost, `cmd_serve` returns with streams open |
| `reload_loop` | `ReloadsOnChange` violated | the greeting reloads the page, which is greeted again, against ADR 0011:64 |
| `tailwind` | `NoChildLeft`, `RunningIsWatched`, `AbortsOnlyUnasked`, `StopReturns` | no child outlives `stop()`, which returns; the process ends only if a child ended unasked before |
| `tailwind_kill` | `KillIsForOne` violated | the child obeys `SIGTERM` and is waited for, `child_pid` is -1 before the next round, `kill(-1, 0)` finds somebody, and after the last round `kill(-1, SIGKILL)` is for every process, against `tailwind.hpp:115` |
| `native` | `TypeOK`, `NoStrayWatch`, `InSync`, `Reported`, `StopReturns` | no watch is ever lost from the tables; an idle watcher watches what is there at every path that was not moved, whatever moves beside it; queued changes are reported, `stop()` returns |
| `template` | `RoundTrip`, `Laws`, `ExitCutsOff` | the parser gives the tree back, blocks obey their laws in every context, `@exit` keeps exactly what was written before it |
| `config` | `TypeOK`, `MigrateKeeps`, `Completes` | a migration killed and repeated changes nothing that is loaded, and completes |

`UpToDate` is the main property of the build: exit status 0 and nobody
touching the files meanwhile implies that every output equals its source.
`build` shows it *under assumptions* that a user should know. Builds that die
or fail are not mixed with `--no-cache` builds, which rewrite outputs without
touching the index, nor with lost cache entries. Contents come back (an entry
of an older build could match again) only where every command runs to its end
and nobody edits a mapped file in place. With `{"nocache", "crash"}`,
`{"race", "crash"}`, `{"nocache", "revert"}`, `{"crash", "revert"}`,
`{"enospc", "revert"}` or `{"live", "revert"}` among `Envs` TLC finds `UpToDate`
violated.

`EditShown` is the main property of `nift serve`: an edit is in the end on the
screen of a tab that has the script and runs it. It leaves out the tab that was
served without the script (`plain`) and the polling page whose first poll comes
after the rebuild it missed (`Blind`: the baseline is the generation at the
first poll, not at the page's load). It also shows what the greeting is good
for: a rebuild between the load of a page and the registration of its sink is
made up for only by the reload on the greeting, so the endless reloading that
`reload_loop` shows cannot be mended by ignoring the greeting (that is the
mutant of `EditShown`); the greeting would have to carry the generation.

### Known divergences that have no run of their own

Each can be seen with one change of a configuration:

| change | violated | against |
|---|---|---|
| `MC_Build`, `Envs = {{"clean", "halfclean"}}` | `SkipNeedsOutput`: after an interrupted `clean` missing outputs are skipped | `architecture.md:128` |
| `MC_Build`, `Output = {a}`, `OutputOf <- OneOutput` | `OwnOutput`: sources with one filename share an output | `architecture.md:80` |
| `MC_Build`, `Envs = {{"crash", "revert"}}` | `NoPartialOutput`: a partial output survives an interruption when the edit is taken back | `test_signal_recovery.py:5` |
| `MC_Build`, `Envs = {{"silent"}}` | `FullDiskFails`, `IndexSound` and `IndexNeverTorn`: a full disk goes unnoticed for small pages and small indexes | `test_chaos.py:206` |
| `MC_Watch_paced`, `Paced = {}` | `RecordedIsPublished` and `EditPublished`: a second save in the same second is missed | `quickstart.md:59` |
| `MC_Native`, `DynamicTracking` as an invariant | a directory that is renamed and one that is removed and made again within a batch are added first and then removed: they end up unwatched; one moved out leaves the watches below it | ADR 0013:43 |
| `MC_Native`, `TablesInverse` as an invariant | a directory that is renamed while the walk is under way, or that is in one that was moved (`remove_watch()` does not descend), has one descriptor and two paths | - |
| `MC_Pool_live`, `Stopper = {main, other}` | `PendingTasksComplete`: `submit()` racing with `shutdown()` loses its task | `executor.hpp:34` |

Met while modelling and represented as the code has them:

* `@section` with `@endsection` but no brace is not a section
  (`template-inheritance.md:71` shows that form); an `@exit` inside a section
  loses the output before it (`ExitCutsOff` leaves sections out); `@continue`
  only goes on to the next child of its block; a `@while` ends silently after
  100000 rounds; an `@exit` in a function ends the program.
* `migrate` never looks at `nift.config`, and looks at the other places in
  another order than `load_or_default`: with files in several places the
  migrated configuration need not be the one that was in force. `MigrateKeeps`
  is therefore about projects in which both searches find the same file, and
  that have no `nift.json` yet: `migrate` overwrites one that is in force.
* `init` overwrites an existing `nift.json`; a sample page cut off by a crash is
  never completed.
* Tailwind's `stop()` before the thread has set `child_pid` waits for a child
  that nobody signals; `StopReturns` starts where the id was found.
* `serve` loads its configuration once.

### Bounds

* `MC_Pool`: two workers and three tasks let an owner and a thief meet at one
  deque, a deque hold two tasks, and a task be pushed behind a drained one;
  tasks are symmetric. The liveness run has two tasks. What the safety run
  says for this instance the theorems say for all.
* `MC_Build`: two sources and two threads give every pair of racing tasks;
  three contents give each of two builds something to do and an edit in
  between. Sources are symmetric where outputs are their own.
* `MC_Watch`: one watched and one ignored file, four seconds, three edits
  after the initial content: an edit during the initial build, the baseline, a
  scan and a rebuild.
* `MC_Serve`: one file, one tab, two addresses of sinks and two workers: the
  stream of the last page may still hold a worker when the next one connects,
  and an address can dangle and be used again. The clock allows two changes of
  the file after the baseline, each with its rebuild: the second change may
  come during the rebuild of the first, and the second push may meet a sink
  that the first page left behind. The third content is no page with a
  `</body>`. 547,000 states.
* `MC_Tailwind`: three children, so that a second `start()` meets what the
  first left, and the code's 20 rounds.
* `MC_Native`: two directories in the root that may have one in them each, an
  ignored one and a place outside; two operations after the tree at first (a
  directory with one in it), a queue of three and four watches: moved out and
  back under another name, moved within the tree, removed and made again under
  one batch, the queue overflowing. 459,000 states.
* `MC_Template`: 8,515 pairs; `WhileLimit` is 4 instead of 100000, above what
  the bodies need, so that the limit is not what ends a loop. Numbers are 0
  to 2.
* `MC_Config`: two v1 texts, two objects, two edits and three commands: a
  command killed, another killed, one that completes. 1.65 million states.
* `MC_Build` has 1.56 million states for its three environments.

Deadlock is not checked: all edits used up, an exited server and a destroyed
pool are legitimate ends.

### Fairness

`WorkStealingPool!Fairness`: weak fairness of each worker's loop, of each
`submit()` once it has passed its check, of joins and of `wait_idle()`'s poll:
the operating system schedules runnable threads, and each action is a critical
section that holds its lock for a bounded time. Nobody is obliged to submit,
to stop or to destroy. `FileWatcher!Fairness`: weak fairness of the builder,
the scan, `cmd_serve`'s start-up and the watcher thread; nothing obliges the
author, the clock or the server's end.

`DevServer!ServeFairness`: weak fairness of the program's threads (`Program`)
and of every handler. Strong fairness of a tab's `Answer`, a page served or a
stream accepted: cpp-httplib's queue is first in, first out, so a request is
not overtaken for ever although all workers may be taken again and again. The
script of a tab is no part of it, because a browser may suspend a background
tab for good: that the script keeps running is a hypothesis of `EditShown`,
tab by tab. `TailwindWatcher!FairSpec`: weak fairness of the thread and
of a `stop()` under way; nothing makes the child end except `SIGKILL`.
`NativeWatcher!FairSpec`: weak fairness of `start()`, of the walk, of the join
and of the thread; not of `Break`. `Config` and `TemplateLaws` have no liveness property.

## Proofs

Every invariant of every passing run, except those of `TemplateLaws`, is a
theorem for all values of the constants. The hypotheses that a theorem needs
beyond the modules' `ASSUME`s are the conditions under which the code is right;
the table of known divergences shows what happens without each of them.

| module | theorem | property | needs |
|---|---|---|---|
| `WorkStealingPool_proofs` | `TypeCorrect`, `CountCorrect`, `RunsOnceCorrect`, `WaitIdleCorrect`, `EarlyTasksCorrect`, `JoinedCorrect`, `InvariantCorrect` | the invariants of `pool_safety` | - |
| | `PendingCorrect` | `PendingTasksComplete` | `Stopper = {Owner}` |
| | `Refinement` | `ImplementsTaskPool` | - |
| `IncrementalBuild_proofs` | `TypeCorrect` | `TypeOK` | - |
| | `UpToDateCorrect`, `CachedCorrect`, `IndexCorrect` | `UpToDate`, `CachedIsFresh`, `IndexSound` | `Injective`, `Withstood` environments |
| | `SkipCorrect`, `NoPartialCorrect` | `SkipNeedsOutput`, `NoPartialOutput` | the same |
| | `SiteRefinement` | `ImplementsSiteBuild` | the same |
| | `QuietRefinement` | `Site!QuietSpec` | the same, without `crash`, `enospc`, `live`, `clean` |
| | `IndexReadable` | `IndexNeverTorn` | no `silent` |
| `FileWatcher_proofs` | `TypeCorrect` | `TypeOK` | - |
| | `PacedCorrect` | `PacedIsPublished`: `Recorded(f)` for every `f` in `Paced` | - |
| | `RecordedCorrect` | `RecordedIsPublished` | every file in `Paced` |
| | `BuildUse` | `UsesSiteBuild` | - |
| `DevServer_proofs` | `ImplementsWatcher` | `ServeSpec => Spec` of `FileWatcher` | - |
| | `WebRefinement` | `ImplementsLiveReload` | - |
| | `ServedIsPublished` | `RecordedIsPublished` | every file in `Paced` |
| | `ServeTypes`, `ReloadCorrect`, `CallbackCorrect` | `ServeTypeOK`, `NoLostReload`, `CallbackHasServer` | - |
| `TailwindWatcher_proofs` | `TypeCorrect`, `ChildCorrect`, `RunningCorrect`, `AbortCorrect` | `TypeOK`, `NoChildLeft`, `RunningIsWatched`, `AbortsOnlyUnasked` | - |
| | `SparesCorrect` | `SparesOthers` | - |
| `NativeWatcher_proofs` | `TypeCorrect`, `TablesCorrect`, `SyncCorrect` | `TypeOK`, `NoStrayWatch`, `InSync` | - |
| `Config_proofs` | `TypeCorrect`, `KeepsCorrect`, `CompletesCorrect` | `TypeOK`, `MigrateKeeps`, `Completes` | - |

Each invariant was checked with TLC before it was proved: a `_proofs` module
can be run with the configuration of its component and its `IInv` (`SInv` for
`DevServer`) as the only INVARIANT. `WorkStealingPool!IInv` is part of
`pool_safety`.

### The executor

For every number of workers `N > 0`, every finite set of tasks and every set of
stopping threads. Assumptions: `NAssumption` (the constructor replaces 0),
`TaskAssumption` (finitely many tasks, for the cardinality), `OwnerAssumption`,
`NullAssumption`.

None of the invariants is inductive by itself. `IInv` is the conjunction that
is: `Placement` (each task is in one place: one position of one deque, one
worker's hands, or done), `Accounted` (no accepted task is nowhere),
`Closing` (who may be where once `stop_` is set: in particular either
somebody is still joining or all workers have exited), `CountsInFlight`,
`EarlyPlaced` (a task pushed before the stop is in the deque of a worker that
has still to drain it, with a worker, or done) and `WaitIdleInv`. The proof
first establishes the types without the sign of `active`
(`Typing`), then describes the effect of each group of actions on the deques
and hands once (`SubmitPushEffect`, `TakesEffect`, `RunEffect`,
`DecrementEffect`, ...) and derives from these facts that each part of `IInv`
is preserved (`PlacementStep`, `AccountedStep`, `ClosingStep`, `CountStep`,
`EarlyStep`, `WaitIdleStep`). That `active` never goes below 0 follows from
`CountsInFlight`: the worker that decrements holds a task that is counted.

`PendingTasksComplete` needs `Stopper = {Owner}`, which is how the pipeline uses
the pool: only its destructor stops it. Then `stop_` is set when no `submit()`
is under way (`StopIsLast`), so every accepted task was pushed early or has
run.

### The incremental build

`Withstood(e)` says which environments the build withstands. `Benign(e)`: no
write is lost in silence and no content comes back; where a build may end early
(`crash`, `enospc`) outputs are rewritten only if their entries are out of date
(no `nocache`, no `race`); `clean` is not interrupted. `Orderly(e)`: contents
may come back, tasks may race and outputs may be cleaned, but every command
runs to its end, with the cache, and no mapped source is changed in place. The
three environments of the run are of these kinds, and the excluded pairs that
matter are in the table of divergences or below `UpToDate` above. `Injective`:
no two sources share an output.

The heart of `IInv` is `Sound`: an entry of `entries_`, of the CBOR or of the
JSON index is `Safe` (absent, or equal to the output, or different from the
source, so that the next build rewrites) except while its output is being
rewritten by a build that nothing can interrupt. `Guarded` is what an
environment with crashes needs in addition: an output is cut to nothing only
when all three entries are out of date, and the JSON index is never the only
right one, because `load()` prefers the CBOR file. `Hashed` (a source that
changed after it was hashed has a content that no entry knows), `Written` (what
each finished task left) and `Untouched` (without interference there is a task
for every source) then give `UpToDate` at the exit. `IndexReadable` needs only
that the file which is about to be renamed is whole (`NeverTorn`).

`Safe` speaks of the source as it is now and says nothing about the next time
its content comes back. An orderly environment has an invariant of its own,
`OInv`, whose heart is `Faithful`: an entry is absent or equals the output,
whatever the source holds. Such an entry can be broken only while its output is
rewritten, and the save that follows replaces it in both indexes, because
nothing ends the build before. `Inv` is the invariant of whichever kind was
chosen, and `Steady` what both say about a build under way.

`SiteRefinement` goes through the actions: a task's first step is
`Site!Publish` or, with `enospc`, `Site!Unread`; its other steps are hidden or
are a `Spoil` (`live`) or a `Fail` (`enospc`); the step that returns from
`cmd_build`, after the last rename, a failed save or no save at all, is
`Finish`; a crash is `Interrupt`. `Steady` supplies the two facts that are not
syntax: a task that the cache lets skip has its hashed content in the output,
and so has one that is done. `SiteStep` keeps which mishap needs which
environment, from which `QuietRefinement` follows. `SkipCorrect` and
`NoPartialCorrect` are claims of the documentation and of a test that the table
of divergences shows to fail elsewhere: here they are proved where they hold.

### The watcher and the dev server

`FileWatcher!IInv` adds to `PacedIsPublished` that recorded and seen mtimes
are never ahead of the file's and the clock (`InTime`) and that what the author
changed behind the baseline scan is newer than what the baseline holds
(`BaselineOlder`). Pacing makes every change of a file strictly newer than all
that was recorded of it (`TouchStep`), so that the guarantee is one per file and
does not depend on how the others are saved. `BuildUse` maps the first build and
each rebuild to a build of `SiteBuild`.

`ImplementsWatcher` shows that every step of `DevServer` is a step of
`FileWatcher` or leaves its variables alone, so that `RecordedIsPublished` holds
of `nift serve`. For the server's own properties `SInv` relates the two sides:
`ServerOutlives` (from `server.start()` to the return of `cmd_serve` the server
is not down), `ThreadJoined` (`cmd_serve` has returned only if the watcher's
thread has ended), `CallbackOnThread` (the callback runs within the thread's
rebuild) and `Greeted` (a tab with an open stream has a message it has not
read). `WebRefinement` needs one more fact, `BuildAnnounced`: a source that has
still to be built belongs to the first build, before the server starts, or to
a callback that has not yet called `notify_rebuild()`. `TabAssumption` says only
that the marker of a closed connection is not a tab.

### The Tailwind watcher

`ChildIsWatched`: a child that was not waited for is the last one forked and a
thread is there to wait for it; `AtWork`: outside `stop()` a thread is at work
only while `running` is set; `LeftUnasked`: a joinable thread that nobody stops
has ended by itself. `PidKnown` (where `child_pid` is the child's, and where it
is -1) gives `SparesOthers`: as long as the child was not waited for, `stop()`
signals nobody else. The stray signals, that of `tailwind_kill` among them, all
come after `waitpid()`.

### The native watcher

For every tree of directories, every number of operations on it, and all limits
of the kernel. `NoStrayWatch` is inductive with `Fresh` (nothing refers to a
descriptor that was not given out) and `Kernel` (a directory has one watch).

`SyncCorrect` rests on `Right`, which says three things of every path of the
root that is not `unsure`. `Known`: what the tables hold of it is its own and
the kernel agrees; if the directory has gone, its removal is in hand or
queued. `Found`: a directory that is there is watched under no other path, and
nothing in hand or queued will take its watch away. `Due`: one that is there
without a watch will be visited or listed, or its event is queued, or the
directory above it has no watch either. They are inductive because `unsure` is
closed downwards (`Closed`): a move upsets whole subtrees, at both ends, and
what is beside them cannot lose a descriptor to them. `Disk`, `Phases` and
`Inside` are the facts about the tree, the threads and the root that this
needs. When the watcher is idle, `Due` leaves only its last case: a directory
without a watch is in one without a watch. The one with the shortest path would
have to be the root, which was visited at the start (`NoneMissing`, from the
well-foundedness of the naturals).

### The configuration

`InForce`: as long as the author changes nothing, what was in force is what the
v1 files say, a `nift.json` that parses says the same, and a migration that has
not written yet holds it (`SameSource`, `RoundTrip`). `Translated` carries the
translated configuration from the start of a migration to its end. That the
translation has every field needs the last line that sets one (`LastLine`, from
the well-foundedness of the naturals).

### Only model-checked

* Liveness, outside the prover's reach: `WaitIdleReturns`, `QueuedTaskRuns`,
  `ShutdownReturns`, `EditPublished`, `EditShown`, `ServeReturns`, `Reported` and
  the two `StopReturns`.
* `RoundTrip`, `Laws` and `ExitCutsOff` of `TemplateLaws`: the template engine
  is recursive, and facts about it for all inputs need induction over trees.
* The violations: each is a trace of a small instance.

## Not modelled, and the plan

Nearly all lines of the repository are `legacy/`: the snapshot of the old
program with its vendored LuaJIT, exprtk and rapidjson, which no build of v2
uses. nift v2's own code is a small fraction, and the modules cover the part of
it that keeps state or runs concurrently. Not modelled, and why:

* expressions and Lua: floating-point arithmetic on text, and calls of sol2;
* the SIMD scanner: a pure function whose cases are vector lanes;
* the plugin loader: `dlopen` and a map, used by one thread, by no command yet;
* asset pipeline, minifiers, image optimizer, Markdown and highlighter: text or
  pixels in, text or pixels out, in external libraries for the most part;
* `poll_once()`, which only tests call; the kqueue and Windows watchers;
* the resolution of a URL to a file, argument parsing, the one-shot Tailwind
  compile, string, path and time helpers: no state.

Worth doing next: a rebuild that fails under the watcher, through the whole of
`SiteBuild!Spec` in place of `QuietSpec`; and a `nift clean` that died would be harmless if the next one completes, which
`Benign` excludes as a whole.
