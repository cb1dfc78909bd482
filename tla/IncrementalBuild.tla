-------------------------- MODULE IncrementalBuild --------------------------
(***************************************************************************)
(* `nift build` and `nift clean` over one project directory: cmd_build     *)
(* (crates/cli) loads the BuildCache, hands every source to the Pipeline,  *)
(* whose tasks run on the WorkStealingPool, and saves the cache.  The      *)
(* process may die between any two steps; the disk survives it.            *)
(*                                                                         *)
(* A content is a number and stands for its BLAKE3 hash as well.  The k-th *)
(* edit gives its source the content k, so a content comes back only by    *)
(* the environment's "revert".                                             *)
(***************************************************************************)
EXTENDS Integers, FiniteSets

CONSTANTS
  Source,      \* the files content_dir may hold
  Output,      \* the files output_dir may hold
  OutputOf,    \* OutputOf[s]: output_dir / filename of s
  Threads,     \* number of pool workers
  MaxContent,  \* bound: number of distinct contents
  Envs         \* the environments: sets of EnvEvent

EnvEvent ==
  {"crash",    \* a build dies: a signal, an uncaught exception
   "enospc",   \* an open, a write or a rename fails and says so
   "silent",   \* the bytes fail in the ofstream's destructor: nobody is told
   "live",     \* a source is edited in place while it is mapped
   "race",     \* racing accesses to entries_ go wrong
   "revert",   \* an edit restores an earlier content
   "nocache",  \* nift build --no-cache
   "clean",    \* nift clean
   "halfclean"}  \* it may die between its two removals

ASSUME OutputAssumption == OutputOf \in [Source -> Output]
ASSUME ThreadsAssumption == Threads \in Nat \ {0}
ASSUME MaxContentAssumption == MaxContent \in Nat
ASSUME EnvAssumption == Envs \subseteq SUBSET EnvEvent

Absent == 0     \* no such file, no such entry
Torn   == -1    \* bytes that are no content: empty, truncated or mixed

Content == 1 .. MaxContent
Entries == [Source -> {Absent} \cup Content]
Format  == {"cbor", "json"}

NoEntries == [s \in Source |-> Absent]

\* An index file; "torn" does not parse.
File  == [state : {"none", "torn", "whole"}, of : Entries]
NoFile   == [state |-> "none", of |-> NoEntries]
TornFile == [state |-> "torn", of |-> NoEntries]
Whole(e) == [state |-> "whole", of |-> e]

VARIABLES
  env,       \* what the environment may do, chosen once
  src,       \* src[s]: content of the source, or Absent
  last,      \* the last content given to an edit
  out,       \* out[o]: content of the output, Absent or Torn
  index,     \* index[f]: index.json.cbor and index.json
  tmp,       \* tmp[f]: the .tmp file each is renamed from
  phase,     \* where the process is
  fmt,       \* the format save() is writing
  useCache,  \* --no-cache was not given
  entries,   \* BuildCache::entries_, content_hash by source
  tpc,       \* tpc[s]: where build_one(s) is, or its FileStatus
  seen,      \* seen[s]: content_hash, computed by build_one(s)
  rc,        \* exit status of the last build, "none" if there was none
  touched    \* history: a file was changed behind the last build's back

disk == <<src, last, out, index, tmp>>
proc == <<phase, fmt, useCache, entries, tpc, seen, rc>>
vars == <<env, disk, proc, touched>>

Phase  == {"idle", "tasks", "trunc", "write", "rename", "clean"}
Ended  == {"off", "built", "cached", "failed"}
TaskPC == Ended \cup {"queued", "lookup", "open", "copy", "put"}

Running == {s \in Source : tpc[s] \notin Ended \cup {"queued"}}

\* The tasks s and u are both about to use the unsynchronised entries_, one
\* of them to write.
Conflict(s, u) ==
  /\ s # u
  /\ tpc[s] \in {"lookup", "put"} /\ tpc[u] \in {"lookup", "put"}
  /\ "put" \in {tpc[s], tpc[u]}

\* The access of s may go wrong: undefined behaviour.
Racing(s) == "race" \in env /\ \E u \in Source : Conflict(s, u)
-----------------------------------------------------------------------------
Init ==
  /\ env \in Envs
  /\ src = [s \in Source |-> Absent]
  /\ last = 0
  /\ out = [o \in Output |-> Absent]
  /\ index = [f \in Format |-> NoFile]
  /\ tmp = [f \in Format |-> NoFile]
  /\ phase = "idle"
  /\ fmt = "cbor"
  /\ useCache = TRUE
  /\ entries = NoEntries
  /\ tpc = [s \in Source |-> "off"]
  /\ seen = NoEntries
  /\ rc = "none"
  /\ touched = FALSE
-----------------------------------------------------------------------------
(* The author                                                              *)

Edit(s) ==
  /\ \E c \in Content \ {src[s]} :
       /\ c = last + 1 \/ (c <= last /\ "revert" \in env)
       /\ src' = [src EXCEPT ![s] = c]
       /\ last' = IF c > last THEN c ELSE last
  /\ touched' = TRUE
  /\ UNCHANGED <<out, index, tmp, proc>>

Delete(s) ==
  /\ src[s] # Absent
  /\ src' = [src EXCEPT ![s] = Absent]
  /\ touched' = TRUE
  /\ UNCHANGED <<last, out, index, tmp, proc>>
-----------------------------------------------------------------------------
(* cmd_build: load the cache, find the sources, submit a task for each     *)

\* BuildCache::load(): the CBOR index if it parses, else the JSON index if
\* that parses, else nothing; cmd_build ignores an error.
Loaded ==
  IF index["cbor"].state = "whole" THEN index["cbor"].of
  ELSE IF index["json"].state = "whole" THEN index["json"].of
  ELSE NoEntries

\* Without sources cmd_build returns 0 at once and saves nothing.
BuildStart ==
  /\ phase = "idle"
  /\ useCache' \in {TRUE} \cup (IF "nocache" \in env THEN {FALSE} ELSE {})
  /\ tpc' = [s \in Source |-> IF src[s] = Absent THEN "off" ELSE "queued"]
  /\ \/ /\ \E s \in Source : src[s] # Absent
        /\ phase' = "tasks"
        /\ entries' = IF useCache' THEN Loaded ELSE NoEntries
        /\ rc' = "none"
     \/ /\ \A s \in Source : src[s] = Absent
        /\ rc' = "ok"
        /\ UNCHANGED <<phase, entries>>
  /\ touched' = FALSE
  /\ UNCHANGED <<disk, fmt, seen>>
-----------------------------------------------------------------------------
(* Pipeline::build_one, run by a worker of the pool                        *)

\* MmapReader::open and hash_content.
TaskOpen(s) ==
  /\ tpc[s] = "queued"
  /\ Cardinality(Running) < Threads
  /\ \/ /\ src[s] = Absent \/ "enospc" \in env
        /\ tpc' = [tpc EXCEPT ![s] = "failed"]
        /\ UNCHANGED seen
     \/ /\ src[s] # Absent
        /\ seen' = [seen EXCEPT ![s] = src[s]]
        /\ tpc' = [tpc EXCEPT ![s] = IF useCache THEN "lookup" ELSE "open"]
  /\ UNCHANGED <<disk, phase, fmt, useCache, entries, rc, touched>>

\* BuildCache::is_dirty; a lookup that races with a put may miss its entry.
TaskLookup(s) ==
  /\ tpc[s] = "lookup"
  /\ \/ /\ entries[s] = seen[s]
        /\ tpc' = [tpc EXCEPT ![s] = "cached"]
     \/ /\ entries[s] # seen[s] \/ Racing(s)
        /\ tpc' = [tpc EXCEPT ![s] = "open"]
  /\ UNCHANGED <<disk, phase, fmt, useCache, entries, seen, rc, touched>>

\* write_file: open the output, which truncates it.
TaskTruncate(s) ==
  /\ tpc[s] = "open"
  /\ \/ /\ out' = [out EXCEPT ![OutputOf[s]] = Torn]
        /\ tpc' = [tpc EXCEPT ![s] = "copy"]
     \/ /\ "enospc" \in env
        /\ tpc' = [tpc EXCEPT ![s] = "failed"]
        /\ UNCHANGED out
  /\ UNCHANGED <<src, last, index, tmp, phase, fmt, useCache, entries, seen, rc, touched>>

\* What the copy leaves in the output: the bytes that were hashed, unless the
\* mapped source has been edited in place since, or another task is writing
\* the same file.
Copied(s) ==
  {seen[s]}
  \cup (IF "live" \in env /\ src[s] \notin {seen[s], Absent} THEN {src[s], Torn} ELSE {})
  \cup (IF \E u \in Source \ {s} : OutputOf[u] = OutputOf[s] /\ tpc[u] = "copy"
        THEN {Torn} ELSE {})

\* Mutant: the result of write_file is ignored.
TaskCopyUnchecked(s) ==
  /\ tpc[s] = "copy"
  /\ \E c \in Copied(s) \cup (IF "enospc" \in env THEN {Torn} ELSE {}) :
       out' = [out EXCEPT ![OutputOf[s]] = c]
  /\ tpc' = [tpc EXCEPT ![s] = IF useCache THEN "put" ELSE "built"]
  /\ UNCHANGED <<src, last, index, tmp, phase, fmt, useCache, entries, seen, rc, touched>>

\* write_file: the bytes, then the ofstream's destructor.
TaskCopy(s) ==
  /\ tpc[s] = "copy"
  /\ \/ /\ \E c \in Copied(s) \cup (IF "silent" \in env THEN {Torn} ELSE {}) :
             out' = [out EXCEPT ![OutputOf[s]] = c]
        /\ tpc' = [tpc EXCEPT ![s] = IF useCache THEN "put" ELSE "built"]
     \/ /\ "enospc" \in env
        /\ out' = [out EXCEPT ![OutputOf[s]] = Torn]
        /\ tpc' = [tpc EXCEPT ![s] = "failed"]
  /\ UNCHANGED <<src, last, index, tmp, phase, fmt, useCache, entries, seen, rc, touched>>

\* Mutant: the entry holds the hash of what is in the output.
TaskPutOutput(s) ==
  /\ tpc[s] = "put"
  /\ entries' = [entries EXCEPT ![s] = out[OutputOf[s]]]
  /\ tpc' = [tpc EXCEPT ![s] = "built"]
  /\ UNCHANGED <<disk, phase, fmt, useCache, seen, rc, touched>>

\* BuildCache::put; a put that races may lose entries, its own included.
TaskPut(s) ==
  /\ tpc[s] = "put"
  /\ \E lost \in IF Racing(s) THEN SUBSET Source ELSE {{}} :
       entries' = [u \in Source |-> IF u \in lost THEN Absent
                                    ELSE IF u = s THEN seen[s] ELSE entries[u]]
  /\ tpc' = [tpc EXCEPT ![s] = "built"]
  /\ UNCHANGED <<disk, phase, fmt, useCache, seen, rc, touched>>

build_one(s) ==
  TaskOpen(s) \/ TaskLookup(s) \/ TaskTruncate(s) \/ TaskCopy(s) \/ TaskPut(s)
-----------------------------------------------------------------------------
(* The end of cmd_build: collect the results, save the cache, return       *)

\* The process is gone and leaves only its exit status and its report.
Exit(status) ==
  /\ phase' = "idle"
  /\ fmt' = "cbor"
  /\ useCache' = TRUE
  /\ entries' = NoEntries
  /\ seen' = NoEntries
  /\ rc' = status

Return == Exit(IF \E s \in Source : tpc[s] = "failed" THEN "failed" ELSE "ok")

\* The process goes on with the next step of the save.
Continue(next, f) ==
  /\ phase' = next
  /\ fmt' = f
  /\ UNCHANGED <<useCache, entries, seen, rc>>

\* Pipeline::build has all futures.
Collect ==
  /\ phase = "tasks"
  /\ \A s \in Source : tpc[s] \in Ended
  /\ \/ useCache /\ Continue("trunc", "cbor")
     \/ ~useCache /\ Return
  /\ UNCHANGED <<disk, tpc, touched>>

\* Mutant: save() opens the index itself and not its .tmp file.
SaveInPlace ==
  /\ phase = "trunc"
  /\ index' = [index EXCEPT ![fmt] = TornFile]
  /\ Continue("write", fmt)
  /\ UNCHANGED <<src, last, out, tmp, tpc, touched>>

\* save(): open the .tmp file of the format at hand.  An error ends save(),
\* and cmd_build ignores it.
SaveTruncate ==
  /\ phase = "trunc"
  /\ \/ /\ tmp' = [tmp EXCEPT ![fmt] = TornFile]
        /\ Continue("write", fmt)
     \/ /\ "enospc" \in env
        /\ Return
        /\ UNCHANGED tmp
  /\ UNCHANGED <<src, last, out, index, tpc, touched>>

SaveWrite ==
  /\ phase = "write"
  /\ \/ /\ \E file \in {Whole(entries)} \cup (IF "silent" \in env THEN {TornFile} ELSE {}) :
             tmp' = [tmp EXCEPT ![fmt] = file]
        /\ Continue("rename", fmt)
     \/ /\ "enospc" \in env
        /\ Return
        /\ UNCHANGED tmp
  /\ UNCHANGED <<src, last, out, index, tpc, touched>>

\* The atomic rename; JSON follows CBOR.  A .tmp file that could not be renamed
\* stays, and ends save().
SaveRename ==
  /\ phase = "rename"
  /\ \/ /\ index' = [index EXCEPT ![fmt] = tmp[fmt]]
        /\ tmp' = [tmp EXCEPT ![fmt] = NoFile]
        /\ \/ fmt = "cbor" /\ Continue("trunc", "json")
           \/ fmt = "json" /\ Return
     \/ /\ "enospc" \in env
        /\ Return
        /\ UNCHANGED <<index, tmp>>
  /\ UNCHANGED <<src, last, out, tpc, touched>>
-----------------------------------------------------------------------------
(* cmd_clean: remove the outputs, then the cache                           *)

CleanOutput ==
  /\ "clean" \in env
  /\ phase = "idle"
  /\ out' = [o \in Output |-> Absent]
  /\ phase' = "clean"
  /\ rc' = "none"
  /\ tpc' = [s \in Source |-> "off"]
  /\ UNCHANGED <<src, last, index, tmp, fmt, useCache, entries, seen, touched>>

CleanCache ==
  /\ phase = "clean"
  /\ index' = [f \in Format |-> NoFile]
  /\ tmp' = [f \in Format |-> NoFile]
  /\ phase' = "idle"
  /\ UNCHANGED <<src, last, out, fmt, useCache, entries, tpc, seen, rc, touched>>

\* The process dies where it is.
Crash ==
  /\ phase # "idle"
  /\ (IF phase = "clean" THEN "halfclean" ELSE "crash") \in env
  /\ Exit("none")
  /\ tpc' = [s \in Source |-> "off"]
  /\ UNCHANGED <<disk, touched>>
-----------------------------------------------------------------------------
cmd_build ==
  \/ BuildStart \/ (\E s \in Source : build_one(s)) \/ Collect
  \/ SaveTruncate \/ SaveWrite \/ SaveRename

cmd_clean == CleanOutput \/ CleanCache

Author == \E s \in Source : Edit(s) \/ Delete(s)

Next == (cmd_build \/ cmd_clean \/ Crash \/ Author) /\ UNCHANGED env

Spec == Init /\ [][Next]_vars
-----------------------------------------------------------------------------
(* Properties                                                              *)

\* Types of the variables.
TypeOK ==
  /\ env \in Envs
  /\ src \in Entries
  /\ last \in 0 .. MaxContent
  /\ out \in [Output -> {Absent, Torn} \cup Content]
  /\ index \in [Format -> File]
  /\ tmp \in [Format -> File]
  /\ phase \in Phase
  /\ fmt \in Format
  /\ useCache \in BOOLEAN
  /\ entries \in Entries
  /\ tpc \in [Source -> TaskPC]
  /\ seen \in Entries
  /\ rc \in {"none", "ok", "failed"}
  /\ touched \in BOOLEAN

\* The main promise of the incremental build: a build that exits with 0, and
\* behind whose back no file was changed, leaves in the output of every source
\* the content of that source, whatever earlier builds were interrupted or
\* failed and whatever the cache on disk said.
UpToDate ==
  rc = "ok" /\ ~touched => \A s \in Source : src[s] # Absent => out[OutputOf[s]] = src[s]

\* A source reported as Cached has its hashed content in its output.
CachedIsFresh ==
  phase = "tasks" => \A s \in Source : tpc[s] = "cached" => out[OutputOf[s]] = seen[s]

\* A crash or a failed write leaves index.json.cbor and index.json readable:
\* they change by rename only, from a .tmp file that was written to its end.
IndexNeverTorn == \A f \in Format : index[f].state # "torn"

\* The entries e may be trusted: the entry of a source that has not changed
\* since stands for an output that holds its content.
Trusted(e) == \A s \in Source : e[s] \in {Absent, out[OutputOf[s]]} \/ e[s] # src[s]

\* architecture.md:160 "The `BuildCache` is single-threaded (mutated only
\* between scheduling rounds)": no two tasks use it at the same time when one
\* of them writes.
CacheSingleThreaded == \A s, u \in Source : ~Conflict(s, u)

\* architecture.md:128 "If both match and the output exists, skip": a source
\* is skipped only if its output exists.
SkipNeedsOutput ==
  ~touched => \A s \in Source : tpc[s] = "cached" => out[OutputOf[s]] # Absent

\* architecture.md:80 "Write output to public/<rel-path>": two sources that
\* are not the same file do not share an output, so that at the end of a build
\* each output holds the content of its source.
OwnOutput ==
  rc = "ok" /\ ~touched =>
    \A s \in Source : tpc[s] = "built" => out[OutputOf[s]] = src[s]

\* test_signal_recovery.py:5 "no partial output files survive" an interrupted
\* build and the build after it.
NoPartialOutput ==
  rc = "ok" /\ ~touched => \A s \in Source : src[s] # Absent => out[OutputOf[s]] # Torn

\* test_chaos.py:206 "Build must fail" when the disk is full: a build that
\* exits with 0 has written what it reports as Built.
FullDiskFails ==
  rc = "ok" => \A s \in Source : tpc[s] = "built" => out[OutputOf[s]] # Torn

\* Whatever index the next build finds, after a build, a clean or a crash, can
\* be trusted, the JSON index that it falls back to, which may be one build
\* older than the CBOR one, included.
IndexSound == phase = "idle" => \A f \in Format : Trusted(index[f].of)
-----------------------------------------------------------------------------
(* Refinement                                                              *)

\* What a caller may count as published of s: what its task has hashed, from
\* then on, and else what is in its output.
published(s) ==
  IF tpc[s] \in {"lookup", "open", "copy", "put"} THEN seen[s] ELSE out[OutputOf[s]]

view == [s \in Source |-> published(s)]
queued == {s \in Source : tpc[s] = "queued"}
busy == phase \in {"tasks", "trunc", "write", "rename"}
amiss == IF busy THEN \E s \in Source : tpc[s] = "failed" ELSE rc # "ok"

Site == INSTANCE SiteBuild
  WITH Bytes <- {Absent, Torn} \cup Content,
       site <- view, todo <- queued, building <- busy, failed <- amiss

\* The builds, with cache and crashes, implement the abstract build: whatever
\* the index says, each source is published as it was opened, and is spoilt
\* only by an edit in place, a reported failure or the end of the process.
ImplementsSiteBuild == Site!Spec
=============================================================================
