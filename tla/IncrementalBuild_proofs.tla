---------------------- MODULE IncrementalBuild_proofs ----------------------
(***************************************************************************)
(* Theorems about IncrementalBuild for any set of sources, any number of   *)
(* threads and contents, and every environment that the code withstands.   *)
(***************************************************************************)
EXTENDS IncrementalBuild, TLAPS

-----------------------------------------------------------------------------
(* The hypotheses                                                          *)

\* A write may fail, or the process die, so that a build may leave an output
\* torn without a new index.
Precious(e) == {"crash", "enospc"} \cap e # {}

\* What the incremental build withstands: no write is lost in silence, no
\* content comes back; a build that rewrites an output whose entry is right
\* (--no-cache, a lookup that missed) neither dies nor fails; nift clean does
\* not die between its two removals.
Benign(e) ==
  /\ "silent" \notin e /\ "revert" \notin e
  /\ Precious(e) => "nocache" \notin e /\ "race" \notin e
  /\ "halfclean" \notin e

\* Where contents may come back, by an undo or a checkout, it withstands less:
\* every command must run to its end, and a mapped source be left alone.
Orderly(e) == e \subseteq {"revert", "race", "clean"}

Withstood(e) == Benign(e) \/ Orderly(e)

\* No two sources share an output.
Injective == \A s, u \in Source : OutputOf[s] = OutputOf[u] => s = u
-----------------------------------------------------------------------------
(* The inductive invariant                                                 *)

Saving   == {"trunc", "write", "rename"}
Building == {"tasks"} \cup Saving
Opened   == {"lookup", "open", "copy", "put", "built", "cached"}

\* An entry c of s that the next build may believe.
Safe(c, s) == c = Absent \/ c = out[OutputOf[s]] \/ c # src[s]

\* An entry c of s that no build will believe as long as s is what it is.
Outdated(c, s) == c = Absent \/ c # src[s]

\* Every content that is stored anywhere was made by an earlier edit.
Bounded ==
  \A s \in Source :
    /\ src[s] <= last /\ entries[s] <= last /\ seen[s] <= last
    /\ \A f \in Format : index[f].of[s] <= last

\* Files that do not parse have no entries; a .tmp file is renamed only when
\* it is whole; the JSON index is written after the CBOR one.
Files ==
  /\ \A f \in Format : index[f].state # "torn"
  /\ \A f \in Format : index[f].state # "whole" => index[f].of = NoEntries
  /\ phase = "rename" => tmp[fmt] = Whole(entries)
  /\ phase \in Saving /\ fmt = "json" => index["cbor"] = Whole(entries)

\* Which tasks there may be in each phase.
Phases ==
  /\ phase # "tasks" => \A s \in Source : tpc[s] \in Ended
  /\ phase # "idle" => rc = "none"
  /\ phase = "clean" => "clean" \in env
  /\ ~useCache => "nocache" \in env

\* What a task knows of its source: if the source is not what was hashed, it
\* has a content that no entry has.
Hashed ==
  phase \in Building => \A s \in Source : tpc[s] \in Opened =>
    /\ seen[s] # Absent
    /\ \/ src[s] \in {Absent, seen[s]}
       \/ src[s] # entries[s] /\ \A f \in Format : src[s] # index[f].of[s]

\* The entries can be believed but for those of outputs that are being
\* rewritten although their entry may be right.
Sound ==
  \A s \in Source :
    /\ phase # "clean" =>
         \A f \in Format : \/ Safe(index[f].of[s], s)
                           \/ tpc[s] \in {"open", "copy"} /\ ~Precious(env)
    /\ phase \in Building => \/ Safe(entries[s], s)
                             \/ tpc[s] \in {"open", "copy"} /\ ~Precious(env)

\* Where a build may end early, it rewrites an output only if no entry on disk
\* or in memory is right, and the two index files agree on what is right.
Guarded ==
  Precious(env) => \A s \in Source :
    /\ phase \in Building /\ tpc[s] \in {"open", "copy", "put"} =>
         /\ tpc[s] # "put" => Outdated(entries[s], s)
         /\ \A f \in Format : Outdated(index[f].of[s], s)
    /\ phase \in Building =>
         \A f \in Format : Outdated(index[f].of[s], s) \/ entries[s] = src[s]
    /\ Outdated(index["json"].of[s], s) \/ index["cbor"].of[s] = src[s]

\* What the tasks have left in the outputs.
Written ==
  phase \in Building => \A s \in Source :
    /\ tpc[s] = "lookup" /\ entries[s] = seen[s] => out[OutputOf[s]] = seen[s]
    /\ tpc[s] = "cached" => out[OutputOf[s]] = seen[s]
    /\ tpc[s] \in {"put", "built"} =>
         out[OutputOf[s]] = seen[s] \/ (src[s] # seen[s] /\ "live" \in env)

\* Without interference a build has a task for every source, and the task has
\* hashed what is there.
Untouched ==
  phase \in Building /\ ~touched => \A s \in Source :
    /\ tpc[s] = "off" <=> src[s] = Absent
    /\ tpc[s] \in Opened => seen[s] = src[s]

IInv ==
  /\ TypeOK /\ Bounded /\ Files /\ Phases /\ Hashed /\ Sound /\ Guarded /\ Written
  /\ Untouched /\ UpToDate
-----------------------------------------------------------------------------
(* Types                                                                   *)

\* The parts of an index file.
LEMMA FileTypes ==
  /\ NoEntries \in Entries
  /\ NoFile \in File /\ TornFile \in File
  /\ \A e \in Entries : Whole(e) \in File
  /\ \A x \in File : x.of \in Entries /\ x.state \in {"none", "torn", "whole"}
BY DEF NoEntries, Entries, NoFile, TornFile, Whole, File

\* What BuildCache::load() returns is a set of entries.
LEMMA LoadedType == TypeOK => Loaded \in Entries
BY FileTypes DEF TypeOK, Loaded, Format

\* Every step keeps the types.
LEMMA TypeStep == TypeOK /\ [Next]_vars => TypeOK'
<1> SUFFICES ASSUME TypeOK, [Next]_vars PROVE TypeOK'
  OBVIOUS
<1> USE OutputAssumption, MaxContentAssumption
<1>1. ASSUME NEW s \in Source, Edit(s), env' = env PROVE TypeOK'
  BY <1>1 DEF Edit, TypeOK, proc, Entries, Content
<1>2. ASSUME NEW s \in Source, Delete(s), env' = env PROVE TypeOK'
  BY <1>2 DEF Delete, TypeOK, proc, Entries
<1>3. ASSUME BuildStart, env' = env PROVE TypeOK'
  BY <1>3, LoadedType, FileTypes DEF BuildStart, TypeOK, disk, TaskPC, Ended, Phase
<1>4. ASSUME NEW s \in Source, TaskOpen(s), env' = env PROVE TypeOK'
  BY <1>4 DEF TaskOpen, TypeOK, disk, TaskPC, Ended, Entries
<1>5. ASSUME NEW s \in Source, TaskLookup(s), env' = env PROVE TypeOK'
  BY <1>5 DEF TaskLookup, TypeOK, disk, TaskPC, Ended
<1>6. ASSUME NEW s \in Source, TaskTruncate(s), env' = env PROVE TypeOK'
  BY <1>6 DEF TaskTruncate, TypeOK, TaskPC, Ended
<1>7. ASSUME NEW s \in Source, TaskCopy(s), env' = env PROVE TypeOK'
  <2>1. Copied(s) \subseteq {Absent, Torn} \cup Content
    BY DEF Copied, TypeOK, Entries
  <2>2. out' \in [Output -> {Absent, Torn} \cup Content]
    BY <1>7, <2>1 DEF TaskCopy, TypeOK
  <2> QED BY <1>7, <2>2 DEF TaskCopy, TypeOK, TaskPC, Ended
<1>8. ASSUME NEW s \in Source, TaskPut(s), env' = env PROVE TypeOK'
  BY <1>8 DEF TaskPut, TypeOK, disk, TaskPC, Ended, Entries
<1>9. ASSUME Collect, env' = env PROVE TypeOK'
  BY <1>9, FileTypes DEF Collect, Continue, Return, Exit, TypeOK, disk, Phase, Format
<1>10. ASSUME SaveTruncate, env' = env PROVE TypeOK'
  BY <1>10, FileTypes DEF SaveTruncate, Continue, Return, Exit, TypeOK, Phase, Format
<1>11. ASSUME SaveWrite, env' = env PROVE TypeOK'
  BY <1>11, FileTypes, ZenonT(30) DEF SaveWrite, Continue, Return, Exit, TypeOK, Phase, Format
<1>12. ASSUME SaveRename, env' = env PROVE TypeOK'
  BY <1>12, FileTypes DEF SaveRename, Continue, Return, Exit, TypeOK, Phase, Format
<1>13. ASSUME CleanOutput, env' = env PROVE TypeOK'
  BY <1>13 DEF CleanOutput, TypeOK, Phase, TaskPC, Ended
<1>14. ASSUME CleanCache, env' = env PROVE TypeOK'
  BY <1>14, FileTypes DEF CleanCache, TypeOK, Phase
<1>15. ASSUME Crash, env' = env PROVE TypeOK'
  BY <1>15, FileTypes DEF Crash, Exit, TypeOK, disk, Phase, Format, TaskPC, Ended
<1>16. CASE UNCHANGED vars
  BY <1>16 DEF vars, disk, proc, TypeOK
<1> QED
  BY <1>1, <1>2, <1>3, <1>4, <1>5, <1>6, <1>7, <1>8, <1>9, <1>10, <1>11, <1>12, <1>13,
     <1>14, <1>15, <1>16 DEF Next, cmd_build, cmd_clean, Author, build_one

\* The types hold at the start.
LEMMA InitTypeOK == Init => TypeOK
<1> SUFFICES ASSUME Init PROVE TypeOK
  OBVIOUS
<1>1. src \in Entries /\ index \in [Format -> File] /\ tmp \in [Format -> File]
  BY FileTypes DEF Init, NoEntries
<1>2. last \in 0 .. MaxContent /\ tpc \in [Source -> TaskPC]
  BY MaxContentAssumption DEF Init, TaskPC, Ended
<1> QED BY <1>1, <1>2, FileTypes DEF Init, TypeOK, Phase, Format

\* The variables of cmd_build, its tasks and the disk keep their types in every
\* environment, with shared outputs too.
THEOREM TypeCorrect == Spec => []TypeOK
BY InitTypeOK, TypeStep, PTL DEF Spec
-----------------------------------------------------------------------------
(* Invariance                                                              *)

\* Contents are numbers.
LEMMA Contents ==
  ASSUME TypeOK
  PROVE  /\ last \in Nat
         /\ \A s \in Source : /\ OutputOf[s] \in Output
                              /\ src[s] \in Nat /\ entries[s] \in Nat /\ seen[s] \in Nat
                              /\ \A f \in Format : index[f].of[s] \in Nat
BY OutputAssumption, MaxContentAssumption, FileTypes DEF TypeOK, Entries, Content, Absent

\* Where an entry that BuildCache::load() returns comes from.
LEMMA LoadedFrom ==
  ASSUME Files, NEW s \in Source
  PROVE  \/ Loaded[s] = index["cbor"].of[s]
         \/ index["cbor"].of[s] = Absent /\ Loaded[s] = index["json"].of[s]
BY DEF Files, Loaded, NoEntries, Format

\* Tasks run in one phase only.
LEMMA TaskPhase ==
  ASSUME Phases, NEW s \in Source, tpc[s] \notin Ended
  PROVE  phase = "tasks" /\ rc = "none"
BY DEF Phases

\* A build that ends with 0 and was left alone has brought every output up to
\* date.
LEMMA ReturnUpToDate ==
  ASSUME TypeOK, Written, Untouched, phase \in Building, Return,
         \A s \in Source : tpc[s] \in Ended, UNCHANGED <<src, out, tpc, touched>>
  PROVE  UpToDate'
<1> SUFFICES ASSUME rc' = "ok", ~touched, NEW s \in Source, src[s] # Absent
             PROVE  out[OutputOf[s]] = src[s]
  BY DEF UpToDate
<1>1. tpc[s] \in {"built", "cached"}
  BY DEF Return, Exit, Untouched, Ended
<1> QED BY <1>1 DEF Written, Untouched, Opened

\* An edit gives the source a content that no entry knows.
LEMMA EditStep ==
  ASSUME IInv, Benign(env), Injective, NEW s \in Source, Edit(s),
         UNCHANGED env, TypeOK'
  PROVE  IInv'
<1> USE DEF IInv, Absent
<1>a. /\ src' = [src EXCEPT ![s] = last + 1] /\ last' = last + 1
      /\ UNCHANGED <<out, index, tmp, phase, fmt, useCache, entries, tpc, seen, rc>>
  <2>1. PICK c \in Content : /\ c = last + 1 \/ (c <= last /\ "revert" \in env)
                             /\ src' = [src EXCEPT ![s] = c]
                             /\ last' = IF c > last THEN c ELSE last
    BY DEF Edit
  <2>2. c = last + 1 /\ last \in Nat
    BY <2>1, Contents DEF Benign
  <2>3. last' = last + 1 /\ src' = [src EXCEPT ![s] = last + 1]
    BY <2>1, <2>2
  <2>4. UNCHANGED <<out, index, tmp, phase, fmt, useCache, entries, tpc, seen, rc>>
    BY DEF Edit, proc
  <2> QED BY <2>3, <2>4
<1>b. src'[s] = last + 1 /\ \A u \in Source \ {s} : src'[u] = src[u]
  BY <1>a DEF TypeOK, Entries
<1>c. /\ entries[s] # src'[s]
      /\ \A f \in Format : index[f].of[s] # src'[s]
  BY <1>b, Contents DEF Bounded
<1>1. Bounded'
  BY Contents DEF Edit, proc, TypeOK, Bounded
<1>2. Files'
  BY DEF Edit, proc, TypeOK, Files, Building, Saving
<1>3. Phases'
  BY DEF Edit, proc, TypeOK, Phases, Ended
<1>4. Hashed'
  BY <1>a, <1>b, Contents
  DEF Bounded, Hashed, Opened, Building, Saving
<1>5. Sound'
  BY <1>a, <1>b, Contents
  DEF Bounded, Sound, Safe, Building, Saving
<1>6. Guarded'
  BY <1>a, <1>b, <1>c
  DEF Format, Guarded, Outdated, Building, Saving
<1>7. Written'
  BY <1>a, <1>b, Contents
  DEF Bounded, Written, Building, Saving
<1>8. Untouched'
  BY DEF Edit, proc, TypeOK, Untouched, Opened, Building, Saving
<1>9. UpToDate'
  BY DEF Edit, proc, TypeOK, UpToDate
<1> QED BY <1>1, <1>2, <1>3, <1>4, <1>5, <1>6, <1>7, <1>8, <1>9

\* A source that is gone matches no entry.
LEMMA DeleteStep ==
  ASSUME IInv, Benign(env), Injective, NEW s \in Source, Delete(s),
         UNCHANGED env, TypeOK'
  PROVE  IInv'
<1> USE DEF IInv, Absent
<1>1. Bounded'
  BY Contents DEF Delete, proc, TypeOK, Bounded
<1>2. Files'
  BY DEF Delete, proc, TypeOK, Files, Building, Saving
<1>3. Phases'
  BY DEF Delete, proc, TypeOK, Phases, Ended
<1>4. Hashed'
  BY DEF Delete, proc, TypeOK, Hashed, Opened, Building, Saving
<1>5. Sound'
  BY DEF Delete, proc, TypeOK, Sound, Safe, Building, Saving
<1>6. Guarded'
  BY DEF Delete, proc, TypeOK, Guarded, Outdated, Building, Saving
<1>7. Written'
  BY Contents
  DEF Delete, proc, TypeOK, Hashed, Opened, Written, Building, Saving
<1>8. Untouched'
  BY DEF Delete, proc, TypeOK, Untouched, Opened, Building, Saving
<1>9. UpToDate'
  BY DEF Delete, proc, TypeOK, UpToDate
<1> QED BY <1>1, <1>2, <1>3, <1>4, <1>5, <1>6, <1>7, <1>8, <1>9

\* cmd_build() loads the index and starts the tasks.
LEMMA BuildStartStep ==
  ASSUME IInv, Benign(env), Injective, BuildStart,
         UNCHANGED env, TypeOK'
  PROVE  IInv'
<1> USE DEF IInv, Absent
<1>a. \A u \in Source : entries'[u] \in {Absent, Loaded[u], entries[u]}
  BY DEF BuildStart, NoEntries
<1>b. phase' = "tasks" /\ Precious(env) => entries' = Loaded
  BY DEF BuildStart, Benign, Phase, TypeOK
<1>c. /\ UNCHANGED <<src, last, out, index, seen>>
      /\ \A u \in Source : tpc'[u] \in {"off", "queued"}
      /\ phase' = "tasks" => entries' = Loaded \/ entries' = NoEntries
  BY DEF BuildStart, disk
<1>d. phase = "idle" /\ phase' \in {"idle", "tasks"}
  BY DEF BuildStart
<1>1. Bounded'
  BY <1>a, <1>c, LoadedFrom, Contents
  DEF Bounded, Format
<1>2. Files'
  BY DEF BuildStart, disk, TypeOK, Files, Building, Saving
<1>3. Phases'
  BY DEF BuildStart, disk, TypeOK, Phases, Ended
<1>4. Hashed'
  BY DEF BuildStart, disk, TypeOK, Hashed, Opened, Building, Saving
<1>5. Sound'
  BY <1>c, <1>d, LoadedFrom
  DEF Sound, Safe, Phases, Ended, Format, NoEntries, Building, Saving
<1>6. Guarded'
  BY <1>b, <1>c, <1>d, LoadedFrom
  DEF Guarded, Outdated, Format, Building, Saving
<1>7. Written'
  BY DEF BuildStart, disk, TypeOK, Written, Building, Saving
<1>8. Untouched'
  BY DEF BuildStart, disk, TypeOK, Untouched, Opened, Building, Saving
<1>9. UpToDate'
  BY DEF BuildStart, disk, TypeOK, UpToDate
<1> QED BY <1>1, <1>2, <1>3, <1>4, <1>5, <1>6, <1>7, <1>8, <1>9

\* build_one() maps and hashes its source, or fails.
LEMMA TaskOpenStep ==
  ASSUME IInv, Benign(env), Injective, NEW s \in Source, TaskOpen(s),
         UNCHANGED env, TypeOK'
  PROVE  IInv'
<1> USE DEF IInv, Absent
<1>a. phase = "tasks" /\ tpc[s] = "queued"
  BY TaskPhase DEF TaskOpen, Ended
<1>b. /\ UNCHANGED <<src, last, out, index, phase, entries, touched>>
      /\ \A u \in Source \ {s} : tpc'[u] = tpc[u] /\ seen'[u] = seen[u]
      /\ \/ tpc'[s] = "failed" /\ seen'[s] = seen[s]
         \/ src[s] # Absent /\ tpc'[s] \in {"lookup", "open"} /\ seen'[s] = src[s]
      /\ tpc'[s] = "open" => ~useCache
  BY DEF TaskOpen, disk, TypeOK, Entries
<1>1. Bounded'
  BY <1>b, Contents
  DEF Bounded
<1>2. Files'
  BY DEF TaskOpen, disk, TypeOK, Files, Building, Saving
<1>3. Phases'
  BY DEF TaskOpen, disk, TypeOK, Phases, Ended
<1>4. Hashed'
  BY <1>b
  DEF Hashed, Opened, Building, Saving
<1>5. Sound'
  BY DEF TaskOpen, disk, TypeOK, Sound, Safe, Building, Saving
<1>6. Guarded'
  BY <1>a, <1>b
  DEF Guarded, Outdated, Phases, Benign, Building, Saving
<1>7. Written'
  BY <1>a, <1>b
  DEF Sound, Safe, Written, Building, Saving
<1>8. Untouched'
  BY <1>a, <1>b
  DEF Untouched, Opened, Building, Saving
<1>9. UpToDate'
  BY DEF TaskOpen, disk, TypeOK, UpToDate
<1> QED BY <1>1, <1>2, <1>3, <1>4, <1>5, <1>6, <1>7, <1>8, <1>9

\* is_dirty(): what is Cached has the hashed content in its output.
LEMMA TaskLookupStep ==
  ASSUME IInv, Benign(env), Injective, NEW s \in Source, TaskLookup(s),
         UNCHANGED env, TypeOK'
  PROVE  IInv'
<1> USE DEF IInv, Absent
<1>a. phase = "tasks" /\ tpc[s] = "lookup"
  BY TaskPhase DEF TaskLookup, Ended
<1>b. Precious(env) /\ tpc'[s] = "open" => entries[s] # seen[s]
  BY DEF TaskLookup, Racing, Benign, TypeOK
<1>c. Precious(env) /\ tpc'[s] = "open" =>
        Outdated(entries[s], s) /\ \A f \in Format : Outdated(index[f].of[s], s)
  BY <1>a, <1>b DEF Hashed, Guarded, Outdated, Opened, Building
<1>1. Bounded'
  BY Contents DEF TaskLookup, disk, TypeOK, Bounded
<1>2. Files'
  BY DEF TaskLookup, disk, TypeOK, Files, Building, Saving
<1>3. Phases'
  BY DEF TaskLookup, disk, TypeOK, Phases, Ended
<1>4. Hashed'
  BY DEF TaskLookup, disk, TypeOK, Hashed, Opened, Building, Saving
<1>5. Sound'
  BY DEF TaskLookup, disk, TypeOK, Sound, Safe, Building, Saving
<1>6. Guarded'
  BY <1>a, <1>c
  DEF TaskLookup, disk, TypeOK, Guarded, Outdated, Building, Saving
<1>7. Written'
  BY DEF TaskLookup, disk, TypeOK, Written, Building, Saving
<1>8. Untouched'
  BY DEF TaskLookup, disk, TypeOK, Untouched, Opened, Building, Saving
<1>9. UpToDate'
  BY DEF TaskLookup, disk, TypeOK, UpToDate
<1> QED BY <1>1, <1>2, <1>3, <1>4, <1>5, <1>6, <1>7, <1>8, <1>9

\* The output is cut to nothing only where no entry can be believed wrongly.
LEMMA TaskTruncateStep ==
  ASSUME IInv, Benign(env), Injective, NEW s \in Source, TaskTruncate(s),
         UNCHANGED env, TypeOK'
  PROVE  IInv'
<1> USE DEF IInv, Absent
<1>a. phase = "tasks" /\ tpc[s] = "open" /\ rc = "none"
  BY TaskPhase DEF TaskTruncate, Ended
<1>b. /\ UNCHANGED <<src, index, phase, entries, seen, rc>>
      /\ \A u \in Source \ {s} : tpc'[u] = tpc[u] /\ out'[OutputOf[u]] = out[OutputOf[u]]
      /\ tpc'[s] = "copy" \/ (tpc'[s] = "failed" /\ out' = out /\ Precious(env))
  BY Contents DEF TaskTruncate, TypeOK, Injective, Precious
<1>1. Bounded'
  BY Contents DEF TaskTruncate, TypeOK, Bounded
<1>2. Files'
  BY DEF TaskTruncate, TypeOK, Files, Building, Saving
<1>3. Phases'
  BY DEF TaskTruncate, TypeOK, Phases, Ended
<1>4. Hashed'
  BY DEF TaskTruncate, TypeOK, Hashed, Opened, Building, Saving
<1>5. Sound'
  BY <1>a, <1>b
  DEF Sound, Safe, Guarded, Outdated, Building, Saving
<1>6. Guarded'
  BY DEF TaskTruncate, TypeOK, Guarded, Outdated, Building, Saving
<1>7. Written'
  BY <1>a, <1>b
  DEF Written, Building, Saving
<1>8. Untouched'
  BY DEF TaskTruncate, TypeOK, Untouched, Opened, Building, Saving
<1>9. UpToDate'
  BY <1>a, <1>b
  DEF UpToDate
<1> QED BY <1>1, <1>2, <1>3, <1>4, <1>5, <1>6, <1>7, <1>8, <1>9

\* The write of the output succeeds, fails, or shows a later edit.
LEMMA TaskCopyStep ==
  ASSUME IInv, Benign(env), Injective, NEW s \in Source, TaskCopy(s),
         UNCHANGED env, TypeOK'
  PROVE  IInv'
<1> USE DEF IInv, Absent
<1>a. phase = "tasks" /\ tpc[s] = "copy" /\ rc = "none"
  BY TaskPhase DEF TaskCopy, Ended
<1>b. /\ UNCHANGED <<src, last, index, phase, entries, seen, rc>>
      /\ \A u \in Source \ {s} : tpc'[u] = tpc[u] /\ out'[OutputOf[u]] = out[OutputOf[u]]
      /\ tpc'[s] \in {"put", "built"} \/ (tpc'[s] = "failed" /\ Precious(env))
  BY Contents DEF TaskCopy, TypeOK, Injective, Precious
<1>c. \A c \in Copied(s) : c = seen[s] \/ (src[s] \notin {seen[s], Absent} /\ "live" \in env)
  BY DEF Copied, Injective
<1>d. tpc'[s] \in {"put", "built"} =>
        out'[OutputOf[s]] = seen[s] \/ (src[s] \notin {seen[s], Absent} /\ "live" \in env)
  BY <1>c, Contents DEF TaskCopy, Benign, TypeOK
<1>1. Bounded'
  BY <1>b
  DEF Bounded
<1>2. Files'
  BY DEF TaskCopy, TypeOK, Files, Building, Saving
<1>3. Phases'
  BY DEF TaskCopy, TypeOK, Phases, Ended
<1>4. Hashed'
  BY DEF TaskCopy, TypeOK, Hashed, Opened, Building, Saving
<1>5. Sound'
  BY <1>a, <1>b, <1>d
  DEF Sound, Safe, Guarded, Outdated, Hashed, Opened, Building, Saving
<1>6. Guarded'
  BY DEF TaskCopy, TypeOK, Guarded, Outdated, Building, Saving
<1>7. Written'
  BY <1>a, <1>b, <1>d
  DEF Written, Building, Saving
<1>8. Untouched'
  BY DEF TaskCopy, TypeOK, Untouched, Opened, Building, Saving
<1>9. UpToDate'
  BY <1>a, <1>b
  DEF UpToDate
<1> QED BY <1>1, <1>2, <1>3, <1>4, <1>5, <1>6, <1>7, <1>8, <1>9

\* put() records the hash after the output is written.
LEMMA TaskPutStep ==
  ASSUME IInv, Benign(env), Injective, NEW s \in Source, TaskPut(s),
         UNCHANGED env, TypeOK'
  PROVE  IInv'
<1> USE DEF IInv, Absent
<1>a. phase = "tasks" /\ tpc[s] = "put" /\ rc = "none"
  BY TaskPhase DEF TaskPut, Ended
<1>b. /\ UNCHANGED <<src, last, out, index, tmp, phase, fmt, seen, rc, touched>>
      /\ \A u \in Source \ {s} : tpc'[u] = tpc[u] /\ entries'[u] \in {Absent, entries[u]}
      /\ tpc'[s] = "built" /\ entries'[s] \in {Absent, seen[s]}
  BY DEF TaskPut, disk, TypeOK
<1>c. Precious(env) => \A u \in Source \ {s} : entries'[u] = entries[u]
  BY DEF TaskPut, Racing, Benign
<1>1. Bounded'
  BY <1>b, Contents
  DEF Bounded
<1>2. Files'
  BY <1>a, <1>b
  DEF Files, Building, Saving
<1>3. Phases'
  BY DEF TaskPut, disk, TypeOK, Phases, Ended
<1>4. Hashed'
  BY <1>a, <1>b
  DEF Hashed, Opened, Building, Saving
<1>5. Sound'
  BY <1>a, <1>b
  DEF Sound, Safe, Written, Building, Saving
<1>6. Guarded'
  BY <1>a, <1>b, <1>c
  DEF Format, Guarded, Outdated, Building, Saving
<1>7. Written'
  BY <1>a, <1>b
  DEF Written, Hashed, Opened, Building, Saving
<1>8. Untouched'
  BY DEF TaskPut, disk, TypeOK, Untouched, Opened, Building, Saving
<1>9. UpToDate'
  BY DEF TaskPut, disk, TypeOK, UpToDate
<1> QED BY <1>1, <1>2, <1>3, <1>4, <1>5, <1>6, <1>7, <1>8, <1>9

\* The results are collected, and the save begins or is skipped.
LEMMA CollectStep ==
  ASSUME IInv, Benign(env), Injective, Collect,
         UNCHANGED env, TypeOK'
  PROVE  IInv'
<1> USE DEF IInv, Absent
<1>a. phase = "tasks" /\ rc = "none" /\ \A s \in Source : tpc[s] \in Ended
  BY DEF Collect, Phases
<1>b. Return => UpToDate'
  BY <1>a, ReturnUpToDate DEF Collect, disk, Building
<1>1. Bounded'
  BY Contents
  DEF Collect, Continue, Return, Exit, disk, TypeOK, Bounded, NoEntries
<1>2. Files'
  BY DEF Collect, Continue, Return, Exit, disk, TypeOK, Files, Building, Saving
<1>3. Phases'
  BY DEF Collect, Continue, Return, Exit, disk, TypeOK, Phases, Ended
<1>4. Hashed'
  BY DEF Collect, Continue, Return, Exit, disk, TypeOK, Hashed, Opened, Building, Saving
<1>5. Sound'
  BY DEF Collect, Continue, Return, Exit, disk, TypeOK, Sound, Safe, Building, Saving
<1>6. Guarded'
  BY DEF Collect, Continue, Return, Exit, disk, TypeOK, Guarded, Outdated, Building, Saving
<1>7. Written'
  BY DEF Collect, Continue, Return, Exit, disk, TypeOK, Written, Building, Saving
<1>8. Untouched'
  BY DEF Collect, Continue, Return, Exit, disk, TypeOK, Untouched, Opened, Building, Saving
<1>9. UpToDate'
  BY <1>a, <1>b
  DEF Collect, Continue, UpToDate, disk
<1> QED BY <1>1, <1>2, <1>3, <1>4, <1>5, <1>6, <1>7, <1>8, <1>9

\* save() opens the .tmp file.
LEMMA SaveTruncateStep ==
  ASSUME IInv, Benign(env), Injective, SaveTruncate,
         UNCHANGED env, TypeOK'
  PROVE  IInv'
<1> USE DEF IInv, Absent
<1>a. phase = "trunc" /\ rc = "none" /\ \A s \in Source : tpc[s] \in Ended
  BY DEF SaveTruncate, Phases
<1>b. Return => UpToDate'
  BY <1>a, ReturnUpToDate DEF SaveTruncate, Building, Saving
<1>1. Bounded'
  BY Contents
  DEF SaveTruncate, Continue, Return, Exit, TypeOK, Bounded, NoEntries
<1>2. Files'
  BY DEF SaveTruncate, Continue, Return, Exit, TypeOK, Files, Building, Saving
<1>3. Phases'
  BY DEF SaveTruncate, Continue, Return, Exit, TypeOK, Phases, Ended
<1>4. Hashed'
  BY DEF SaveTruncate, Continue, Return, Exit, TypeOK, Hashed, Opened, Building, Saving
<1>5. Sound'
  BY DEF SaveTruncate, Continue, Return, Exit, TypeOK, Sound, Safe, Building, Saving
<1>6. Guarded'
  BY DEF SaveTruncate, Continue, Return, Exit, TypeOK, Guarded, Outdated, Building, Saving
<1>7. Written'
  BY DEF SaveTruncate, Continue, Return, Exit, TypeOK, Written, Building, Saving
<1>8. Untouched'
  BY DEF SaveTruncate, Continue, Return, Exit, TypeOK, Untouched, Opened, Building, Saving
<1>9. UpToDate'
  BY <1>a, <1>b
  DEF SaveTruncate, Continue, UpToDate
<1> QED BY <1>1, <1>2, <1>3, <1>4, <1>5, <1>6, <1>7, <1>8, <1>9

\* save() writes the .tmp file, or fails.
LEMMA SaveWriteStep ==
  ASSUME IInv, Benign(env), Injective, SaveWrite,
         UNCHANGED env, TypeOK'
  PROVE  IInv'
<1> USE DEF IInv, Absent
<1>a. phase = "write" /\ rc = "none" /\ \A s \in Source : tpc[s] \in Ended
  BY DEF SaveWrite, Phases
<1>b. Return => UpToDate'
  BY <1>a, ReturnUpToDate DEF SaveWrite, Building, Saving
<1>c. phase' = "rename" => tmp'[fmt'] = Whole(entries')
  BY DEF SaveWrite, Continue, Return, Exit, Benign, TypeOK
<1>1. Bounded'
  BY Contents
  DEF SaveWrite, Continue, Return, Exit, TypeOK, Bounded, NoEntries
<1>2. Files'
  BY <1>a, <1>c
  DEF SaveWrite, Continue, Return, Exit, TypeOK, Files, Building, Saving
<1>3. Phases'
  BY DEF SaveWrite, Continue, Return, Exit, TypeOK, Phases, Ended
<1>4. Hashed'
  BY DEF SaveWrite, Continue, Return, Exit, TypeOK, Hashed, Opened, Building, Saving
<1>5. Sound'
  BY DEF SaveWrite, Continue, Return, Exit, TypeOK, Sound, Safe, Building, Saving
<1>6. Guarded'
  BY DEF SaveWrite, Continue, Return, Exit, TypeOK, Guarded, Outdated, Building, Saving
<1>7. Written'
  BY DEF SaveWrite, Continue, Return, Exit, TypeOK, Written, Building, Saving
<1>8. Untouched'
  BY DEF SaveWrite, Continue, Return, Exit, TypeOK, Untouched, Opened, Building, Saving
<1>9. UpToDate'
  BY <1>a, <1>b
  DEF SaveWrite, Continue, UpToDate
<1> QED BY <1>1, <1>2, <1>3, <1>4, <1>5, <1>6, <1>7, <1>8, <1>9

\* The rename puts the new index in place of the old one.
LEMMA SaveRenameStep ==
  ASSUME IInv, Benign(env), Injective, SaveRename,
         UNCHANGED env, TypeOK'
  PROVE  IInv'
<1> USE DEF IInv, Absent
<1>a. phase = "rename" /\ rc = "none" /\ \A s \in Source : tpc[s] \in Ended
  BY DEF SaveRename, Phases
<1>b. Return => UpToDate'
  BY <1>a, ReturnUpToDate DEF SaveRename, Building, Saving
<1>1. CASE UNCHANGED <<index, tmp>> /\ Return
  <2> USE <1>1 DEF SaveRename, Return, Exit, TypeOK, NoEntries
  <2>1. Bounded'
    BY Contents DEF Bounded
  <2>2. Files' /\ Phases' /\ Hashed'
    BY DEF Files, Phases, Hashed, Building, Saving, Ended
  <2>3. Sound'
    BY <1>a DEF Sound, Safe, Building, Saving
  <2>4. Guarded'
    BY <1>a DEF Guarded, Outdated, Building, Saving
  <2>5. Written' /\ Untouched'
    BY DEF Written, Untouched, Building, Saving
  <2> QED BY <1>1, <1>b, <2>1, <2>2, <2>3, <2>4, <2>5
<1>2. CASE ~(UNCHANGED <<index, tmp>> /\ Return)
  <2>c. /\ index'[fmt] = Whole(entries) /\ \A f \in Format \ {fmt} : index'[f] = index[f]
        /\ UNCHANGED <<src, last, out, tpc, touched>> /\ fmt \in Format
    BY <1>a, <1>2 DEF SaveRename, Files, TypeOK
  <2>d. \/ fmt = "cbor" /\ phase' = "trunc" /\ fmt' = "json" /\ UNCHANGED <<entries, seen>>
        \/ fmt = "json" /\ phase' = "idle" /\ entries' = NoEntries /\ seen' = NoEntries
    BY <1>2 DEF SaveRename, Continue, Return, Exit
  <2>e. index'[fmt].of = entries /\ index'[fmt].state = "whole"
    BY <2>c DEF Whole
  <2>f. fmt = "json" => index["cbor"].of = entries
    BY <1>a DEF Files, Saving, Whole
  <2>1. Bounded'
    BY <2>c, <2>d, <2>e, Contents
    DEF Bounded, NoEntries
  <2>2. Files'
    BY <1>a, <2>c, <2>d, <2>e
    DEF Files, Format, Building, Saving
  <2>3. Phases'
    BY DEF SaveRename, Continue, Return, Exit, TypeOK, Phases, Ended
  <2>4. Hashed'
    BY <1>a, <2>c, <2>d, <2>e
    DEF Hashed, Opened, Building, Saving
  <2>5. Sound'
    BY <1>a, <2>c, <2>d, <2>e
    DEF Sound, Safe, Ended, Building, Saving
  <2>6. Guarded'
    BY <1>a, <2>c, <2>d, <2>e, <2>f
    DEF Guarded, Outdated, Format, Ended, Building, Saving
  <2>7. Written'
    BY DEF SaveRename, Continue, Return, Exit, TypeOK, Written, Building, Saving
  <2>8. Untouched'
    BY DEF SaveRename, Continue, Return, Exit, TypeOK, Untouched, Opened, Building, Saving
  <2>9. UpToDate'
    BY <1>a, <1>b
    DEF SaveRename, Continue, UpToDate
  <2> QED BY <2>1, <2>2, <2>3, <2>4, <2>5, <2>6, <2>7, <2>8, <2>9
<1> QED BY <1>1, <1>2

\* nift clean removes the outputs first.
LEMMA CleanOutputStep ==
  ASSUME IInv, Benign(env), Injective, CleanOutput,
         UNCHANGED env, TypeOK'
  PROVE  IInv'
<1> USE DEF IInv, Absent
<1>1. Bounded'
  BY Contents DEF CleanOutput, TypeOK, Bounded
<1>2. Files'
  BY DEF CleanOutput, TypeOK, Files, Building, Saving
<1>3. Phases'
  BY DEF CleanOutput, TypeOK, Phases, Ended
<1>4. Hashed'
  BY DEF CleanOutput, TypeOK, Hashed, Opened, Building, Saving
<1>5. Sound'
  BY DEF CleanOutput, TypeOK, Sound, Safe, Building, Saving
<1>6. Guarded'
  BY DEF CleanOutput, TypeOK, Guarded, Outdated, Building, Saving
<1>7. Written'
  BY DEF CleanOutput, TypeOK, Written, Building, Saving
<1>8. Untouched'
  BY DEF CleanOutput, TypeOK, Untouched, Opened, Building, Saving
<1>9. UpToDate'
  BY DEF CleanOutput, TypeOK, UpToDate
<1> QED BY <1>1, <1>2, <1>3, <1>4, <1>5, <1>6, <1>7, <1>8, <1>9

\* ... and then the index.
LEMMA CleanCacheStep ==
  ASSUME IInv, Benign(env), Injective, CleanCache,
         UNCHANGED env, TypeOK'
  PROVE  IInv'
<1> USE DEF IInv, Absent
<1>a. /\ UNCHANGED <<src, last, out, entries, seen, tpc>> /\ phase' = "idle"
      /\ \A f \in Format : index'[f] = NoFile
  BY DEF CleanCache
<1>b. \A f \in Format : /\ index'[f].of = NoEntries /\ index'[f].state = "none"
                        /\ \A s \in Source : index'[f].of[s] = Absent
  BY <1>a DEF NoFile, NoEntries
<1>1. Bounded'
  BY <1>a, <1>b, Contents
  DEF Bounded
<1>2. Files'
  BY <1>a, <1>b
  DEF Files, Building, Saving
<1>3. Phases'
  BY DEF CleanCache, TypeOK, Phases, Ended
<1>4. Hashed'
  BY DEF CleanCache, TypeOK, Hashed, Opened, Building, Saving
<1>5. Sound'
  BY <1>a, <1>b
  DEF Sound, Safe, Building, Saving
<1>6. Guarded'
  BY <1>a, <1>b
  DEF Guarded, Outdated, Format, Building, Saving
<1>7. Written'
  BY DEF CleanCache, TypeOK, Written, Building, Saving
<1>8. Untouched'
  BY DEF CleanCache, TypeOK, Untouched, Opened, Building, Saving
<1>9. UpToDate'
  BY DEF CleanCache, TypeOK, UpToDate
<1> QED BY <1>1, <1>2, <1>3, <1>4, <1>5, <1>6, <1>7, <1>8, <1>9

\* The process dies: what it had in memory is gone.
LEMMA CrashStep ==
  ASSUME IInv, Benign(env), Injective, Crash,
         UNCHANGED env, TypeOK'
  PROVE  IInv'
<1> USE DEF IInv, Absent
<1>a. /\ UNCHANGED <<src, last, out, index>> /\ phase' = "idle" /\ phase # "clean"
      /\ entries' = NoEntries /\ seen' = NoEntries
      /\ \A s \in Source : tpc'[s] = "off"
      /\ Precious(env)
  BY DEF Crash, Exit, disk, Benign, Phases, Precious
<1>1. Bounded'
  BY <1>a, Contents
  DEF Bounded, NoEntries
<1>2. Files'
  BY DEF Crash, Exit, disk, TypeOK, Files, Building, Saving
<1>3. Phases'
  BY DEF Crash, Exit, disk, TypeOK, Phases, Ended
<1>4. Hashed'
  BY DEF Crash, Exit, disk, TypeOK, Hashed, Opened, Building, Saving
<1>5. Sound'
  BY <1>a
  DEF Sound, Safe, Building, Saving
<1>6. Guarded'
  BY DEF Crash, Exit, disk, TypeOK, Guarded, Outdated, Building, Saving
<1>7. Written'
  BY DEF Crash, Exit, disk, TypeOK, Written, Building, Saving
<1>8. Untouched'
  BY DEF Crash, Exit, disk, TypeOK, Untouched, Opened, Building, Saving
<1>9. UpToDate'
  BY DEF Crash, Exit, disk, TypeOK, UpToDate
<1> QED BY <1>1, <1>2, <1>3, <1>4, <1>5, <1>6, <1>7, <1>8, <1>9

\* The initial state: nothing is stored, nothing runs.
LEMMA InitIInv == Init => IInv
<1> SUFFICES ASSUME Init PROVE IInv
  OBVIOUS
<1> USE DEF Absent
<1>1. TypeOK
  BY InitTypeOK
<1>2. \A f \in Format : /\ index[f].of = NoEntries /\ index[f].state = "none"
                        /\ \A s \in Source : index[f].of[s] = Absent
  BY DEF Init, NoFile, NoEntries
<1>3. Bounded
  BY <1>2 DEF Init, Bounded, NoEntries
<1>4. Files /\ Phases
  BY <1>2 DEF Init, Files, Phases, Saving, Ended
<1>5. Hashed /\ Written /\ Untouched /\ UpToDate
  BY DEF Init, Hashed, Written, Untouched, UpToDate, Building, Saving
<1>6. Sound /\ Guarded
  BY <1>2 DEF Init, Sound, Guarded, Safe, Outdated, Building, Saving, Format
<1> QED BY <1>1, <1>3, <1>4, <1>5, <1>6 DEF IInv

\* Every step of a benign environment keeps the invariant.
LEMMA NextIInv ==
  ASSUME Injective, Benign(env), IInv, [Next]_vars
  PROVE  Benign(env)' /\ IInv'
<1>1. TypeOK' /\ UNCHANGED env
  BY TypeStep DEF IInv, Next, vars
<1>2. CASE UNCHANGED vars
  BY <1>1, <1>2 DEF vars, disk, proc, IInv, TypeOK, Bounded, Files, Phases, Hashed, Sound, Safe,
                    Guarded, Outdated, Written, Untouched, UpToDate
<1>3. CASE cmd_build
  BY <1>1, <1>3, BuildStartStep, TaskOpenStep, TaskLookupStep, TaskTruncateStep,
     TaskCopyStep, TaskPutStep, CollectStep, SaveTruncateStep, SaveWriteStep, SaveRenameStep
  DEF cmd_build, build_one
<1>4. CASE cmd_clean
  BY <1>1, <1>4, CleanOutputStep, CleanCacheStep DEF cmd_clean
<1>5. CASE Crash
  BY <1>1, <1>5, CrashStep
<1>6. CASE Author
  BY <1>1, <1>6, EditStep, DeleteStep DEF Author
<1> QED BY <1>2, <1>3, <1>4, <1>5, <1>6 DEF Next
-----------------------------------------------------------------------------
(* Contents that come back                                                 *)

\* An entry c of s that speaks of the output as it is.
Known(c, s) == c = Absent \/ c = out[OutputOf[s]]

\* Which entry and which task may be trusted when: unlike Sound, whatever the
\* source holds by now.
Faithful(s) ==
  /\ phase # "clean" =>
       \A f \in Format : \/ Known(index[f].of[s], s)
                         \/ phase \in Building /\ tpc[s] \in {"copy", "put", "built"}
  /\ phase \in Building =>
       /\ tpc[s] \notin {"copy", "put"} => Known(entries[s], s)
       /\ tpc[s] \in Opened => seen[s] # Absent
       /\ tpc[s] \in {"put", "built", "cached"} => out[OutputOf[s]] = seen[s]

AllFaithful == \A s \in Source : Faithful(s)

OInv == TypeOK /\ Files /\ Phases /\ AllFaithful /\ Untouched /\ UpToDate

\* The author changes nothing that the entries speak of.
LEMMA AuthorOrderly ==
  ASSUME OInv, NEW s \in Source, Edit(s) \/ Delete(s), UNCHANGED env, TypeOK'
  PROVE  OInv'
<1> USE DEF OInv, Edit, Delete, proc
<1>1. Files' /\ Phases'
  BY DEF Files, Phases, Saving
<1>2. AllFaithful'
  BY DEF AllFaithful, Faithful, Known, Building, Saving
<1>3. Untouched' /\ UpToDate'
  BY DEF Untouched, UpToDate
<1> QED BY <1>1, <1>2, <1>3

\* A build begins with what the index holds.
LEMMA StartOrderly ==
  ASSUME OInv, BuildStart, UNCHANGED env, TypeOK'
  PROVE  OInv'
<1> USE DEF OInv
<1>1. /\ phase = "idle" /\ phase' \in {"idle", "tasks"}
      /\ UNCHANGED <<src, out, index>>
      /\ \A s \in Source : tpc'[s] \in {"off", "queued"}
      /\ phase' = "tasks" => entries' = Loaded \/ entries' = NoEntries
  BY DEF BuildStart, disk
<1>2. Files' /\ Phases'
  BY DEF BuildStart, disk, TypeOK, Files, Phases, Saving, Ended
<1>3. AllFaithful'
  <2> SUFFICES ASSUME NEW s \in Source PROVE Faithful(s)'
    BY DEF AllFaithful
  <2>1. \A f \in Format : Known(index[f].of[s], s)
    BY <1>1 DEF AllFaithful, Faithful, Building, Saving
  <2>2. Known(Loaded[s], s)
    BY <2>1, LoadedFrom DEF Known, Format
  <2> QED BY <1>1, <2>1, <2>2 DEF Faithful, Known, NoEntries, Opened, Building, Saving
<1>4. Untouched' /\ UpToDate'
  BY DEF BuildStart, disk, TypeOK, Untouched, UpToDate, Opened, Building, Saving
<1> QED BY <1>2, <1>3, <1>4

\* Every step of a task.
LEMMA TaskOrderly ==
  ASSUME OInv, Orderly(env), Injective, NEW s \in Source, build_one(s), UNCHANGED env, TypeOK'
  PROVE  OInv'
<1> USE DEF OInv
<1>1. phase = "tasks" /\ rc = "none" /\ tpc[s] \notin Ended
  BY TaskPhase DEF build_one, TaskOpen, TaskLookup, TaskTruncate, TaskCopy, TaskPut, Ended
<1>2. /\ UNCHANGED <<src, index, tmp, phase, fmt, useCache, rc, touched>>
      /\ \A u \in Source \ {s} : /\ tpc'[u] = tpc[u] /\ seen'[u] = seen[u]
                                 /\ out'[OutputOf[u]] = out[OutputOf[u]]
                                 /\ entries'[u] \in {Absent, entries[u]}
  BY Contents DEF build_one, TaskOpen, TaskLookup, TaskTruncate, TaskCopy, TaskPut, disk,
                  TypeOK, Entries, Injective
<1>3. Files' /\ Phases' /\ UpToDate'
  BY <1>1, <1>2 DEF Files, Phases, UpToDate, Saving
<1>4. /\ \/ tpc'[s] = "failed" /\ tpc[s] = "queued" /\ src[s] = Absent
         \/ tpc'[s] \in Opened /\ (tpc[s] \in Opened \/ src[s] = seen'[s])
      /\ tpc[s] \in Opened => UNCHANGED seen
  BY DEF build_one, TaskOpen, TaskLookup, TaskTruncate, TaskCopy, TaskPut, TypeOK, Orderly,
         Opened, Entries
<1>5. Untouched'
  BY <1>1, <1>2, <1>4 DEF Untouched, Opened, Ended, Building
<1>6. ASSUME NEW u \in Source \ {s} PROVE Faithful(u)'
  BY <1>1, <1>2 DEF AllFaithful, Faithful, Known, Building
<1>7. Faithful(s)'
  <2> USE <1>1, <1>2 DEF Faithful, Known, Building, Opened
  <2>0. Faithful(s)
    BY DEF AllFaithful
  <2>1. CASE TaskOpen(s)
    BY <2>0, <2>1, Contents DEF TaskOpen, disk, TypeOK, Entries
  <2>2. CASE TaskLookup(s)
    BY <2>0, <2>2 DEF TaskLookup, disk, TypeOK
  <2>3. CASE TaskTruncate(s)
    BY <2>0, <2>3 DEF TaskTruncate, TypeOK, Orderly
  <2>4. CASE TaskCopy(s)
    <3>1. Copied(s) = {seen[s]}
      BY DEF Copied, Injective, Orderly
    <3>2. out'[OutputOf[s]] = seen[s] /\ tpc'[s] \in {"put", "built"}
      BY <2>4, <3>1, Contents DEF TaskCopy, TypeOK, Orderly
    <3>3. tpc[s] = "copy" /\ UNCHANGED <<entries, seen>> /\ (tpc'[s] = "built" => ~useCache)
      BY <2>4 DEF TaskCopy, TypeOK, Orderly
    <3>4. useCache
      BY DEF Phases, Orderly
    <3> QED BY <2>0, <3>2, <3>3, <3>4
  <2>5. CASE TaskPut(s)
    <3>1. /\ tpc[s] = "put" /\ tpc'[s] = "built" /\ UNCHANGED <<out, seen>>
          /\ entries'[s] \in {Absent, seen[s]}
      BY <2>5 DEF TaskPut, disk, TypeOK
    <3> QED BY <2>0, <3>1
  <2> QED BY <2>1, <2>2, <2>3, <2>4, <2>5 DEF build_one
<1> QED BY <1>3, <1>5, <1>6, <1>7 DEF AllFaithful

\* The tasks are done; the save runs to its end and replaces both indexes.
LEMMA SaveOrderly ==
  ASSUME OInv, Orderly(env), Collect \/ SaveTruncate \/ SaveWrite \/ SaveRename,
         UNCHANGED env, TypeOK'
  PROVE  OInv'
<1> USE DEF OInv
<1>1. /\ phase \in Building /\ rc = "none" /\ \A s \in Source : tpc[s] \in Ended
      /\ UNCHANGED <<src, out, tpc, touched>>
  BY DEF Collect, SaveTruncate, SaveWrite, SaveRename, Phases, disk, Building, Saving
<1>2. Return => UpToDate'
  <2>1. Written
    BY <1>1 DEF AllFaithful, Faithful, Written, Opened, Ended
  <2> QED BY <1>1, <2>1, ReturnUpToDate
<1>3. phase' # "idle" => UNCHANGED <<useCache, entries, seen, rc>> /\ phase' \in Saving
  BY DEF Collect, SaveTruncate, SaveWrite, SaveRename, Continue, Return, Exit, Saving
<1>4. CASE ~SaveRename
  <2>1. /\ UNCHANGED <<index, entries, seen, useCache, rc>> /\ phase' \in Saving
        /\ phase' = "rename" => tmp'[fmt'] = Whole(entries)
        /\ fmt' = "json" => phase \in Saving /\ fmt = "json"
    BY <1>4 DEF Collect, SaveTruncate, SaveWrite, Continue, Orderly, Phases, disk, TypeOK, Saving
  <2>2. Files' /\ Phases'
    BY <1>1, <2>1 DEF Files, Phases, Saving
  <2>3. AllFaithful' /\ Untouched' /\ UpToDate'
    BY <1>1, <2>1 DEF AllFaithful, Faithful, Known, Untouched, UpToDate, Building, Saving
  <2> QED BY <2>2, <2>3
<1>5. CASE SaveRename
  <2>1. /\ phase = "rename" /\ index'[fmt].of = entries /\ index'[fmt].state = "whole"
        /\ \A f \in Format \ {fmt} : index'[f] = index[f]
        /\ fmt \in Format
    BY <1>5 DEF SaveRename, Files, TypeOK, Whole, Orderly
  <2>2. \/ fmt = "cbor" /\ phase' = "trunc" /\ fmt' = "json" /\ UNCHANGED <<useCache, entries, seen, rc>>
        \/ fmt = "json" /\ phase' = "idle" /\ useCache' = TRUE /\ Return
    BY <1>5 DEF SaveRename, Continue, Return, Exit, Orderly
  <2>3. fmt = "json" => index["cbor"].of = entries
    BY <2>1 DEF Files, Saving, Whole
  <2>4. Files'
    BY <1>5, <2>1, <2>2 DEF SaveRename, Files, Format, Saving, TypeOK, Orderly
  <2>5. Phases' /\ Untouched' /\ UpToDate'
    BY <1>1, <1>2, <2>2 DEF Phases, Untouched, UpToDate, Building, Saving
  <2>6. AllFaithful'
    <3> SUFFICES ASSUME NEW s \in Source PROVE Faithful(s)'
      BY DEF AllFaithful
    <3>1. Known(entries[s], s) /\ Faithful(s)
      BY <1>1 DEF AllFaithful, Faithful, Ended
    <3>2. CASE fmt = "cbor"
      BY <1>1, <2>1, <2>2, <3>1, <3>2 DEF Faithful, Known, Format, Building, Saving
    <3>3. CASE fmt = "json"
      BY <1>1, <2>1, <2>2, <2>3, <3>1, <3>3 DEF Faithful, Known, Format, Building, Saving
    <3> QED BY <2>1, <3>2, <3>3 DEF Format
  <2> QED BY <2>4, <2>5, <2>6
<1> QED BY <1>4, <1>5

\* nift clean, which is not interrupted.
LEMMA CleanOrderly ==
  ASSUME OInv, cmd_clean, UNCHANGED env, TypeOK'
  PROVE  OInv'
<1> USE DEF OInv
<1>1. CASE CleanOutput
  BY <1>1 DEF CleanOutput, Files, Phases, AllFaithful, Faithful, Untouched, UpToDate, Ended,
              Building, Saving
<1>2. CASE CleanCache
  <2>1. \A f \in Format : index'[f].of = NoEntries /\ index'[f].state = "none"
    BY <1>2 DEF CleanCache, NoFile
  <2>2. Files' /\ Phases' /\ Untouched' /\ UpToDate'
    BY <1>2, <2>1 DEF CleanCache, Files, Phases, Untouched, UpToDate, Building, Saving
  <2>3. AllFaithful'
    BY <1>2, <2>1 DEF CleanCache, AllFaithful, Faithful, Known, NoEntries, Building, Saving
  <2> QED BY <2>2, <2>3
<1> QED BY <1>1, <1>2 DEF cmd_clean

\* Nothing is stored at the start.
LEMMA InitOInv == Init => OInv
<1> SUFFICES ASSUME Init PROVE OInv
  OBVIOUS
<1>1. IInv
  BY InitIInv
<1>2. \A s \in Source, f \in Format : index[f].of[s] = Absent
  BY DEF Init, NoFile, NoEntries
<1> QED BY <1>1, <1>2 DEF Init, IInv, OInv, AllFaithful, Faithful, Known, Building, Saving

\* Every step of an orderly environment keeps the invariant.
LEMMA NextOInv ==
  ASSUME Injective, Orderly(env), OInv, [Next]_vars
  PROVE  Orderly(env)' /\ OInv'
<1>1. TypeOK' /\ UNCHANGED env
  BY TypeStep DEF OInv, Next, vars
<1>2. CASE UNCHANGED vars
  BY <1>1, <1>2 DEF vars, disk, proc, OInv, TypeOK, Files, Phases, AllFaithful, Faithful, Known,
                    Untouched, UpToDate
<1>3. CASE cmd_build
  BY <1>1, <1>3, StartOrderly, TaskOrderly, SaveOrderly DEF cmd_build
<1>4. CASE cmd_clean \/ Author
  BY <1>1, <1>4, CleanOrderly, AuthorOrderly DEF Author
<1>5. ~Crash
  BY DEF Crash, Orderly
<1> QED BY <1>2, <1>3, <1>4, <1>5 DEF Next
-----------------------------------------------------------------------------
(* Both kinds of environment                                               *)

Inv == (Benign(env) /\ IInv) \/ (Orderly(env) /\ OInv)

\* The environment is chosen once, and its invariant holds from then on.
LEMMA Invariance ==
  ASSUME Injective, \A e \in Envs : Withstood(e)
  PROVE  Spec => []Inv
<1>1. Init => Inv
  BY InitIInv, InitOInv DEF Init, Inv, Withstood
<1>2. Inv /\ [Next]_vars => Inv'
  BY NextIInv, NextOInv DEF Inv
<1> QED BY <1>1, <1>2, PTL DEF Spec

\* What a build that is under way has left in the outputs, in both.
Steady ==
  /\ TypeOK /\ Phases /\ Written
  /\ phase \in Building => \A s \in Source : tpc[s] \in Opened => seen[s] # Absent
  /\ "halfclean" \notin env

\* Both invariants say so much.
LEMMA InvSteady == Inv => Steady
<1>1. IInv /\ Benign(env) => Steady
  BY DEF IInv, Hashed, Steady, Benign
<1>2. OInv /\ Orderly(env) => Steady
  <2> SUFFICES ASSUME OInv, Orderly(env) PROVE Written /\ Steady
    OBVIOUS
  <2>1. Written
    BY DEF OInv, AllFaithful, Faithful, Known, Written, Opened
  <2> QED BY <2>1 DEF OInv, AllFaithful, Faithful, Steady, Orderly
<1> QED BY <1>1, <1>2 DEF Inv
-----------------------------------------------------------------------------
(* The theorems                                                            *)

\* `nift build' that exits with 0, and behind whose back nobody changed a
\* file, leaves every output equal to its source: for any number of sources,
\* worker threads and builds, whatever crashes, full disks, concurrent edits,
\* cleans, --no-cache builds and lost cache entries a benign environment, and
\* whatever undone edits an orderly one, held.
THEOREM UpToDateCorrect ==
  ASSUME Injective, \A e \in Envs : Withstood(e)
  PROVE  Spec => []UpToDate
<1>1. Inv => UpToDate
  BY DEF Inv, IInv, OInv
<1> QED BY <1>1, Invariance, PTL

\* A source that build_one() reports as Cached has its hashed content in its
\* output.
THEOREM CachedCorrect ==
  ASSUME Injective, \A e \in Envs : Withstood(e)
  PROVE  Spec => []CachedIsFresh
<1>1. Inv => CachedIsFresh
  BY InvSteady DEF Steady, Written, CachedIsFresh, Building
<1> QED BY <1>1, Invariance, PTL

\* The next build may believe both indexes, whatever the last one was stopped
\* by.
THEOREM IndexCorrect ==
  ASSUME Injective, \A e \in Envs : Withstood(e)
  PROVE  Spec => []IndexSound
<1>1. Inv => IndexSound
  <2> SUFFICES ASSUME Inv, phase = "idle", NEW f \in Format, NEW s \in Source
               PROVE  index[f].of[s] \in {Absent, out[OutputOf[s]]} \/ index[f].of[s] # src[s]
    BY DEF IndexSound, Trusted
  <2>1. tpc[s] \in Ended
    BY InvSteady DEF Steady, Phases
  <2>2. CASE IInv
    BY <2>1, <2>2 DEF IInv, Sound, Safe, Ended
  <2>3. CASE OInv
    BY <2>3 DEF OInv, AllFaithful, Faithful, Known, Building, Saving
  <2> QED BY <2>2, <2>3 DEF Inv
<1> QED BY <1>1, Invariance, PTL

\* What save() needs so that it never leaves a torn index: the .tmp file it is
\* about to rename is whole.
NeverTorn ==
  /\ IndexNeverTorn
  /\ phase = "rename" => tmp[fmt].state # "torn"

\* The index files stay readable as long as no write fails in silence: this
\* needs neither distinct outputs nor contents that do not come back.
THEOREM IndexReadable ==
  ASSUME \A e \in Envs : "silent" \notin e
  PROVE  Spec => []IndexNeverTorn
<1>1. Init => NeverTorn
  BY DEF Init, NeverTorn, IndexNeverTorn, NoFile
<1>2. TypeOK /\ NeverTorn /\ [Next]_vars => NeverTorn'
  <2> SUFFICES ASSUME TypeOK, NeverTorn, [Next]_vars PROVE NeverTorn'
    OBVIOUS
  <2>1. \A f \in Format : index[f].state # "torn"
    BY DEF NeverTorn, IndexNeverTorn
  <2>2. CASE SaveRename
    <3>1. \A f \in Format : index'[f] = index[f] \/ (f = fmt /\ index'[f] = tmp[fmt])
      BY <2>2 DEF SaveRename, TypeOK
    <3>2. phase' # "rename" /\ phase = "rename"
      BY <2>2 DEF SaveRename, Continue, Return, Exit
    <3> QED BY <2>1, <3>1, <3>2 DEF NeverTorn, IndexNeverTorn
  <2>3. CASE SaveWrite
    <3>1. phase' = "rename" => fmt' = fmt /\ tmp'[fmt] = Whole(entries)
      BY <2>3 DEF SaveWrite, Continue, Return, Exit, TypeOK
    <3>2. Whole(entries).state = "whole" /\ index' = index
      BY <2>3 DEF Whole, SaveWrite
    <3> QED BY <2>1, <3>1, <3>2 DEF NeverTorn, IndexNeverTorn
  <2>4. CASE CleanCache
    BY <2>4 DEF CleanCache, NeverTorn, IndexNeverTorn, NoFile
  <2>5. CASE UNCHANGED <<index, tmp, phase, fmt>> \/ (UNCHANGED index /\ phase' # "rename")
    BY <2>1, <2>5 DEF NeverTorn, IndexNeverTorn
  <2>6. SaveTruncate \/ Collect \/ BuildStart \/ CleanOutput \/ Crash
          => UNCHANGED index /\ phase' # "rename"
    BY DEF SaveTruncate, Collect, BuildStart, CleanOutput, Crash, Continue, Return, Exit, disk
  <2>7. Author \/ (\E s \in Source : build_one(s)) \/ UNCHANGED vars
          => UNCHANGED <<index, tmp, phase, fmt>>
    BY DEF Author, Edit, Delete, build_one, TaskOpen, TaskLookup, TaskTruncate, TaskCopy,
           TaskPut, vars, disk, proc
  <2> QED BY <2>2, <2>3, <2>4, <2>5, <2>6, <2>7 DEF Next, cmd_build, cmd_clean
<1>3. NeverTorn => IndexNeverTorn
  BY DEF NeverTorn
<1> QED BY <1>1, <1>2, <1>3, TypeCorrect, PTL DEF Spec

\* A source that was skipped has an output.
Skipped == \A s \in Source : tpc[s] = "cached" => out[OutputOf[s]] # Absent

\* "If both match and the output exists, skip" (architecture.md:128): the code
\* does not look whether the output exists, but a source that it skips has
\* one, unless nift clean was interrupted or somebody else removed it.
THEOREM SkipCorrect ==
  ASSUME Injective, \A e \in Envs : Withstood(e)
  PROVE  Spec => []SkipNeedsOutput
<1>1. Init => Skipped
  BY DEF Init, Skipped
<1>2. Steady /\ Steady' /\ Skipped /\ [Next]_vars => Skipped'
  <2> SUFFICES ASSUME Steady, Steady', Skipped, [Next]_vars,
                      NEW s \in Source, tpc'[s] = "cached"
               PROVE  out'[OutputOf[s]] # Absent
    BY DEF Skipped
  <2>1. CASE phase' \in Building
    BY <2>1 DEF Steady, Written, Opened
  <2>2. CASE phase' \notin Building
    <3>1. UNCHANGED <<out, tpc>>
      <4>1. CASE cmd_build
        <5>1. \A u \in Source : ~build_one(u)
          BY <2>2, TaskPhase DEF Steady, build_one, TaskOpen, TaskLookup, TaskTruncate, TaskCopy,
                                 TaskPut, disk, Ended, Building
        <5>2. ~BuildStart
          BY DEF BuildStart
        <5> QED BY <4>1, <5>1, <5>2 DEF cmd_build, Collect, SaveTruncate, SaveWrite, SaveRename,
                                        disk
      <4>2. CASE cmd_clean \/ Crash
        BY <4>2 DEF cmd_clean, CleanOutput, CleanCache, Crash
      <4>3. CASE Author \/ UNCHANGED vars
        BY <4>3 DEF Author, Edit, Delete, vars, disk, proc
      <4> QED BY <4>1, <4>2, <4>3 DEF Next
    <3> QED BY <3>1 DEF Skipped
  <2> QED BY <2>1, <2>2
<1>3. Skipped => SkipNeedsOutput
  BY DEF Skipped, SkipNeedsOutput
<1> QED BY <1>1, <1>2, <1>3, Invariance, InvSteady, PTL DEF Spec

\* "no partial output files survive" (test_signal_recovery.py:5): the first
\* build that exits with 0 after a crash or a failure, and that nobody
\* disturbs, has replaced every torn output.
THEOREM NoPartialCorrect ==
  ASSUME Injective, \A e \in Envs : Withstood(e)
  PROVE  Spec => []NoPartialOutput
<1>1. Inv => NoPartialOutput
  BY Contents DEF Inv, IInv, OInv, UpToDate, NoPartialOutput, Torn
<1> QED BY <1>1, Invariance, PTL
-----------------------------------------------------------------------------
(* Refinement of SiteBuild                                                 *)

\* A step that a caller sees as one of an undisturbed build, or as one of the
\* mishaps that the environment allows.
SiteStep ==
  \/ Site!QuietNext \/ UNCHANGED Site!siteVars
  \/ "crash" \in env /\ Site!Interrupt
  \/ "clean" \in env /\ Site!Clean
  \/ "live" \in env /\ \E s \in Source : Site!Spoil(s)
  \/ "enospc" \in env /\ \E s \in Source : Site!Unread(s) \/ Site!Fail(s)

\* A step of one task, seen by a caller: only what is published of its source
\* can change.
LEMMA TaskView ==
  ASSUME TypeOK, Injective, Phases, NEW s \in Source, tpc[s] \notin Ended, UNCHANGED <<phase, rc>>,
         \A u \in Source \ {s} : /\ tpc'[u] = tpc[u] /\ seen'[u] = seen[u]
                                 /\ out'[OutputOf[u]] = out[OutputOf[u]]
  PROVE  /\ busy /\ busy'
         /\ amiss <=> \E u \in Source : tpc[u] = "failed"
         /\ amiss' <=> amiss \/ tpc'[s] = "failed"
         /\ view' = [view EXCEPT ![s] = published(s)']
         /\ tpc'[s] # "queued" => queued' = queued \ {s}
<1>1. phase = "tasks"
  BY TaskPhase
<1>2. busy /\ busy'
  BY <1>1 DEF busy
<1>3. amiss <=> \E u \in Source : tpc[u] = "failed"
  BY <1>2 DEF amiss
<1>4. amiss' <=> \E u \in Source : tpc'[u] = "failed"
  BY <1>2 DEF amiss
<1>5. tpc[s] # "failed"
  BY DEF Ended
<1>6. \A u \in Source \ {s} : published(u)' = published(u)
  BY DEF published
<1>7. view' = [view EXCEPT ![s] = published(s)']
  BY <1>6 DEF view
<1>8. tpc'[s] # "queued" => queued' = queued \ {s}
  BY DEF queued
<1> QED BY <1>2, <1>3, <1>4, <1>5, <1>7, <1>8

\* The author's steps.
LEMMA AuthorSite ==
  ASSUME TypeOK, TypeOK', NEW s \in Source, Edit(s) \/ Delete(s)
  PROVE  Site!Edit(s)
<1>1. /\ \E c \in {Absent, Torn} \cup Content : src' = [src EXCEPT ![s] = c]
      /\ UNCHANGED <<out, phase, tpc, seen, rc>>
  BY DEF Edit, Delete, proc
<1>2. UNCHANGED <<view, queued, busy, amiss>>
  BY <1>1 DEF view, published, queued, busy, amiss
<1> QED BY <1>1, <1>2 DEF Site!Edit

\* cmd_build begins.
LEMMA StartSite ==
  ASSUME TypeOK, Phases, BuildStart
  PROVE  Site!Begin \/ Site!Nothing
<1>1. /\ phase = "idle" /\ UNCHANGED <<src, out, seen>>
      /\ tpc' = [u \in Source |-> IF src[u] = Absent THEN "off" ELSE "queued"]
  BY DEF BuildStart, disk
<1>2. \A u \in Source : tpc[u] \in Ended
  BY <1>1 DEF Phases
<1>3. view' = view
  BY <1>1, <1>2 DEF view, published, Ended
<1>4. ~busy /\ queued = {}
  BY <1>1, <1>2 DEF busy, queued, Ended
<1>5. queued' = Site!Found
  BY <1>1 DEF queued, Site!Found
<1>6. CASE phase' = "tasks"
  <2>1. busy' /\ busy' = TRUE
    BY <1>6 DEF busy
  <2>2. amiss' = FALSE
    BY <1>1, <2>1 DEF amiss
  <2> QED BY <1>1, <1>3, <1>4, <1>5, <2>1, <2>2 DEF Site!Begin
<1>7. CASE phase' # "tasks"
  <2>1. rc' = "ok" /\ phase' = phase /\ Site!Found = {}
    BY <1>7 DEF BuildStart, Site!Found
  <2>2. busy' = busy /\ amiss' = FALSE
    BY <1>4, <2>1 DEF busy, amiss
  <2> QED BY <1>1, <1>3, <1>4, <1>5, <2>1, <2>2 DEF Site!Nothing
<1> QED BY <1>6, <1>7

\* A task opens its source: this is where it is published.
LEMMA OpenSite ==
  ASSUME TypeOK, Injective, Phases, NEW s \in Source, TaskOpen(s)
  PROVE  Site!Publish(s) \/ ("enospc" \in env /\ Site!Unread(s))
<1>1. /\ UNCHANGED <<src, out, phase, rc>> /\ tpc[s] = "queued"
      /\ \A u \in Source \ {s} : tpc'[u] = tpc[u] /\ seen'[u] = seen[u]
      /\ \/ (src[s] = Absent \/ "enospc" \in env) /\ tpc'[s] = "failed"
         \/ src[s] # Absent /\ tpc'[s] \in {"lookup", "open"} /\ seen'[s] = src[s]
  BY DEF TaskOpen, disk, TypeOK, Entries
<1>2. /\ busy /\ busy' /\ queued' = queued \ {s}
      /\ amiss' <=> amiss \/ tpc'[s] = "failed"
      /\ view' = [view EXCEPT ![s] = published(s)']
  BY <1>1, TaskView DEF Ended
<1>3. s \in queued
  BY <1>1 DEF queued
<1>4. CASE tpc'[s] = "failed"
  <2>1. published(s)' = published(s)
    BY <1>1, <1>4 DEF published
  <2>2. view' = view
    BY <1>2, <2>1 DEF view
  <2>3. amiss' = TRUE /\ busy' = busy
    BY <1>1, <1>2, <1>4 DEF amiss, busy
  <2> QED BY <1>1, <1>2, <1>3, <1>4, <2>2, <2>3 DEF Site!Publish, Site!Unread
<1>5. CASE tpc'[s] # "failed"
  <2>1. src[s] # Absent /\ published(s)' = src[s]
    BY <1>1, <1>5 DEF published
  <2>2. amiss' = amiss /\ busy' = busy
    BY <1>1, <1>2, <1>5 DEF amiss, busy
  <2> QED BY <1>1, <1>2, <1>3, <2>1, <2>2 DEF Site!Publish
<1> QED BY <1>4, <1>5

\* A task goes on: what it has published stays so, or is spoilt by an edit in
\* place, or its failure is reported.
LEMMA TaskSite ==
  ASSUME Steady, Steady', Injective, NEW s \in Source, UNCHANGED env,
         TaskLookup(s) \/ TaskTruncate(s) \/ TaskCopy(s) \/ TaskPut(s)
  PROVE  SiteStep
<1> USE DEF Steady
<1>1. /\ UNCHANGED <<src, phase, seen, rc>>
      /\ tpc[s] \in {"lookup", "open", "copy", "put"}
      /\ \A u \in Source \ {s} : tpc'[u] = tpc[u] /\ out'[OutputOf[u]] = out[OutputOf[u]]
      /\ tpc'[s] # "queued"
  BY Contents
  DEF TaskLookup, TaskTruncate, TaskCopy, TaskPut, disk, TypeOK, Injective
<1>2. /\ busy /\ busy' /\ queued' = queued \ {s}
      /\ amiss' <=> amiss \/ tpc'[s] = "failed"
      /\ view' = [view EXCEPT ![s] = published(s)']
  BY <1>1, TaskView DEF Ended
<1>3. published(s) = seen[s] /\ view[s] = seen[s] /\ s \notin queued /\ queued' = queued
  BY <1>1, <1>2 DEF published, view, queued
<1>4. published(s)' \in {Absent, Torn} \cup Content
  BY OutputAssumption DEF TypeOK, Entries, published
<1>5. CASE tpc'[s] = "failed"
  <2>1. "enospc" \in env
    BY <1>1, <1>5 DEF TaskLookup, TaskTruncate, TaskCopy, TaskPut, TypeOK
  <2>2. amiss' = TRUE /\ busy' = busy
    BY <1>1, <1>2, <1>5 DEF amiss, busy
  <2>3. Site!Garble(s)
    BY <1>2, <1>4 DEF Site!Garble
  <2> QED BY <1>1, <1>2, <1>3, <2>1, <2>2, <2>3 DEF Site!Fail, SiteStep
<1>6. CASE tpc'[s] # "failed" /\ published(s)' = seen[s]
  <2>1. amiss' = amiss
    BY <1>1, <1>2, <1>6 DEF amiss, busy
  <2>2. view' = view
    BY <1>2, <1>3, <1>6 DEF view
  <2> QED BY <1>1, <1>2, <1>3, <2>1, <2>2 DEF Site!siteVars, SiteStep, busy
<1>7. CASE tpc'[s] # "failed" /\ published(s)' # seen[s]
  <2>1. tpc'[s] \in {"built", "cached"} /\ published(s)' = out'[OutputOf[s]]
    BY <1>1, <1>7 DEF TaskLookup, TaskTruncate, TaskCopy, TaskPut, TypeOK, published
  <2>2. phase' \in Building
    BY <1>1, TaskPhase DEF Ended, Building
  <2>3. src[s] # seen[s] /\ "live" \in env
    BY <1>1, <1>7, <2>1, <2>2 DEF Written
  <2>4. amiss' = amiss /\ busy' = busy
    BY <1>1, <1>2, <1>7 DEF amiss, busy
  <2>5. Site!Garble(s)
    BY <1>2, <1>4 DEF Site!Garble
  <2> QED BY <1>1, <1>2, <1>3, <2>3, <2>4, <2>5 DEF Site!Spoil, SiteStep
<1> QED BY <1>5, <1>6, <1>7

\* A step after the last task: the save goes on, or cmd_build returns.
LEMMA EndSite ==
  ASSUME TypeOK, Phases, phase \in Building, \A u \in Source : tpc[u] \in Ended,
         Return \/ (phase' \in Building /\ UNCHANGED <<seen, rc>>), UNCHANGED <<src, out, tpc>>
  PROVE  Site!Finish \/ UNCHANGED Site!siteVars
<1>1. /\ \A u \in Source : published(u)' = published(u) /\ published(u) = out[OutputOf[u]]
      /\ queued = {} /\ queued' = {}
  BY DEF published, queued, Ended
<1>2. view' = view
  BY <1>1 DEF view
<1>3. busy
  BY DEF busy, Building, Saving
<1>4. CASE Return
  <2>1. ~busy'
    BY <1>4 DEF busy, Return, Exit
  <2>2. amiss' <=> amiss
    BY <1>3, <1>4, <2>1 DEF amiss, Return, Exit
  <2>3. amiss \in BOOLEAN /\ amiss' \in BOOLEAN
    BY DEF amiss
  <2>4. busy' = FALSE
    BY <2>1 DEF busy
  <2>5. amiss' = amiss
    BY <2>2, <2>3
  <2> QED BY <1>1, <1>2, <1>3, <2>4, <2>5 DEF Site!Finish
<1>5. CASE phase' \in Building /\ UNCHANGED <<seen, rc>>
  <2>1. busy'
    BY <1>5 DEF busy, Building, Saving
  <2>2. amiss' = amiss /\ busy' = busy
    BY <1>3, <2>1 DEF amiss, busy
  <2> QED BY <1>1, <1>2, <2>2 DEF Site!siteVars
<1> QED BY <1>4, <1>5

\* The steps of save().
LEMMA SaveSite ==
  ASSUME Steady, Collect \/ SaveTruncate \/ SaveWrite \/ SaveRename
  PROVE  Site!Finish \/ UNCHANGED Site!siteVars
<1>1. phase \in Building /\ \A u \in Source : tpc[u] \in Ended
  BY DEF Steady, Phases, Collect, SaveTruncate, SaveWrite, SaveRename, Building, Saving
<1>2. Return \/ (phase' \in Building /\ UNCHANGED <<seen, rc>>)
  BY DEF Collect, SaveTruncate, SaveWrite, SaveRename, Continue, Building, Saving
<1>3. UNCHANGED <<src, out, tpc>>
  BY DEF Collect, SaveTruncate, SaveWrite, SaveRename, disk
<1> QED BY <1>1, <1>2, <1>3, EndSite DEF Steady

\* nift clean, and the end of a process that dies.
LEMMA CleanSite ==
  ASSUME Steady, TypeOK', CleanOutput \/ CleanCache \/ Crash
  PROVE  SiteStep
<1> USE DEF Steady
<1>1. CASE CleanOutput
  <2>1. /\ "clean" \in env /\ phase = "idle" /\ phase' = "clean" /\ rc' = "none"
        /\ src' = src /\ \A u \in Source : tpc'[u] = "off" /\ out'[OutputOf[u]] = Absent
    BY <1>1, OutputAssumption DEF CleanOutput
  <2>2. view' = [u \in Source |-> Absent]
    BY <2>1 DEF view, published
  <2>3. queued' = {} /\ queued = {}
    BY <2>1 DEF queued, Phases, Ended
  <2>4. ~busy /\ busy' = busy /\ amiss' = TRUE
    BY <2>1 DEF busy, amiss
  <2> QED BY <2>1, <2>2, <2>3, <2>4 DEF Site!Clean, SiteStep
<1>2. CASE CleanCache
  <2>1. phase = "clean" /\ phase' = "idle" /\ UNCHANGED <<src, out, tpc, seen, rc>>
    BY <1>2 DEF CleanCache
  <2>2. UNCHANGED <<view, queued, busy, amiss>>
    BY <2>1 DEF view, published, queued, busy, amiss
  <2> QED BY <2>1, <2>2 DEF Site!siteVars, SiteStep
<1>3. CASE Crash
  <2>1. /\ "crash" \in env /\ phase \in Building /\ phase' = "idle" /\ rc' = "none"
        /\ src' = src /\ \A u \in Source : tpc'[u] = "off"
    BY <1>3 DEF Crash, Exit, disk, TypeOK, Phase, Building, Saving
  <2>2. view' \in [Source -> {Absent, Torn} \cup Content]
    BY OutputAssumption DEF TypeOK, Entries, view, published
  <2>3. queued' = {}
    BY <2>1 DEF queued
  <2>4. busy /\ busy' = FALSE /\ amiss' = TRUE
    BY <2>1 DEF busy, amiss, Building, Saving
  <2> QED BY <2>1, <2>2, <2>3, <2>4 DEF Site!Interrupt, SiteStep
<1> QED BY <1>1, <1>2, <1>3

\* Every step is one of the abstract build.
LEMMA NextSite ==
  ASSUME Injective, Steady, Steady', [Next]_vars
  PROVE  SiteStep
<1>1. CASE UNCHANGED vars
  <2>1. UNCHANGED <<src, view, queued, busy, amiss>>
    BY <1>1 DEF vars, disk, proc, view, published, queued, busy, amiss
  <2> QED BY <2>1 DEF Site!siteVars, SiteStep
<1>2. CASE Next
  <2>0. UNCHANGED env /\ TypeOK /\ TypeOK' /\ Phases
    BY <1>2 DEF Next, Steady
  <2>1. CASE Author
    BY <2>0, <2>1, AuthorSite DEF Author, SiteStep, Site!QuietNext
  <2>2. CASE BuildStart
    BY <2>0, <2>2, StartSite DEF SiteStep, Site!QuietNext
  <2>3. ASSUME NEW s \in Source, build_one(s) PROVE SiteStep
    BY <2>0, <2>3, OpenSite, TaskSite DEF build_one, SiteStep, Site!QuietNext
  <2>4. CASE Collect \/ SaveTruncate \/ SaveWrite \/ SaveRename
    BY <2>4, SaveSite DEF SiteStep, Site!QuietNext
  <2>5. CASE cmd_clean \/ Crash
    BY <2>0, <2>5, CleanSite DEF cmd_clean
  <2> QED BY <1>2, <2>1, <2>2, <2>3, <2>4, <2>5 DEF Next, cmd_build
<1> QED BY <1>1, <1>2

\* Before the first build nothing is published.
LEMMA InitSite == Init => Site!Init
<1> SUFFICES ASSUME Init PROVE Site!Init
  OBVIOUS
<1>1. view = [s \in Source |-> Absent] /\ queued = {} /\ busy = FALSE /\ amiss = TRUE
  BY OutputAssumption DEF Init, view, published, queued, busy, amiss
<1>2. src \in [Source -> {Absent, Torn} \cup Content]
  BY DEF Init
<1> QED BY <1>1, <1>2 DEF Site!Init

\* For distinct outputs and what the code withstands the builds implement the
\* abstract build, with the cache, the tasks, torn files and crashes hidden.
THEOREM SiteRefinement ==
  ASSUME Injective, \A e \in Envs : Withstood(e)
  PROVE  Spec => ImplementsSiteBuild
<1>1. Steady /\ Steady' /\ [Next]_vars => [Site!Next]_(Site!siteVars)
  <2> SUFFICES ASSUME Steady, Steady', [Next]_vars PROVE [Site!Next]_(Site!siteVars)
    OBVIOUS
  <2>1. SiteStep
    BY NextSite
  <2> QED BY <2>1 DEF SiteStep, Site!Next
<1> QED BY <1>1, InitSite, Invariance, InvSteady, PTL DEF Spec, ImplementsSiteBuild, Site!Spec

\* Where in addition no build dies, no write fails, no mapped source is edited
\* in place and nobody cleans, the builds have the undisturbed specification
\* that FileWatcher takes them by.
THEOREM QuietRefinement ==
  ASSUME Injective, \A e \in Envs : Withstood(e) /\ e \cap {"crash", "enospc", "live", "clean"} = {}
  PROVE  Spec => Site!QuietSpec
<1>1. Steady /\ Steady' /\ [Next]_vars => [Site!QuietNext]_(Site!siteVars)
  <2> SUFFICES ASSUME Steady, Steady', [Next]_vars PROVE [Site!QuietNext]_(Site!siteVars)
    OBVIOUS
  <2>1. env \cap {"crash", "enospc", "live", "clean"} = {}
    BY DEF Steady, TypeOK
  <2>2. SiteStep
    BY NextSite
  <2> QED BY <2>1, <2>2 DEF SiteStep
<1>2. \A e \in Envs : Withstood(e)
  OBVIOUS
<1>3. Spec => []Inv
  BY <1>2, Invariance
<1> QED BY <1>1, <1>3, InitSite, InvSteady, PTL DEF Spec, Site!QuietSpec
=============================================================================
