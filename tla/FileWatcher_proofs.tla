------------------------- MODULE FileWatcher_proofs -------------------------
(***************************************************************************)
(* Theorems about FileWatcher for any set of files, any number of edits    *)
(* and any length of time.                                                 *)
(***************************************************************************)
EXTENDS FileWatcher, TLAPS

-----------------------------------------------------------------------------
(* The inductive invariant                                                 *)

\* Neither the running scan nor the recorded one is ahead of the files, and no
\* file is ahead of the clock.
InTime ==
  \A f \in File : mtime[f] <= clock /\ seen[f] <= mtime[f] /\ mtimes[f] <= mtime[f]

\* The watcher's thread exists only after the baseline.
ThreadServes == wpc # "off" => main \in {"serve", "stopping", "exited"}

\* A change of a paced file that the baseline scan came too early for is newer
\* than what the baseline holds.
BaselineOlder ==
  /\ main \in {"discover", "build"} => \A f \in File : ~late[f]
  /\ main = "baseline" =>
       \A f \in File : late[f] => f \notin walk /\ (f \in Paced => seen[f] < mtime[f])

\* RecordedIsPublished for the files the author paces, whatever happens to the
\* others.
PacedIsPublished == \A f \in Paced \ Ignored : Recorded(f)

IInv == TypeOK /\ InTime /\ ThreadServes /\ BaselineOlder /\ PacedIsPublished
-----------------------------------------------------------------------------
(* Types                                                                   *)

\* The empty record of a scan, and of the outputs, has their types.
LEMMA UnseenType == Unseen \in [File -> 0 .. MaxTime] /\ Unseen \in [File -> 0 .. MaxEdit]
BY BoundAssumption DEF Unseen, None

\* The types hold at the start.
LEMMA InitTypeOK == Init => TypeOK
<1> SUFFICES ASSUME Init PROVE TypeOK
  OBVIOUS
<1>1. clock \in 1 .. MaxTime /\ edits \in 1 .. MaxEdit
  BY BoundAssumption DEF Init
<1>2. ver \in [File -> 0 .. MaxEdit] /\ mtime \in [File -> 0 .. MaxTime]
  BY BoundAssumption DEF Init, None
<1> QED BY <1>1, <1>2, UnseenType DEF Init, TypeOK

\* Every step keeps the types.
LEMMA TypeStep == TypeOK /\ [Next]_vars => TypeOK'
<1> SUFFICES ASSUME TypeOK, [Next]_vars PROVE TypeOK'
  OBVIOUS
<1> USE BoundAssumption DEF TypeOK, None
<1>1. CASE Tick
  BY <1>1 DEF Tick, build, watcher
<1>2. ASSUME NEW f \in File, Edit(f) PROVE TypeOK'
  BY <1>2 DEF Edit, Touch, Watched, build, watcher
<1>3. ASSUME NEW f \in File, Delete(f) PROVE TypeOK'
  BY <1>3 DEF Delete, Touch, Watched, build, watcher
<1>4. CASE RemoveRoot
  BY <1>4 DEF RemoveRoot, build, watcher
<1>5. ASSUME NEW f \in File, BuildFile(f) PROVE TypeOK'
  BY <1>5 DEF BuildFile, author, watcher
<1>6. CASE InitialBuild
  BY <1>6 DEF InitialBuild, Discover, author, watcher
<1>7. CASE StartWatching
  BY <1>7 DEF StartWatching, BeginWalk, author, build
<1>8. CASE Baseline
  BY <1>8 DEF Baseline, Unseen, author, build
<1>9. CASE Stop \/ Join
  BY <1>9 DEF Stop, Join, author, build, watcher
<1>10. ASSUME NEW f \in File, Visit(f) PROVE TypeOK'
  BY <1>10 DEF Visit, author, build
<1>11. CASE Loop
  BY <1>11 DEF Loop, BeginWalk, author, build
<1>12. CASE Commit
  BY <1>12, UnseenType DEF Commit, Discover, author, build
<1>13. CASE Rebuilt \/ Sleep
  BY <1>13 DEF Rebuilt, Sleep, author, build
<1>14. CASE UNCHANGED vars
  BY <1>14 DEF vars, author, build, watcher
<1> QED
  BY <1>1, <1>2, <1>3, <1>4, <1>5, <1>6, <1>7, <1>8, <1>9, <1>10, <1>11, <1>12, <1>13, <1>14
  DEF Next, Author, cmd_serve, watch

\* The variables of cmd_serve and of the watcher keep their types.
THEOREM TypeCorrect == Spec => []TypeOK
BY InitTypeOK, TypeStep, PTL DEF Spec
-----------------------------------------------------------------------------
(* Invariance                                                              *)

\* The invariant holds at the start.
LEMMA InitIInv == Init => IInv
BY InitTypeOK, BoundAssumption
DEF Init, IInv, InTime, ThreadServes, BaselineOlder, PacedIsPublished, Recorded, None, Unseen

\* A change of f leaves the other files' records alone, and makes the mtime of
\* f, if it is paced, newer than everything recorded of it.
LEMMA TouchStep ==
  ASSUME IInv, TypeOK', NEW f \in File, Touch(f),
         \A g \in File \ {f} : ver'[g] = ver[g]
  PROVE  IInv'
<1> USE PacedAssumption DEF IInv
<1>1. /\ UNCHANGED <<clock, main, todo, out, wpc, walk, seen, mtimes>>
      /\ mtime'[f] = clock /\ mtime[f] <= clock /\ (f \in Paced => mtime[f] < clock)
      /\ \A g \in File \ {f} : mtime'[g] = mtime[g] /\ late'[g] = late[g]
      /\ late'[f] => late[f] \/ Watched(f)
  BY DEF Touch, TypeOK, InTime, build, watcher
<1>2. InTime'
  BY <1>1 DEF InTime, TypeOK
<1>3. f \in Paced => mtimes[f] < mtime'[f] /\ seen[f] < mtime'[f]
  BY <1>1 DEF InTime, TypeOK
<1>4. ThreadServes' /\ BaselineOlder'
  BY <1>1, <1>3 DEF ThreadServes, BaselineOlder, Watched, TypeOK
<1>5. PacedIsPublished'
  <2> SUFFICES ASSUME NEW g \in Paced \ Ignored, main' = "serve", late'[g], ver'[g] # None,
                      mtimes'[g] = mtime'[g], g \notin todo'
               PROVE  out'[g] = ver'[g]
    BY DEF PacedIsPublished, Recorded
  <2>1. g # f
    BY <1>1, <1>3 DEF TypeOK
  <2> QED BY <1>1, <2>1 DEF PacedIsPublished, Recorded
<1> QED BY <1>2, <1>4, <1>5

\* Every step keeps the invariant.
LEMMA NextIInv == IInv /\ [Next]_vars => IInv'
<1> SUFFICES ASSUME IInv, [Next]_vars PROVE IInv'
  OBVIOUS
<1>0. TypeOK /\ TypeOK'
  BY TypeStep DEF IInv
<1> USE PacedAssumption DEF IInv
<1>1. CASE Tick
  BY <1>0, <1>1 DEF Tick, build, watcher, TypeOK, InTime, ThreadServes, BaselineOlder,
                    PacedIsPublished, Recorded
<1>2. ASSUME NEW f \in File, Edit(f) \/ Delete(f) PROVE IInv'
  <2>1. Touch(f) /\ \A g \in File \ {f} : ver'[g] = ver[g]
    BY <1>0, <1>2 DEF Edit, Delete, TypeOK
  <2> QED BY <1>0, <2>1, TouchStep
<1>3. CASE RemoveRoot
  BY <1>0, <1>3 DEF RemoveRoot, build, watcher, InTime, ThreadServes, BaselineOlder,
                    PacedIsPublished, Recorded
<1>4. ASSUME NEW f \in File, BuildFile(f) PROVE IInv'
  <2>1. InTime' /\ ThreadServes' /\ BaselineOlder'
    BY <1>4 DEF BuildFile, author, watcher, InTime, ThreadServes, BaselineOlder
  <2>2. PacedIsPublished'
    BY <1>0, <1>4 DEF BuildFile, author, watcher, PacedIsPublished, Recorded, TypeOK
  <2> QED BY <1>0, <2>1, <2>2
<1>5. CASE InitialBuild
  BY <1>0, <1>5 DEF InitialBuild, author, watcher, InTime, ThreadServes, BaselineOlder,
                    PacedIsPublished, Recorded
<1>6. CASE StartWatching
  BY <1>0, <1>6 DEF StartWatching, author, build, InTime, ThreadServes, BaselineOlder,
                    PacedIsPublished, Recorded
<1>7. CASE Baseline
  <2>1. InTime' /\ ThreadServes' /\ BaselineOlder'
    BY <1>0, <1>7 DEF Baseline, author, build, Unseen, None, TypeOK, InTime, ThreadServes,
                      BaselineOlder
  <2>2. PacedIsPublished'
    BY <1>0, <1>7 DEF Baseline, author, build, TypeOK, BaselineOlder, PacedIsPublished, Recorded
  <2> QED BY <1>0, <2>1, <2>2
<1>8. CASE Stop \/ Join
  BY <1>0, <1>8 DEF Stop, Join, author, build, watcher, InTime, ThreadServes,
                    BaselineOlder, PacedIsPublished, Recorded
<1>9. ASSUME NEW f \in File, Visit(f) PROVE IInv'
  BY <1>0, <1>9 DEF Visit, author, build, TypeOK, None, InTime, ThreadServes, BaselineOlder,
                    PacedIsPublished, Recorded
<1>10. CASE Loop
  BY <1>0, <1>10 DEF Loop, author, build, InTime, ThreadServes, BaselineOlder,
                     PacedIsPublished, Recorded
<1>11. CASE Commit
  <2>1. InTime' /\ ThreadServes' /\ BaselineOlder'
    BY <1>0, <1>11 DEF Commit, author, Unseen, None, TypeOK, InTime, ThreadServes,
                       BaselineOlder
  <2>2. PacedIsPublished'
    <3>1. CASE seen = mtimes
      BY <1>11, <3>1 DEF Commit, author, build, PacedIsPublished, Recorded
    <3>2. CASE seen # mtimes
      BY <1>11, <3>2 DEF Commit, author, Discover, PacedIsPublished, Recorded
    <3> QED BY <3>1, <3>2
  <2> QED BY <1>0, <2>1, <2>2
<1>12. CASE Rebuilt \/ Sleep
  BY <1>0, <1>12 DEF Rebuilt, Sleep, author, build, InTime, ThreadServes, BaselineOlder,
                     PacedIsPublished, Recorded
<1>13. CASE UNCHANGED vars
  BY <1>0, <1>13 DEF vars, author, build, watcher, InTime, ThreadServes, BaselineOlder,
                     PacedIsPublished, Recorded
<1> QED
  BY <1>1, <1>2, <1>3, <1>4, <1>5, <1>6, <1>7, <1>8, <1>9, <1>10, <1>11, <1>12, <1>13
  DEF Next, Author, cmd_serve, watch

\* A file that the author changes at most once per second is never overlooked,
\* whatever is done to the others: the mtime that a scan records is never that
\* of a content which no rebuild has published or is about to publish.
THEOREM PacedCorrect == Spec => []PacedIsPublished
<1>1. IInv => PacedIsPublished
  BY DEF IInv
<1> QED BY InitIInv, NextIInv, <1>1, PTL DEF Spec

\* An author who paces all files is never overlooked.
THEOREM RecordedCorrect == ASSUME File \subseteq Paced PROVE Spec => []RecordedIsPublished
<1>1. PacedIsPublished => RecordedIsPublished
  BY DEF PacedIsPublished, RecordedIsPublished
<1> QED BY <1>1, PacedCorrect, PTL
-----------------------------------------------------------------------------
(* Use of SiteBuild                                                        *)

\* Every step is one of an undisturbed abstract build.
LEMMA NextSite ==
  TypeOK /\ ThreadServes /\ TypeOK' /\ [Next]_vars => [Site!QuietNext]_(Site!siteVars)
<1> SUFFICES ASSUME TypeOK, ThreadServes, TypeOK', [Next]_vars
             PROVE  Site!QuietNext \/ UNCHANGED Site!siteVars
  OBVIOUS
<1> USE DEF ThreadServes, busy, amiss
<1>1. CASE UNCHANGED <<ver, out, todo, failed, main, wpc>>
  BY <1>1 DEF Site!siteVars
<1>2. ASSUME NEW f \in File, Edit(f) \/ Delete(f) PROVE Site!Edit(f)
  BY <1>2 DEF Edit, Delete, Touch, build, watcher, TypeOK, None, Site!Edit
<1>3. ASSUME NEW f \in File, BuildFile(f) PROVE Site!Publish(f)
  BY <1>3 DEF BuildFile, author, watcher, TypeOK, Site!Publish
<1>4. CASE InitialBuild
  BY <1>4 DEF InitialBuild, Discover, author, watcher, TypeOK, Site!Begin, Site!Found, Site!QuietNext
<1>5. CASE StartWatching
  BY <1>5 DEF StartWatching, author, build, TypeOK, Site!Finish, Site!QuietNext
<1>6. CASE Baseline \/ Stop \/ Join
  BY <1>6 DEF Baseline, Stop, Join, author, build, watcher, TypeOK, Site!siteVars
<1>7. CASE Loop \/ Sleep
  BY <1>7 DEF Loop, Sleep, author, build, TypeOK, Site!siteVars
<1>8. CASE Commit
  BY <1>8 DEF Commit, Discover, author, build, TypeOK, Site!Begin, Site!Found, Site!QuietNext,
              Site!siteVars
<1>9. CASE Rebuilt
  BY <1>9 DEF Rebuilt, author, build, TypeOK, Site!Finish, Site!QuietNext
<1>10. CASE Tick \/ RemoveRoot
  BY <1>1, <1>10 DEF Tick, RemoveRoot, build, watcher
<1>11. ASSUME NEW f \in File, Visit(f) PROVE UNCHANGED Site!siteVars
  BY <1>11 DEF Visit, author, build, Site!siteVars
<1>12. CASE UNCHANGED vars
  BY <1>1, <1>12 DEF vars, author, build, watcher
<1>13. CASE Author
  BY <1>2, <1>10, <1>13 DEF Author, Site!QuietNext
<1>14. CASE cmd_serve
  BY <1>3, <1>4, <1>5, <1>6, <1>11, <1>14 DEF cmd_serve, Site!QuietNext
<1>15. CASE watch
  BY <1>7, <1>8, <1>9, <1>15 DEF watch
<1> QED BY <1>12, <1>13, <1>14, <1>15 DEF Next

\* cmd_serve and the watcher use builds as SiteBuild offers them, which is how
\* IncrementalBuild is known to behave: one at a time, begun by a discovery and
\* left to its end.
THEOREM BuildUse == Spec => UsesSiteBuild
<1>1. Init => Site!Init
  BY BoundAssumption DEF Init, Unseen, None, busy, amiss, Site!Init
<1>2. IInv => TypeOK /\ ThreadServes
  BY DEF IInv
<1> QED BY <1>1, <1>2, InitIInv, NextIInv, NextSite, PTL DEF Spec, UsesSiteBuild, Site!QuietSpec
=============================================================================
