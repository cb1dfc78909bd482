------------------------ MODULE NativeWatcher_proofs ------------------------
(***************************************************************************)
(* Theorems about NativeWatcher for any set of paths, any tree of          *)
(* directories and any limits of the kernel.                               *)
(***************************************************************************)
EXTENDS NativeWatcher, SequenceTheorems, WellFoundedInduction, TLAPS

-----------------------------------------------------------------------------
(* The inductive invariant                                                 *)

Items(seq) == {seq[k] : k \in 1 .. Len(seq)}
Queued == Items(queue)
Made == FirstMade + ops

\* The directories are a tree, and those to be made are new.
Disk == IsTree(dir) /\ dir[Root] # None /\ \A p \in Path : dir[p] <= Made

\* A directory has one watch.
Kernel ==
  /\ \A v, w \in Wd : watch[v] = watch[w] /\ watch[v] # None => v = w
  /\ \A w \in Wd : watch[w] <= Made

\* Nothing refers to a descriptor that was not given out.
Fresh ==
  \A w \in Wd : w >= nextwd =>
    /\ watch[w] = None /\ wd_to_path[w] = NoPath
    /\ \A p \in Path : path_to_wd[p] # w
    /\ \A e \in Queued : e[2] # w

\* A stopped watcher is empty, and only a walk or a batch has directories to
\* deal with.
Phases ==
  /\ owner = "stopped" => watch = NoWatch /\ queue = <<>> /\ path_to_wd = NoWds /\ unsure = {}
  /\ owner \in {"stopped", "starting"} => thread = "none"
  /\ thread # "apply" => removed_dirs = {}
  /\ thread # "apply" /\ owner # "starting" => new_dirs = {} /\ opened = {}

\* The watcher looks at nothing outside of its root.
Inside ==
  /\ \A p \in Path : path_to_wd[p] # None => p \in Below[Root]
  /\ Pending \union opened \subseteq Below[Root]

\* What is below an unsure path is unsure.
Closed == \A p \in Path : Len(p) > 1 /\ Parent(p) \in unsure => p \in unsure

\* What the watcher holds of p is right: nobody else has its descriptor, which
\* watches what is at p.  If that is gone, the removal is on its way.
Known(p) ==
  path_to_wd[p] # None =>
    /\ wd_to_path[path_to_wd[p]] = p
    /\ \A q \in Path : path_to_wd[q] = path_to_wd[p] => q = p
    /\ watch[path_to_wd[p]] = dir[p]
    /\ dir[p] = None => p \in removed_dirs \/ <<"self", path_to_wd[p], ".">> \in Queued

\* A directory that is there is watched under p or not at all, and nothing that
\* would remove it is on its way.
Found(p) ==
  dir[p] # None =>
    /\ \A w \in Wd : watch[w] = dir[p] => path_to_wd[p] = w
    /\ p \notin removed_dirs
    /\ \A e \in Queued : e[1] \in {"gone", "self"} => ~About(e, p)

\* A directory that is not watched will be visited, or listed, or there is an
\* event of it, or the directory it is in is not watched either.
Due(p) ==
  p \in Seen /\ owner # "stopped" /\ dir[p] # None /\ path_to_wd[p] = None =>
    \/ p \in Pending
    \/ /\ p # Root
       /\ \/ Parent(p) \in opened
          \/ path_to_wd[Parent(p)] = None
          \/ <<"new", path_to_wd[Parent(p)], Base(p)>> \in Queued

Sure == Below[Root] \ unsure
Right == \A p \in Sure : Known(p) /\ Found(p) /\ Due(p)

State == Disk /\ Kernel /\ Fresh /\ Phases /\ Inside /\ Closed
IInv == TypeOK /\ NoStrayWatch /\ State /\ Right
-----------------------------------------------------------------------------
(* Paths                                                                   *)

\* A path has at least one name.
LEMMA PathType == ASSUME NEW p \in Path PROVE p \in Seq(Name) /\ Len(p) \in Nat /\ Len(p) >= 1
<1>1. p \in Seq(Name) /\ p # <<>>
  BY PathAssumption DEF NoPath
<1>2. Len(p) \in Nat \ {0}
  BY <1>1, EmptySeq
<1> QED BY <1>1, <1>2

\* Two paths with the same names are the same.
LEMMA SamePath ==
  ASSUME NEW p \in Seq(Name), NEW q \in Seq(Name), Len(p) = Len(q),
         \A i \in 1 .. Len(p) : p[i] = q[i]
  PROVE  p = q
BY SeqEqual

\* The parent has all names but the last.
LEMMA ParentIs ==
  ASSUME NEW p \in Seq(Name), Len(p) >= 1
  PROVE  /\ Parent(p) \in Seq(Name)
         /\ Len(Parent(p)) = Len(p) - 1
         /\ \A i \in 1 .. Len(p) - 1 : Parent(p)[i] = p[i]
<1>0. Len(p) \in Nat
  BY LenProperties
<1>1. Len(p) \in Nat /\ \A i \in 1 .. Len(p) - 1 : p[i] \in Name
  BY LenProperties, ElementOfSeq
<1> DEFINE s == SubSeq(p, 1, Len(p) - 1)
<1>2. /\ s \in Seq(Name)
      /\ Len(s) = IF 1 <= Len(p) - 1 THEN (Len(p) - 1) - 1 + 1 ELSE 0
      /\ \A i \in 1 .. (Len(p) - 1) - 1 + 1 : s[i] = p[1 + i - 1]
  BY <1>1, SubSeqProperties
<1> HIDE DEF s
<1>3. Len(s) = Len(p) - 1
  <2>1. CASE Len(p) = 1
    BY <1>2, <2>1
  <2>2. CASE Len(p) # 1
    <3>1. 1 <= Len(p) - 1 /\ (Len(p) - 1) - 1 + 1 = Len(p) - 1
      BY <1>0, <2>2
    <3> QED BY <1>2, <3>1
  <2> QED BY <2>1, <2>2
<1>4. ASSUME NEW i \in 1 .. Len(p) - 1 PROVE s[i] = p[i]
  <2>1. i \in 1 .. (Len(p) - 1) - 1 + 1 /\ 1 + i - 1 = i
    BY <1>1
  <2> QED BY <1>2, <2>1
<1> QED BY <1>2, <1>3, <1>4 DEF Parent, s

\* The parent of a path that is not at the top is a path.
LEMMA ParentPath == ASSUME NEW p \in Path, Len(p) > 1 PROVE Parent(p) \in Path
BY PathAssumption

\* A path at the top has no parent.
LEMMA TopParent == ASSUME NEW p \in Path, Parent(p) # NoPath PROVE Len(p) > 1
<1>1. Len(p) # 1
  <2> SUFFICES ASSUME Len(p) = 1 PROVE FALSE
    OBVIOUS
  <2>1. Parent(p) = SubSeq(p, 1, 0)
    BY DEF Parent
  <2>2. SubSeq(p, 1, 0) = <<>>
    BY SubSeqEmpty
  <2> QED BY <2>1, <2>2 DEF NoPath
<1>2. Len(p) \in Nat /\ Len(p) >= 1
  BY PathType
<1> QED BY <1>1, <1>2

\* A path is given by its parent and its last name.
LEMMA Split ==
  ASSUME NEW p \in Path, NEW q \in Path, Len(p) > 1, Len(q) > 1,
         Parent(p) = Parent(q), Base(p) = Base(q)
  PROVE  p = q
<1>1. p \in Seq(Name) /\ q \in Seq(Name) /\ Len(p) \in Nat /\ Len(q) \in Nat
  BY PathType
<1>2. Len(p) = Len(q)
  BY <1>1, ParentIs
<1>3. \A i \in 1 .. Len(p) - 1 : p[i] = q[i]
  BY <1>1, <1>2, ParentIs
<1>4. p[Len(p)] = q[Len(p)]
  BY <1>2 DEF Base
<1>5. \A i \in 1 .. Len(p) : p[i] = q[i]
  BY <1>1, <1>3, <1>4
<1> QED BY <1>1, <1>2, <1>5, SamePath

\* A path is below those that it begins with.
LEMMA BelowIs ==
  ASSUME NEW p \in Path, NEW q
  PROVE  q \in Below[p] <=>
           q \in Path /\ Len(p) <= Len(q) /\ \A i \in 1 .. Len(p) : q[i] = p[i]
<1>1. CASE q \in Path /\ Len(p) <= Len(q)
  <2>1. p \in Seq(Name) /\ q \in Seq(Name) /\ Len(p) \in Nat /\ Len(q) \in Nat
    BY <1>1, PathType
  <2>2. \A i \in 1 .. Len(p) : q[i] \in Name
    BY <1>1, <2>1, ElementOfSeq
  <2> DEFINE s == SubSeq(q, 1, Len(p))
  <2>3. s \in Seq(Name) /\ Len(s) = (IF 1 <= Len(p) THEN Len(p) - 1 + 1 ELSE 0)
        /\ \A i \in 1 .. Len(p) - 1 + 1 : s[i] = q[1 + i - 1]
    BY <2>1, <2>2, SubSeqProperties
  <2>4. Len(s) = Len(p) /\ \A i \in 1 .. Len(p) : s[i] = q[i]
    BY <2>1, <2>3
  <2> HIDE DEF s
  <2>5. s = p <=> \A i \in 1 .. Len(p) : q[i] = p[i]
    BY <2>1, <2>3, <2>4, SamePath
  <2> QED BY <1>1, <2>5 DEF Below, s
<1>2. CASE ~(q \in Path /\ Len(p) <= Len(q))
  BY <1>2 DEF Below
<1> QED BY <1>1, <1>2

\* Going up from a path below y one meets y.
LEMMA Climb ==
  ASSUME NEW y \in Path, NEW p \in Below[y], p # y
  PROVE  Len(p) > 1 /\ Len(p) > Len(y) /\ Parent(p) \in Below[y]
<1>1. p \in Path /\ Len(y) <= Len(p) /\ \A i \in 1 .. Len(y) : p[i] = y[i]
  BY BelowIs
<1>2. p \in Seq(Name) /\ y \in Seq(Name) /\ Len(p) \in Nat /\ Len(y) \in Nat /\ Len(y) >= 1
  BY <1>1, PathType
<1>3. Len(p) # Len(y)
  BY <1>1, <1>2, SamePath
<1>4. Len(p) > 1 /\ Len(p) > Len(y)
  BY <1>1, <1>2, <1>3
<1>5. Parent(p) \in Path /\ Len(Parent(p)) = Len(p) - 1
      /\ \A i \in 1 .. Len(p) - 1 : Parent(p)[i] = p[i]
  BY <1>1, <1>2, <1>4, ParentPath, ParentIs
<1>6. Len(y) <= Len(Parent(p)) /\ \A i \in 1 .. Len(y) : Parent(p)[i] = y[i]
  BY <1>1, <1>2, <1>4, <1>5
<1> QED BY <1>4, <1>5, <1>6, BelowIs

\* A path is below itself, and with its parent; it is not above itself.
LEMMA Descend ==
  /\ \A y \in Path : y \in Below[y]
  /\ \A y, p \in Path : Len(p) > 1 /\ Parent(p) \in Below[y] => p \in Below[y]
  /\ \A p \in Path : Len(p) > 1 => Parent(p) \notin Below[p]
<1>1. ASSUME NEW y \in Path PROVE y \in Below[y]
  BY PathType, BelowIs
<1>2. ASSUME NEW y \in Path, NEW p \in Path, Len(p) > 1 PROVE Parent(p) \in Below[y] => p \in Below[y]
  <2>1. p \in Seq(Name) /\ Len(p) \in Nat /\ Len(y) \in Nat
    BY PathType
  <2>2. Len(Parent(p)) = Len(p) - 1 /\ \A i \in 1 .. Len(p) - 1 : Parent(p)[i] = p[i]
    BY <1>2, <2>1, ParentIs
  <2> SUFFICES ASSUME Parent(p) \in Below[y] PROVE p \in Below[y]
    OBVIOUS
  <2>3. Len(y) <= Len(Parent(p)) /\ \A i \in 1 .. Len(y) : Parent(p)[i] = y[i]
    BY BelowIs
  <2>4. Len(y) <= Len(p) /\ \A i \in 1 .. Len(y) : p[i] = y[i]
    BY <2>1, <2>2, <2>3
  <2> QED BY <2>4, BelowIs
<1>3. ASSUME NEW p \in Path, Len(p) > 1 PROVE Parent(p) \notin Below[p]
  <2>1. Len(Parent(p)) = Len(p) - 1 /\ Len(p) \in Nat
    BY <1>3, PathType, ParentIs
  <2> QED BY <2>1, BelowIs
<1> QED BY <1>1, <1>2, <1>3

\* Of two paths above a third, one is above the other.
LEMMA Comparable ==
  ASSUME NEW x \in Path, NEW y \in Path, NEW p \in Below[x], p \in Below[y]
  PROVE  x \in Below[y] \/ y \in Below[x]
<1>1. \A i \in 1 .. Len(x) : p[i] = x[i]
  BY BelowIs
<1>2. \A i \in 1 .. Len(y) : p[i] = y[i]
  BY BelowIs
<1>3. Len(x) \in Nat /\ Len(y) \in Nat
  BY PathType
<1>4. CASE Len(x) <= Len(y)
  <2>1. \A i \in 1 .. Len(x) : y[i] = x[i]
    BY <1>1, <1>2, <1>3, <1>4
  <2> QED BY <1>4, <2>1, BelowIs
<1>5. CASE Len(y) <= Len(x)
  <2>1. \A i \in 1 .. Len(y) : x[i] = y[i]
    BY <1>1, <1>2, <1>3, <1>5
  <2> QED BY <1>5, <2>1, BelowIs
<1> QED BY <1>3, <1>4, <1>5

\* Where a path below y was before the move: the names of x come first.
LEMMA MovedIs ==
  ASSUME NEW x \in Path, NEW y \in Path, NEW p \in Below[y]
  PROVE  /\ Moved(x, y, p) \in Seq(Name)
         /\ Len(Moved(x, y, p)) = Len(x) + (Len(p) - Len(y))
         /\ \A i \in 1 .. Len(x) : Moved(x, y, p)[i] = x[i]
         /\ \A j \in 1 .. Len(p) - Len(y) : Moved(x, y, p)[Len(x) + j] = p[Len(y) + j]
<1>1. p \in Path /\ Len(y) <= Len(p)
  BY BelowIs
<1>2. /\ p \in Seq(Name) /\ x \in Seq(Name) /\ Len(p) \in Nat /\ Len(x) \in Nat /\ Len(y) \in Nat
  BY <1>1, PathType
<1> DEFINE s == SubSeq(p, Len(y) + 1, Len(p))
           n == Len(p) - Len(y)
<1>3. n \in Nat
  BY <1>1, <1>2
<1>4. \A i \in Len(y) + 1 .. Len(p) : p[i] \in Name
  <2>1. \A i \in Len(y) + 1 .. Len(p) : i \in 1 .. Len(p)
    BY <1>2
  <2> QED BY <1>2, <2>1, ElementOfSeq
<1>5. /\ s \in Seq(Name)
      /\ Len(s) = IF Len(y) + 1 <= Len(p) THEN Len(p) - (Len(y) + 1) + 1 ELSE 0
      /\ \A i \in 1 .. Len(p) - (Len(y) + 1) + 1 : s[i] = p[(Len(y) + 1) + i - 1]
  <2>1. Len(y) + 1 \in Int /\ Len(p) \in Int
    BY <1>2
  <2> QED BY <1>4, <2>1, SubSeqProperties
<1> HIDE DEF s
<1>6. Len(s) = n
  <2>1. CASE Len(y) + 1 <= Len(p)
    BY <1>2, <1>5, <2>1
  <2>2. CASE ~(Len(y) + 1 <= Len(p))
    <3>1. n = 0
      BY <1>1, <1>2, <2>2
    <3> QED BY <1>5, <2>2, <3>1
  <2> QED BY <2>1, <2>2
<1>7. ASSUME NEW i \in 1 .. n PROVE s[i] = p[Len(y) + i]
  <2>1. i \in 1 .. Len(p) - (Len(y) + 1) + 1 /\ (Len(y) + 1) + i - 1 = Len(y) + i
    BY <1>2, <1>3
  <2> QED BY <1>5, <2>1
<1> HIDE DEF n
<1>8. /\ x \o s \in Seq(Name) /\ Len(x \o s) = Len(x) + n
      /\ \A i \in 1 .. Len(x) + n : (x \o s)[i] = IF i <= Len(x) THEN x[i] ELSE s[i - Len(x)]
  BY <1>2, <1>5, <1>6, ConcatProperties
<1>9. ASSUME NEW i \in 1 .. Len(x) PROVE (x \o s)[i] = x[i]
  <2>1. i \in 1 .. Len(x) + n /\ i <= Len(x)
    BY <1>2, <1>3
  <2> QED BY <1>8, <2>1
<1>10. ASSUME NEW i \in 1 .. n PROVE (x \o s)[Len(x) + i] = p[Len(y) + i]
  <2>1. Len(x) + i \in 1 .. Len(x) + n /\ ~(Len(x) + i <= Len(x)) /\ (Len(x) + i) - Len(x) = i
    BY <1>2, <1>3
  <2> QED BY <1>7, <1>8, <2>1
<1> QED BY <1>8, <1>9, <1>10 DEF Moved, s, n

\* A move keeps paths apart, parents parents, and takes x to y.
LEMMA MovedTree ==
  ASSUME NEW x \in Path, NEW y \in Path
  PROVE  /\ \A p, q \in Below[y] : Moved(x, y, p) = Moved(x, y, q) => p = q
         /\ \A p \in Below[y] : Moved(x, y, p) \in Path => Moved(x, y, p) \in Below[x]
         /\ \A p \in Below[y] : p # y =>
              Len(Moved(x, y, p)) > 1 /\ Moved(x, y, Parent(p)) = Parent(Moved(x, y, p))
<1>0. Len(x) \in Nat /\ Len(y) \in Nat /\ Len(x) >= 1 /\ Len(y) >= 1
  BY PathType
<1>1. ASSUME NEW p \in Below[y], NEW q \in Below[y], Moved(x, y, p) = Moved(x, y, q) PROVE p = q
  <2>1. /\ p \in Path /\ Len(y) <= Len(p) /\ \A i \in 1 .. Len(y) : p[i] = y[i]
        /\ q \in Path /\ Len(y) <= Len(q) /\ \A i \in 1 .. Len(y) : q[i] = y[i]
    BY BelowIs
  <2>2. p \in Seq(Name) /\ q \in Seq(Name) /\ Len(p) \in Nat /\ Len(q) \in Nat
    BY <2>1, PathType
  <2>3. Len(x) + (Len(p) - Len(y)) = Len(x) + (Len(q) - Len(y))
    BY <1>1, MovedIs
  <2>4. Len(p) = Len(q)
    BY <1>0, <2>2, <2>3
  <2>5. ASSUME NEW j \in 1 .. Len(p) - Len(y) PROVE p[Len(y) + j] = q[Len(y) + j]
    <3>1. Moved(x, y, p)[Len(x) + j] = p[Len(y) + j]
      BY MovedIs
    <3>2. j \in 1 .. Len(q) - Len(y)
      BY <2>4
    <3>3. Moved(x, y, q)[Len(x) + j] = q[Len(y) + j]
      BY <3>2, MovedIs
    <3> QED BY <1>1, <3>1, <3>3
  <2>6. ASSUME NEW i \in 1 .. Len(p) PROVE p[i] = q[i]
    <3>1. CASE i <= Len(y)
      BY <1>0, <2>1, <3>1
    <3>2. CASE ~(i <= Len(y))
      <4>1. i - Len(y) \in 1 .. Len(p) - Len(y) /\ Len(y) + (i - Len(y)) = i
        BY <1>0, <2>2, <3>2
      <4> QED BY <2>5, <4>1
    <3> QED BY <3>1, <3>2
  <2> QED BY <2>2, <2>4, <2>6, SamePath
<1>2. ASSUME NEW p \in Below[y], Moved(x, y, p) \in Path PROVE Moved(x, y, p) \in Below[x]
  <2>1. p \in Path /\ Len(y) <= Len(p)
    BY BelowIs
  <2>2. Len(p) \in Nat
    BY <2>1, PathType
  <2>3. Len(x) <= Len(Moved(x, y, p))
    BY <1>0, <2>1, <2>2, MovedIs
  <2> QED BY <1>2, <2>3, MovedIs, BelowIs
<1>3. ASSUME NEW p \in Below[y], p # y
      PROVE  Len(Moved(x, y, p)) > 1 /\ Moved(x, y, Parent(p)) = Parent(Moved(x, y, p))
  <2> DEFINE m == Moved(x, y, p)
             o == Moved(x, y, Parent(p))
  <2>1. p \in Path /\ Len(p) > Len(y) /\ Parent(p) \in Below[y]
    BY <1>3, Climb, BelowIs
  <2>2. p \in Seq(Name) /\ Len(p) \in Nat /\ Len(p) >= 1
    BY <2>1, PathType
  <2>3. Len(Parent(p)) = Len(p) - 1 /\ \A i \in 1 .. Len(p) - 1 : Parent(p)[i] = p[i]
    BY <2>2, ParentIs
  <2>4. /\ m \in Seq(Name) /\ Len(m) = Len(x) + (Len(p) - Len(y))
        /\ \A i \in 1 .. Len(x) : m[i] = x[i]
        /\ \A j \in 1 .. Len(p) - Len(y) : m[Len(x) + j] = p[Len(y) + j]
    BY MovedIs
  <2>5. /\ o \in Seq(Name) /\ Len(o) = Len(x) + (Len(Parent(p)) - Len(y))
        /\ \A i \in 1 .. Len(x) : o[i] = x[i]
        /\ \A j \in 1 .. Len(Parent(p)) - Len(y) : o[Len(x) + j] = Parent(p)[Len(y) + j]
    BY <2>1, MovedIs
  <2> HIDE DEF m, o
  <2>6. Len(m) > 1 /\ Len(m) >= 1 /\ Len(o) = Len(m) - 1 /\ Len(m) \in Nat
    BY <1>0, <2>1, <2>2, <2>3, <2>4, <2>5
  <2>7. /\ Parent(m) \in Seq(Name) /\ Len(Parent(m)) = Len(m) - 1
        /\ \A i \in 1 .. Len(m) - 1 : Parent(m)[i] = m[i]
    BY <2>4, <2>6, ParentIs
  <2>8. ASSUME NEW i \in 1 .. Len(m) - 1 PROVE o[i] = m[i]
    <3>1. CASE i <= Len(x)
      BY <1>0, <2>4, <2>5, <3>1
    <3>2. CASE ~(i <= Len(x))
      <4> DEFINE j == i - Len(x)
      <4>1. /\ j \in 1 .. (Len(p) - 1) - Len(y) /\ j \in 1 .. Len(p) - Len(y) /\ Len(x) + j = i
            /\ Len(y) + j \in 1 .. Len(p) - 1
        BY <1>0, <2>1, <2>2, <2>4, <3>2
      <4> HIDE DEF j
      <4> QED BY <2>3, <2>4, <2>5, <4>1
    <3> QED BY <3>1, <3>2
  <2>9. o = Parent(m)
    BY <2>5, <2>6, <2>7, <2>8, SamePath
  <2> QED BY <2>6, <2>9 DEF m, o
<1> QED BY <1>1, <1>2, <1>3
-----------------------------------------------------------------------------
(* Events                                                                  *)

\* What the watch of directory i is told, if there is one.
Told(kind, i, n) == {<<kind, w, n>> : w \in {v \in Wd : i # None /\ watch[v] = i}}

\* A note tells just that.
LEMMA NoteIs ==
  ASSUME Kernel, NEW kind, NEW i, NEW n, NEW S, {<<kind, w, n>> : w \in Wd} \subseteq S
  PROVE  /\ Note(kind, i, n) \in Seq(S)
         /\ Items(Note(kind, i, n)) = Told(kind, i, n)
<1>1. CASE i = None \/ WatchOf(i) = {}
  <2>1. Note(kind, i, n) = <<>>
    BY <1>1 DEF Note
  <2>2. Items(<<>>) = {}
    BY DEF Items
  <2>3. {v \in Wd : i # None /\ watch[v] = i} = {}
    BY <1>1 DEF WatchOf
  <2> QED BY <2>1, <2>2, <2>3 DEF Told
<1>2. CASE i # None /\ WatchOf(i) # {}
  <2>1. PICK w \in Wd : watch[w] = i
    BY <1>2 DEF WatchOf
  <2>2. WatchOf(i) = {w}
    BY <1>2, <2>1 DEF WatchOf, Kernel
  <2>3. WdOf(i) = w
    BY <2>2 DEF WdOf
  <2>4. Note(kind, i, n) = << <<kind, w, n>> >>
    BY <1>2, <2>3 DEF Note
  <2>5. Items(<< <<kind, w, n>> >>) = {<<kind, w, n>>}
    BY DEF Items
  <2>6. {v \in Wd : i # None /\ watch[v] = i} = {w}
    BY <1>2, <2>2 DEF WatchOf
  <2>7. Items(Note(kind, i, n)) = Told(kind, i, n)
    BY <2>4, <2>5, <2>6 DEF Told
  <2>8. Note(kind, i, n) \in Seq(S)
    <3>1. <<kind, w, n>> \in S
      BY <2>1
    <3> QED BY <2>4, <3>1
  <2> QED BY <2>7, <2>8
<1> QED BY <1>1, <1>2

\* It is the event of a watch of i.
LEMMA ToldIs ==
  ASSUME NEW kind, NEW i, NEW n, NEW e \in Told(kind, i, n)
  PROVE  /\ i # None /\ e[2] \in Wd /\ watch[e[2]] = i
         /\ e = <<kind, e[2], n>> /\ e[1] = kind
<1>1. PICK w \in Wd : i # None /\ watch[w] = i /\ e = <<kind, w, n>>
  BY DEF Told
<1>2. e[1] = kind /\ e[2] = w
  BY <1>1
<1> QED BY <1>1, <1>2

\* Concatenation joins the events.
LEMMA ItemsConcat ==
  ASSUME NEW S, NEW s \in Seq(S), NEW t \in Seq(S)
  PROVE  Items(s \o t) = Items(s) \union Items(t)
<1>1. /\ Len(s) \in Nat /\ Len(t) \in Nat /\ Len(s \o t) = Len(s) + Len(t)
      /\ \A i \in 1 .. Len(s) + Len(t) : (s \o t)[i] = IF i <= Len(s) THEN s[i] ELSE t[i - Len(s)]
  BY ConcatProperties, LenProperties
<1>2. ASSUME NEW e \in Items(s \o t) PROVE e \in Items(s) \union Items(t)
  <2>1. PICK i \in 1 .. Len(s) + Len(t) : e = (s \o t)[i]
    BY <1>1 DEF Items
  <2>2. CASE i <= Len(s)
    BY <1>1, <2>1, <2>2 DEF Items
  <2>3. CASE ~(i <= Len(s))
    <3>1. i - Len(s) \in 1 .. Len(t) /\ e = t[i - Len(s)]
      BY <1>1, <2>1, <2>3
    <3> QED BY <3>1 DEF Items
  <2> QED BY <2>2, <2>3
<1>3. ASSUME NEW e \in Items(s) PROVE e \in Items(s \o t)
  <2>1. PICK i \in 1 .. Len(s) : e = s[i]
    BY DEF Items
  <2>2. i \in 1 .. Len(s) + Len(t) /\ e = (s \o t)[i]
    BY <1>1, <2>1
  <2> QED BY <1>1, <2>2 DEF Items
<1>4. ASSUME NEW e \in Items(t) PROVE e \in Items(s \o t)
  <2>1. PICK i \in 1 .. Len(t) : e = t[i]
    BY DEF Items
  <2>2. Len(s) + i \in 1 .. Len(s) + Len(t) /\ ~(Len(s) + i <= Len(s)) /\ (Len(s) + i) - Len(s) = i
    BY <1>1
  <2>3. e = (s \o t)[Len(s) + i]
    BY <1>1, <2>1, <2>2
  <2> QED BY <1>1, <2>2, <2>3 DEF Items
<1> QED BY <1>2, <1>3, <1>4

\* A part of a sequence has some of its events.
LEMMA ItemsPart ==
  ASSUME NEW S, NEW s \in Seq(S), NEW m \in Nat, NEW n \in Nat, m >= 1, n <= Len(s)
  PROVE  /\ SubSeq(s, m, n) \in Seq(S)
         /\ Items(SubSeq(s, m, n)) = {s[i] : i \in m .. n}
         /\ Len(SubSeq(s, m, n)) = IF m <= n THEN n - m + 1 ELSE 0
<1>1. Len(s) \in Nat
  BY LenProperties
<1>2. \A i \in m .. n : i \in 1 .. Len(s)
  BY <1>1
<1>3. \A i \in m .. n : s[i] \in S
  BY <1>2, ElementOfSeq
<1> DEFINE u == SubSeq(s, m, n)
<1>4. /\ u \in Seq(S) /\ Len(u) = IF m <= n THEN n - m + 1 ELSE 0
      /\ \A i \in 1 .. n - m + 1 : u[i] = s[m + i - 1]
  BY <1>3, SubSeqProperties
<1> HIDE DEF u
<1>5. ASSUME NEW i \in 1 .. Len(u) PROVE m + i - 1 \in m .. n /\ u[i] = s[m + i - 1]
  <2>1. CASE m <= n
    BY <1>4, <2>1
  <2>2. CASE ~(m <= n)
    <3>1. Len(u) = 0
      BY <1>4, <2>2
    <3> QED BY <3>1
  <2> QED BY <2>1, <2>2
<1>6. ASSUME NEW i \in m .. n PROVE i - m + 1 \in 1 .. Len(u) /\ u[i - m + 1] = s[i]
  <2>1. m <= n /\ i - m + 1 \in 1 .. n - m + 1 /\ m + (i - m + 1) - 1 = i
    OBVIOUS
  <2>2. Len(u) = n - m + 1
    BY <1>4, <2>1
  <2>3. u[i - m + 1] = s[m + (i - m + 1) - 1]
    BY <1>4, <2>1
  <2> QED BY <2>1, <2>2, <2>3
<1>7. Items(u) = {s[i] : i \in m .. n}
  <2>1. ASSUME NEW e \in Items(u) PROVE e \in {s[i] : i \in m .. n}
    BY <1>5 DEF Items
  <2>2. ASSUME NEW e \in {s[i] : i \in m .. n} PROVE e \in Items(u)
    BY <1>6 DEF Items
  <2> QED BY <2>1, <2>2
<1> QED BY <1>4, <1>7 DEF u

\* The queue takes the events, or some of them if there is no room.
LEMMA TellIs ==
  ASSUME TypeOK, NEW seq \in Seq(Event), Tell(seq)
  PROVE  /\ queue' \in Seq(Event) /\ Len(queue') <= MaxQueue
         /\ Queued' \subseteq Queued \union Items(seq)
         /\ Fits(seq) => Queued' = Queued \union Items(seq)
<1>1. queue \in Seq(Event) /\ Len(queue) <= MaxQueue /\ MaxQueue \in Nat
  BY BoundAssumption DEF TypeOK
<1> DEFINE s == queue \o seq
<1>2. s \in Seq(Event) /\ Len(s) = Len(queue) + Len(seq) /\ Len(queue) \in Nat /\ Len(seq) \in Nat
  BY <1>1, ConcatProperties, LenProperties
<1>3. Items(s) = Queued \union Items(seq)
  BY <1>1, ItemsConcat DEF Queued
<1> HIDE DEF s
<1>4. CASE Fits(seq)
  <2>1. queue' = s
    BY <1>4 DEF Tell, s
  <2>2. Len(s) <= MaxQueue
    BY <1>2, <1>4 DEF Fits
  <2> QED BY <1>2, <1>3, <2>1, <2>2 DEF Queued
<1>5. CASE ~Fits(seq)
  <2>1. queue' = SubSeq(s, 1, MaxQueue)
    BY <1>5 DEF Tell, s
  <2>2. MaxQueue <= Len(s) /\ 1 \in Nat /\ 1 >= 1
    BY <1>1, <1>2, <1>5 DEF Fits
  <2>3. /\ queue' \in Seq(Event) /\ Items(queue') = {s[i] : i \in 1 .. MaxQueue}
        /\ Len(queue') = IF 1 <= MaxQueue THEN MaxQueue - 1 + 1 ELSE 0
    BY <1>1, <1>2, <2>1, <2>2, ItemsPart
  <2>4. Len(queue') <= MaxQueue
    <3>1. CASE 1 <= MaxQueue
      BY <1>1, <2>3, <3>1
    <3>2. CASE ~(1 <= MaxQueue)
      BY <1>1, <2>3, <3>2
    <3> QED BY <3>1, <3>2
  <2>5. {s[i] : i \in 1 .. MaxQueue} \subseteq Items(s)
    BY <1>1, <1>2, <2>2 DEF Items
  <2> QED BY <1>3, <1>5, <2>3, <2>4, <2>5 DEF Queued
<1> QED BY <1>4, <1>5

\* The events that the author causes.
LEMMA EventType ==
  ASSUME NEW p \in Path, NEW w \in Wd
  PROVE  /\ <<"new", w, Base(p)>> \in Event /\ <<"gone", w, Base(p)>> \in Event
         /\ <<"self", w, ".">> \in Event /\ <<"file", w, ".">> \in Event
<1>1. Base(p) \in Name
  BY PathType, ElementOfSeq DEF Base
<1> QED BY <1>1 DEF Event

\* The paths of the tree.
LEMMA Paths1 ==
  /\ Root \in Path /\ Root \in Below[Root]
  /\ \A p \in Path : Below[p] \subseteq Path
  /\ \A p \in Below[Root] : p # Root => Len(p) > 1 /\ Parent(p) \in Below[Root]
  /\ None \notin Wd /\ None \notin Inode /\ NoPath \notin Path
  /\ Wd \subseteq Nat /\ Inode \subseteq Nat /\ None \in Nat
<1>1. Root \in Path /\ NoPath \notin Path
  BY PathAssumption
<1>2. None \notin Wd /\ None \notin Inode /\ Wd \subseteq Nat /\ Inode \subseteq Nat
      /\ None \in Nat
  BY BoundAssumption DEF Wd, Inode, None
<1> QED BY <1>1, <1>2, Climb, Descend DEF Below
-----------------------------------------------------------------------------
(* What the author does                                                    *)

\* seq is queued, P becomes unsure, and the watcher does nothing.
Touch(seq, P) ==
  /\ Tell(seq)
  /\ Upset(P, seq)
  /\ \A w \in Wd : watch'[w] \in {watch[w], None}
  /\ DOMAIN watch' = Wd
  /\ UNCHANGED <<nextwd, tables, owner, thread, batch>>

\* After such a step all is kept that is not about the disk, and the sure paths
\* are those that were sure and are not in P.
LEMMA TouchState ==
  ASSUME IInv, NEW seq \in Seq(Event), NEW P \in SUBSET Path, Touch(seq, P),
         watch' \in [Wd -> Inode \union {None}],
         \A e \in Items(seq) : watch[e[2]] # None,
         \A p \in Path : Len(p) > 1 /\ Parent(p) \in P => p \in P
  PROVE  /\ NoStrayWatch' /\ Fresh' /\ Phases' /\ Inside' /\ Closed'
         /\ queue' \in Seq(Event) /\ Len(queue') <= MaxQueue /\ unsure' \subseteq Path
         /\ \A p \in Sure' : p \in Sure /\ (owner # "stopped" => p \notin P)
         /\ Sure' # {} /\ owner # "stopped" => Queued' = Queued \union Items(seq)
<1> USE Paths1
<1>1. /\ queue' \in Seq(Event) /\ Len(queue') <= MaxQueue
      /\ Queued' \subseteq Queued \union Items(seq)
      /\ Fits(seq) => Queued' = Queued \union Items(seq)
  BY TellIs DEF IInv, Touch
<1>2. NoStrayWatch'
  BY DEF IInv, NoStrayWatch, Touch, tables
<1>3. Fresh'
  <2> SUFFICES ASSUME NEW w \in Wd, (w >= nextwd)'
               PROVE  /\ watch'[w] = None /\ wd_to_path'[w] = NoPath
                      /\ \A p \in Path : path_to_wd'[p] # w
                      /\ \A e \in Queued' : e[2] # w
    BY DEF Fresh
  <2>1. w >= nextwd
    BY DEF Touch
  <2>2. /\ watch[w] = None /\ wd_to_path[w] = NoPath
        /\ \A p \in Path : path_to_wd[p] # w
        /\ \A e \in Queued : e[2] # w
    BY <2>1 DEF IInv, State, Fresh
  <2>3. \A e \in Items(seq) : e[2] # w
    BY <2>2
  <2> QED BY <1>1, <2>2, <2>3 DEF Touch, tables
<1>4. unsure' = (IF owner = "stopped" THEN {} ELSE IF Fits(seq) THEN unsure \union P ELSE Path)
  BY DEF Touch, Upset
<1>5. unsure' \subseteq Path /\ Closed' /\ unsure \subseteq Path
  <2>1. unsure \subseteq Path /\ Closed
    BY DEF IInv, State, TypeOK
  <2> QED BY <1>4, <2>1 DEF Closed
<1>6. owner = "stopped" => seq = <<>> /\ Queued = {} /\ unsure = {}
  <2> SUFFICES ASSUME owner = "stopped" PROVE seq = <<>> /\ Queued = {} /\ unsure = {}
    OBVIOUS
  <2>1. \A w \in Wd : watch[w] = None
    BY DEF IInv, State, Phases, NoWatch
  <2>2. \A e \in Event : e[2] \in Wd
    BY DEF Event
  <2>3. Items(seq) \subseteq Event
    BY ElementOfSeq DEF Items
  <2>4. Items(seq) = {}
    BY <2>1, <2>2, <2>3
  <2>5. seq = <<>>
    <3> SUFFICES ASSUME seq # <<>> PROVE FALSE
      OBVIOUS
    <3>1. Len(seq) \in Nat \ {0}
      BY EmptySeq
    <3>2. seq[1] \in Items(seq)
      BY <3>1 DEF Items
    <3> QED BY <2>4, <3>2
  <2>6. queue = <<>> /\ unsure = {}
    BY DEF IInv, State, Phases
  <2> QED BY <2>5, <2>6 DEF Queued, Items
<1>7. Phases'
  <2>1. owner = "stopped" => queue' = <<>> /\ watch' = NoWatch /\ unsure' = {}
    <3> SUFFICES ASSUME owner = "stopped" PROVE queue' = <<>> /\ watch' = NoWatch /\ unsure' = {}
      OBVIOUS
    <3>1. queue = <<>> /\ \A w \in Wd : watch[w] = None
      BY DEF IInv, State, Phases, NoWatch
    <3>2. \A w \in Wd : watch'[w] = None
      BY <3>1 DEF Touch
    <3>3. watch' = NoWatch
      BY <3>2 DEF NoWatch
    <3>4. queue' = <<>>
      <4>1. seq = <<>>
        BY <1>6
      <4>2. Len(<<>>) = 0 /\ Fits(seq)
        BY <3>1, <4>1, BoundAssumption DEF Fits
      <4> QED BY <3>1, <4>1, <4>2 DEF Touch, Tell
    <3> QED BY <1>4, <3>3, <3>4
  <2> QED BY <2>1 DEF Touch, Phases, tables, batch, IInv, State
<1>8. Inside'
  BY DEF IInv, State, Inside, Touch, tables, batch, Pending
<1>9. \A p \in Sure' : p \in Sure /\ (owner # "stopped" => p \notin P)
  BY <1>4, <1>5, <1>6 DEF Sure
<1>10. Sure' # {} /\ owner # "stopped" => Queued' = Queued \union Items(seq)
  <2> SUFFICES ASSUME Sure' # {}, owner # "stopped" PROVE Fits(seq)
    BY <1>1
  <2> QED BY <1>4 DEF Sure
<1> QED BY <1>1, <1>2, <1>3, <1>5, <1>7, <1>8, <1>9, <1>10

\* Of a stopped watcher nothing can be wrong.
LEMMA StoppedRight == ASSUME TypeOK', Phases', owner' = "stopped" PROVE Right'
<1> SUFFICES ASSUME NEW p \in Sure' PROVE Known(p)' /\ Found(p)' /\ Due(p)'
  BY DEF Right
<1>1. p \in Path
  BY Paths1 DEF Sure
<1>2. path_to_wd'[p] = None /\ removed_dirs' = {} /\ Queued' = {}
  BY <1>1 DEF Phases, NoWds, Queued, Items
<1>3. \A w \in Wd : watch'[w] = None
  BY DEF Phases, NoWatch
<1> QED BY <1>2, <1>3 DEF Known, Found, Due

\* The numbers on the disk and in the kernel.
LEMMA Numbers ==
  ASSUME TypeOK
  PROVE  (\A p \in Path : dir[p] \in Nat) /\ (\A w \in Wd : watch[w] \in Nat)
BY Paths1 DEF TypeOK

\* The directory that p is in.
LEMMA AboveIs ==
  ASSUME NEW p \in Path
  PROVE  /\ Len(p) > 1 => Above(p) = dir[Parent(p)]
         /\ Above(p) # None => Len(p) > 1
<1>1. Len(p) \in Nat /\ Len(p) >= 1
  BY PathType
<1>2. CASE Len(p) = 1
  BY <1>2 DEF Above
<1>3. CASE Len(p) # 1
  <2> DEFINE n == Len(p)
  <2>0. n \in Nat /\ n >= 1 /\ n # 1
    BY <1>1, <1>3
  <2> HIDE DEF n
  <2>1. n > 1
    BY <2>0
  <2> USE DEF n
  <2> QED BY <1>3, <2>1 DEF Above
<1> QED BY <1>2, <1>3

\* An event of the going of x is not taken for one of another path.
LEMMA OnlyX ==
  ASSUME IInv, NEW p \in Sure, NEW x \in Path, NEW w \in Wd
  PROVE  /\ Above(x) # None /\ watch[w] = Above(x) /\ About(<<"gone", w, Base(x)>>, p) => p = x
         /\ dir[x] # None /\ watch[w] = dir[x] /\ About(<<"self", w, ".">>, p) => p = x
<1> USE Paths1
<1>0. p \in Path /\ p \in Below[Root] /\ p \notin unsure
  BY DEF Sure
<1>1. ASSUME Above(x) # None, watch[w] = Above(x), About(<<"gone", w, Base(x)>>, p) PROVE p = x
  <2>1. wd_to_path[w] # NoPath /\ Parent(p) = wd_to_path[w] /\ Base(p) = Base(x)
    BY <1>1 DEF About
  <2>2. Len(p) > 1 /\ Parent(p) \in Path
    BY <1>0, <2>1, TopParent, ParentPath
  <2>3. path_to_wd[Parent(p)] = w
    BY <2>1 DEF IInv, NoStrayWatch
  <2>4. Parent(p) \in Sure
    BY <1>0, <2>2, <2>3 DEF IInv, State, Inside, Closed, Sure
  <2>5. dir[Parent(p)] = watch[w]
    BY <2>3, <2>4 DEF IInv, Right, Known
  <2>6. Len(x) > 1 /\ Above(x) = dir[Parent(x)]
    BY <1>1, AboveIs
  <2>7. Parent(x) \in Path
    BY <2>6, ParentPath
  <2>8. Parent(p) = Parent(x)
    BY <1>1, <2>2, <2>5, <2>6, <2>7 DEF IInv, State, Disk, IsTree
  <2> QED BY <1>0, <2>1, <2>2, <2>6, <2>8, Split
<1>2. ASSUME dir[x] # None, watch[w] = dir[x], About(<<"self", w, ".">>, p) PROVE p = x
  <2>1. wd_to_path[w] # NoPath /\ p = wd_to_path[w]
    BY <1>2 DEF About
  <2>2. path_to_wd[p] = w
    BY <2>1 DEF IInv, NoStrayWatch
  <2>3. dir[p] = watch[w]
    BY <2>2 DEF IInv, Right, Known
  <2> QED BY <1>0, <1>2, <2>3 DEF IInv, State, Disk, IsTree
<1> QED BY <1>1, <1>2

\* A path that the author's step leaves alone stays right.
LEMMA Untouched ==
  ASSUME IInv, NEW p \in Sure, UNCHANGED <<tables, owner, batch>>,
         dir'[p] = dir[p], Queued \subseteq Queued',
         \A w \in Wd : watch'[w] = watch[w] \/ (watch'[w] = None /\ watch[w] # dir[p]),
         \A e \in Queued' \ Queued : e[1] \in {"gone", "self"} => ~About(e, p)
  PROVE  Known(p)' /\ Found(p)' /\ Due(p)'
<1> USE Paths1
<1>0. p \in Path /\ Known(p) /\ Found(p) /\ Due(p)
  BY DEF Sure, IInv, Right
<1>1. path_to_wd[p] \in Wd \union {None}
  BY <1>0 DEF IInv, TypeOK
<1>2. Known(p)'
  <2>1. UNCHANGED <<wd_to_path, path_to_wd, removed_dirs>>
    BY DEF tables, batch
  <2> SUFFICES ASSUME path_to_wd[p] # None
               PROVE  /\ wd_to_path[path_to_wd[p]] = p
                      /\ \A q \in Path : path_to_wd[q] = path_to_wd[p] => q = p
                      /\ watch'[path_to_wd[p]] = dir[p]
                      /\ dir[p] = None => p \in removed_dirs \/ <<"self", path_to_wd[p], ".">> \in Queued'
    BY <2>1 DEF Known
  <2> QED BY <1>0, <1>1 DEF Known
<1>3. Found(p)'
  <2>1. UNCHANGED <<wd_to_path, path_to_wd, removed_dirs>>
    BY DEF tables, batch
  <2> SUFFICES ASSUME dir[p] # None
               PROVE  /\ \A w \in Wd : watch'[w] = dir[p] => path_to_wd[p] = w
                      /\ p \notin removed_dirs
                      /\ \A e \in Queued' : e[1] \in {"gone", "self"} => ~About(e, p)
    BY <2>1 DEF Found, About
  <2> QED BY <1>0 DEF Found
<1>4. Due(p)'
  <2>1. UNCHANGED <<path_to_wd, owner, opened, Pending>>
    BY DEF tables, batch, Pending
  <2> QED BY <1>0, <2>1 DEF Due
<1> QED BY <1>2, <1>3, <1>4

\* The directory above a path that is sure is sure, and its watch is told.
LEMMA ParentSure ==
  ASSUME IInv, NEW p \in Sure, p # Root
  PROVE  /\ Len(p) > 1 /\ Parent(p) \in Path /\ Parent(p) \in Sure
         /\ dir[Parent(p)] # None /\ path_to_wd[Parent(p)] # None =>
              /\ path_to_wd[Parent(p)] \in Wd
              /\ Above(p) # None /\ watch[path_to_wd[Parent(p)]] = Above(p)
<1> USE Paths1
<1>1. p \in Path /\ Len(p) > 1 /\ Parent(p) \in Below[Root] /\ p \notin unsure
  BY DEF Sure
<1>2. Parent(p) \in Path /\ Parent(p) \in Sure
  BY <1>1 DEF Sure, IInv, State, Closed
<1>3. Above(p) = dir[Parent(p)]
  BY <1>1, AboveIs
<1>4. path_to_wd[Parent(p)] \in Wd \union {None}
  BY <1>2 DEF IInv, TypeOK
<1> QED BY <1>1, <1>2, <1>3, <1>4 DEF IInv, Right, Known

\* mkdir keeps the invariant.
LEMMA MkdirKeeps == ASSUME IInv, NEW x \in Path, Mkdir(x) PROVE IInv'
<1> USE Paths1
<1> DEFINE seq == Note("new", Above(x), Base(x))
           P == IF Forgotten(x) THEN {} ELSE Below[x]
<1>0. /\ dir[x] = None /\ Home(x) /\ dir' = [dir EXCEPT ![x] = FirstMade + ops + 1]
      /\ Tell(seq) /\ Upset(P, seq) /\ watch' = watch
      /\ ops < MaxOp /\ ops' = ops + 1
      /\ UNCHANGED <<nextwd, tables, owner, thread, batch, owed>>
  BY DEF Mkdir, Operate
<1>1. /\ seq \in Seq(Event) /\ Kernel
      /\ Items(seq) = Told("new", Above(x), Base(x))
  <2>1. Kernel
    BY DEF IInv, State
  <2>2. {<<"new", w, Base(x)>> : w \in Wd} \subseteq Event
    BY EventType
  <2>3. seq \in Seq(Event)
    BY <2>1, <2>2, NoteIs
  <2>4. Items(seq) = Told("new", Above(x), Base(x))
    BY <2>1, <2>2, NoteIs
  <2> QED BY <2>1, <2>3, <2>4
<1> HIDE DEF seq
<1>2. P \in SUBSET Path /\ \A p \in Path : Len(p) > 1 /\ Parent(p) \in P => p \in P
  BY Descend
<1> HIDE DEF P
<1>3. TypeOK
  BY DEF IInv
<1>4. Touch(seq, P) /\ watch' \in [Wd -> Inode \union {None}]
  BY <1>0, <1>3 DEF Touch, TypeOK
<1>5. \A e \in Items(seq) : watch[e[2]] # None
  BY <1>1 DEF Told
<1>6. /\ NoStrayWatch' /\ Fresh' /\ Phases' /\ Inside' /\ Closed'
      /\ queue' \in Seq(Event) /\ Len(queue') <= MaxQueue /\ unsure' \subseteq Path
      /\ \A p \in Sure' : p \in Sure /\ (owner # "stopped" => p \notin P)
      /\ Sure' # {} /\ owner # "stopped" => Queued' = Queued \union Items(seq)
  BY <1>1, <1>2, <1>4, <1>5, TouchState
<1>7. ops \in Nat /\ FirstMade \in Nat /\ MaxOp \in Nat /\ ops' \in 0 .. MaxOp
      /\ FirstMade + ops + 1 \in Inode /\ Made \in Nat /\ Made' = Made + 1 /\ FirstMade + ops + 1 = Made + 1
  BY <1>0, <1>3, BoundAssumption DEF TypeOK, Inode, Made
<1>8. TypeOK'
  BY <1>0, <1>3, <1>6, <1>7 DEF TypeOK, tables, batch
<1>9. Disk'
  <2>1. \A p \in Path : dir[p] \in Nat /\ dir[p] <= Made
    BY <1>3, Numbers DEF IInv, State, Disk
  <2>2. \A p \in Path : dir'[p] = IF p = x THEN Made + 1 ELSE dir[p]
    BY <1>0, <1>3, <1>7 DEF TypeOK
  <2>3. IsTree(dir) /\ dir[Root] # None
    BY DEF IInv, State, Disk
  <2>4. Made + 1 # None /\ \A p \in Path : dir[p] # Made + 1
    BY <1>7, <2>1 DEF None
  <2>5. IsTree(dir')
    <3>1. ASSUME NEW p \in Path, dir'[p] # None, Len(p) > 1 PROVE dir'[Parent(p)] # None
      <4>1. Parent(p) \in Path
        BY <3>1, ParentPath
      <4>2. dir[Parent(p)] # None
        BY <1>0, <2>2, <2>3, <3>1 DEF IsTree, Home
      <4> QED BY <2>2, <2>4, <4>1, <4>2
    <3>2. ASSUME NEW p \in Path, NEW q \in Path, dir'[p] = dir'[q], dir'[p] # None PROVE p = q
      BY <2>2, <2>3, <2>4, <3>2 DEF IsTree
    <3> QED BY <3>1, <3>2 DEF IsTree
  <2>6. \A p \in Path : dir'[p] <= Made'
    BY <1>7, <2>1, <2>2
  <2> QED BY <1>0, <2>2, <2>3, <2>5, <2>6 DEF Disk
<1>10. Kernel'
  <2>1. \A w \in Wd : watch[w] \in Nat /\ watch[w] <= Made
    BY <1>1, <1>3, Numbers DEF Kernel
  <2>2. \A w \in Wd : watch'[w] <= Made'
    BY <1>0, <1>7, <2>1
  <2> QED BY <1>0, <1>1, <2>2 DEF Kernel
<1>11. Right'
  <2>1. CASE owner = "stopped"
    BY <1>0, <1>6, <1>8, <2>1, StoppedRight
  <2>2. CASE owner # "stopped"
    <3> SUFFICES ASSUME NEW p \in Sure' PROVE Known(p)' /\ Found(p)' /\ Due(p)'
      BY DEF Right
    <3>1. p \in Sure /\ p \notin P /\ Queued' = Queued \union Items(seq) /\ p \in Path
      BY <1>6, <2>2 DEF Sure
    <3>2. CASE p # x
      <4>1. dir'[p] = dir[p]
        BY <1>0, <1>3, <3>1, <3>2 DEF TypeOK
      <4>2. \A e \in Queued' \ Queued : e[1] = "new"
        BY <1>1, <3>1 DEF Told
      <4> QED BY <1>0, <3>1, <4>1, <4>2, Untouched
    <3>3. CASE p = x
      <4>1. Forgotten(x)
        BY <3>1, <3>3, Descend DEF P
      <4>2. path_to_wd[x] = None /\ x \notin removed_dirs /\ \A e \in Queued : ~About(e, x)
        BY <4>1 DEF Forgotten, Queued, Items
      <4>3. UNCHANGED <<path_to_wd, wd_to_path, removed_dirs>>
        BY <1>0 DEF tables, batch
      <4>4. Known(p)'
        BY <3>3, <4>2, <4>3 DEF Known
      <4>5. Found(p)'
        <5>1. dir'[x] = Made + 1
          BY <1>0, <1>3, <1>7 DEF TypeOK
        <5>2. \A w \in Wd : watch'[w] # dir'[x]
          <6>1. \A w \in Wd : watch[w] \in Nat /\ watch[w] <= Made
            BY <1>1, <1>3, Numbers DEF Kernel
          <6> QED BY <1>0, <1>7, <5>1, <6>1
        <5>3. \A e \in Queued' : e[1] \in {"gone", "self"} => ~About(e, x)
          BY <1>1, <3>1, <4>2 DEF Told
        <5>4. \A e \in Queued' : e[1] \in {"gone", "self"} => ~About(e, x)'
          BY <4>3, <5>3 DEF About
        <5> QED BY <3>3, <4>2, <4>3, <5>2, <5>4 DEF Found
      <4>6. Due(p)'
        <5>1. x # Root
          BY <1>0 DEF IInv, State, Disk
        <5>2. Len(x) > 1 /\ Parent(x) \in Path
          BY <3>1, <3>3, <5>1, ParentSure
        <5>3. dir[Parent(x)] # None
          BY <1>0, <5>2 DEF Home
        <5>4. path_to_wd[Parent(x)] # None => <<"new", path_to_wd[Parent(x)], Base(x)>> \in Queued'
          BY <1>1, <3>1, <3>3, <5>1, <5>3, ParentSure DEF Told
        <5> QED BY <3>3, <4>3, <5>1, <5>4 DEF Due
      <4> QED BY <4>4, <4>5, <4>6
    <3> QED BY <3>2, <3>3
  <2> QED BY <2>1, <2>2
<1> QED BY <1>6, <1>8, <1>9, <1>10, <1>11 DEF IInv, State

\* rmdir keeps the invariant.
LEMMA RmdirKeeps == ASSUME IInv, NEW x \in Path, Rmdir(x) PROVE IInv'
<1> USE Paths1
<1> DEFINE gone == Note("gone", Above(x), Base(x))
           self == Note("self", dir[x], ".")
<1>0. /\ dir[x] # None /\ Children(x) = {} /\ Root \notin Below[x] /\ dir' = [dir EXCEPT ![x] = None]
      /\ Tell(gone \o self) \/ Tell(self \o gone)
      /\ Upset({}, gone \o self)
      /\ watch' = [w \in Wd |-> IF watch[w] = dir[x] THEN None ELSE watch[w]]
      /\ ops < MaxOp /\ ops' = ops + 1
      /\ UNCHANGED <<nextwd, tables, owner, thread, batch, owed>>
  BY DEF Rmdir, Operate
<1>1. Kernel
  BY DEF IInv, State
<1>2. gone \in Seq(Event) /\ Items(gone) = Told("gone", Above(x), Base(x))
  <2>1. {<<"gone", w, Base(x)>> : w \in Wd} \subseteq Event
    BY EventType
  <2> QED BY <1>1, <2>1, NoteIs
<1>3. self \in Seq(Event) /\ Items(self) = Told("self", dir[x], ".")
  <2>1. {<<"self", w, ".">> : w \in Wd} \subseteq Event
    BY EventType
  <2> QED BY <1>1, <2>1, NoteIs
<1> HIDE DEF gone, self
<1>4. PICK seq \in Seq(Event) : /\ Tell(seq) /\ Upset({}, seq)
                                /\ Items(seq) = Items(gone) \union Items(self)
  <2>1. gone \o self \in Seq(Event) /\ self \o gone \in Seq(Event)
        /\ Len(gone \o self) = Len(gone) + Len(self) /\ Len(self \o gone) = Len(self) + Len(gone)
        /\ Len(gone) \in Nat /\ Len(self) \in Nat
    BY <1>2, <1>3, ConcatProperties, LenProperties
  <2>2. Items(gone \o self) = Items(gone) \union Items(self)
    BY <1>2, <1>3, ItemsConcat
  <2>5. Items(self \o gone) = Items(self) \union Items(gone)
    BY <1>2, <1>3, ItemsConcat
  <2>3. Len(gone \o self) = Len(self \o gone)
    BY <2>1
  <2>4. Upset({}, gone \o self) => Upset({}, self \o gone)
    BY <2>3 DEF Upset, Fits
  <2> QED BY <1>0, <2>1, <2>2, <2>4, <2>5
<1>5. TypeOK
  BY DEF IInv
<1>6. \A w \in Wd : watch'[w] = IF watch[w] = dir[x] THEN None ELSE watch[w]
  BY <1>0
<1>7. Touch(seq, {}) /\ watch' \in [Wd -> Inode \union {None}]
  BY <1>0, <1>4, <1>5, <1>6 DEF Touch, TypeOK
<1>8. \A e \in Items(seq) : watch[e[2]] # None
  <2> SUFFICES ASSUME NEW e \in Items(seq) PROVE watch[e[2]] # None
    OBVIOUS
  <2>1. e \in Told("gone", Above(x), Base(x)) \/ e \in Told("self", dir[x], ".")
    BY <1>2, <1>3, <1>4
  <2> QED BY <2>1, ToldIs
<1>9. /\ NoStrayWatch' /\ Fresh' /\ Phases' /\ Inside' /\ Closed'
      /\ queue' \in Seq(Event) /\ Len(queue') <= MaxQueue /\ unsure' \subseteq Path
      /\ \A p \in Sure' : p \in Sure
      /\ Sure' # {} /\ owner # "stopped" => Queued' = Queued \union Items(seq)
  BY <1>7, <1>8, TouchState
<1>10. ops' \in 0 .. MaxOp /\ Made \in Nat /\ Made' = Made + 1
  BY <1>0, <1>5, BoundAssumption DEF TypeOK, Made
<1>11. TypeOK'
  BY <1>0, <1>5, <1>7, <1>9, <1>10 DEF TypeOK, tables, batch
<1>12. \A p \in Path : dir'[p] = IF p = x THEN None ELSE dir[p]
  BY <1>0, <1>5 DEF TypeOK
<1>13. Disk'
  <2>1. \A p \in Path : dir[p] \in Nat /\ dir[p] <= Made
    BY <1>5, Numbers DEF IInv, State, Disk
  <2>2. IsTree(dir) /\ dir[Root] # None
    BY DEF IInv, State, Disk
  <2>3. IsTree(dir')
    <3>1. ASSUME NEW p \in Path, dir'[p] # None, Len(p) > 1 PROVE dir'[Parent(p)] # None
      <4>1. Parent(p) \in Path /\ dir[p] # None /\ dir[Parent(p)] # None
        BY <1>12, <2>2, <3>1, ParentPath DEF IsTree
      <4>2. Parent(p) # x
        BY <1>0, <4>1 DEF Children
      <4> QED BY <1>12, <4>1, <4>2
    <3>2. ASSUME NEW p \in Path, NEW q \in Path, dir'[p] = dir'[q], dir'[p] # None PROVE p = q
      BY <1>12, <2>2, <3>2 DEF IsTree
    <3> QED BY <3>1, <3>2 DEF IsTree
  <2>4. dir'[Root] # None
    BY <1>0, <1>12, <2>2, Descend
  <2>5. \A p \in Path : dir'[p] <= Made'
    <3> SUFFICES ASSUME NEW p \in Path PROVE dir'[p] <= Made'
      OBVIOUS
    <3>1. CASE p = x
      BY <1>10, <1>12, <3>1 DEF None
    <3>2. CASE p # x
      BY <1>10, <1>12, <2>1, <3>2
    <3> QED BY <3>1, <3>2
  <2> QED BY <2>3, <2>4, <2>5 DEF Disk
<1>14. Kernel'
  <2>1. \A w \in Wd : watch[w] \in Nat /\ watch[w] <= Made
    BY <1>1, <1>5, Numbers DEF Kernel
  <2>2. ASSUME NEW w \in Wd PROVE watch'[w] <= Made'
    <3>1. CASE watch[w] = dir[x]
      BY <1>6, <1>10, <3>1 DEF None
    <3>2. CASE watch[w] # dir[x]
      BY <1>6, <1>10, <2>1, <3>2
    <3> QED BY <3>1, <3>2
  <2>3. \A v, w \in Wd : watch'[v] = watch'[w] /\ watch'[v] # None => v = w
    BY <1>1, <1>6 DEF Kernel
  <2> QED BY <2>2, <2>3 DEF Kernel
<1>15. Right'
  <2>1. CASE owner = "stopped"
    BY <1>0, <1>9, <1>11, <2>1, StoppedRight
  <2>2. CASE owner # "stopped"
    <3> SUFFICES ASSUME NEW p \in Sure' PROVE Known(p)' /\ Found(p)' /\ Due(p)'
      BY DEF Right
    <3>1. p \in Sure /\ Queued' = Queued \union Items(seq) /\ p \in Path
      BY <1>9, <2>2 DEF Sure
    <3>2. CASE p # x
      <4>1. dir'[p] = dir[p]
        BY <1>12, <3>1, <3>2
      <4>2. ASSUME NEW e \in Queued' \ Queued, e[1] \in {"gone", "self"} PROVE ~About(e, p)
        <5>1. e \in Told("gone", Above(x), Base(x)) \/ e \in Told("self", dir[x], ".")
          BY <1>2, <1>3, <1>4, <3>1
        <5>2. CASE e \in Told("gone", Above(x), Base(x))
          BY <3>1, <3>2, <5>2, OnlyX DEF Told
        <5>3. CASE e \in Told("self", dir[x], ".")
          BY <3>1, <3>2, <5>3, OnlyX DEF Told
        <5> QED BY <5>1, <5>2, <5>3
      <4>3. \A w \in Wd : watch'[w] = watch[w] \/ (watch'[w] = None /\ watch[w] # dir[p])
        <5>1. dir[x] # dir[p]
          BY <1>0, <3>1, <3>2 DEF IInv, State, Disk, IsTree
        <5> QED BY <1>6, <5>1
      <4> QED BY <1>0, <3>1, <4>1, <4>2, <4>3, Untouched
    <3>3. CASE p = x
      <4>1. dir'[x] = None /\ UNCHANGED <<path_to_wd, wd_to_path, removed_dirs>>
        BY <1>0, <1>12 DEF tables, batch
      <4>2. Known(x) /\ path_to_wd[x] \in Wd \union {None}
        BY <1>5, <3>1, <3>3 DEF IInv, Right, TypeOK
      <4>3. ASSUME path_to_wd[x] # None
            PROVE  watch'[path_to_wd[x]] = None /\ <<"self", path_to_wd[x], ".">> \in Queued'
        <5>1. watch[path_to_wd[x]] = dir[x] /\ path_to_wd[x] \in Wd
          BY <4>2, <4>3 DEF Known
        <5>2. <<"self", path_to_wd[x], ".">> \in Told("self", dir[x], ".")
          BY <1>0, <5>1 DEF Told
        <5> QED BY <1>3, <1>4, <1>6, <3>1, <5>1, <5>2
      <4>4. Known(p)'
        BY <3>3, <4>1, <4>2, <4>3 DEF Known
      <4> QED BY <3>3, <4>1, <4>4 DEF Found, Due
    <3> QED BY <3>2, <3>3
  <2> QED BY <2>1, <2>2
<1> QED BY <1>9, <1>11, <1>13, <1>14, <1>15 DEF IInv, State

\* A change of a file keeps the invariant.
LEMMA ChangeKeeps == ASSUME IInv, NEW x \in Path, Change(x) PROVE IInv'
<1> USE Paths1
<1> DEFINE seq == Note("file", dir[x], ".")
<1>0. /\ dir[x] # None /\ Tell(seq) /\ Upset({}, seq) /\ owed' = x
      /\ UNCHANGED <<tree, watch, nextwd, tables, owner, thread, batch>>
  BY DEF Change
<1>1. Kernel
  BY DEF IInv, State
<1>2. seq \in Seq(Event) /\ Items(seq) = Told("file", dir[x], ".")
  <2>1. {<<"file", w, ".">> : w \in Wd} \subseteq Event
    BY EventType
  <2> QED BY <1>1, <2>1, NoteIs
<1> HIDE DEF seq
<1>3. TypeOK
  BY DEF IInv
<1>4. Touch(seq, {}) /\ watch' \in [Wd -> Inode \union {None}]
  BY <1>0, <1>3 DEF Touch, TypeOK
<1>5. \A e \in Items(seq) : watch[e[2]] # None
  BY <1>2, ToldIs
<1>6. /\ NoStrayWatch' /\ Fresh' /\ Phases' /\ Inside' /\ Closed'
      /\ queue' \in Seq(Event) /\ Len(queue') <= MaxQueue /\ unsure' \subseteq Path
      /\ \A p \in Sure' : p \in Sure
      /\ Sure' # {} /\ owner # "stopped" => Queued' = Queued \union Items(seq)
  BY <1>2, <1>4, <1>5, TouchState
<1>7. TypeOK'
  BY <1>0, <1>3, <1>6 DEF TypeOK, tree, tables, batch
<1>8. Disk' /\ Kernel'
  BY <1>0, <1>1 DEF IInv, State, Disk, Kernel, IsTree, Made, tree
<1>9. Right'
  <2>1. CASE owner = "stopped"
    BY <1>0, <1>6, <1>7, <2>1, StoppedRight
  <2>2. CASE owner # "stopped"
    <3> SUFFICES ASSUME NEW p \in Sure' PROVE Known(p)' /\ Found(p)' /\ Due(p)'
      BY DEF Right
    <3>1. p \in Sure /\ Queued' = Queued \union Items(seq)
      BY <1>6, <2>2
    <3>2. \A e \in Queued' \ Queued : e[1] = "file"
      BY <1>2, <3>1, ToldIs
    <3> QED BY <1>0, <3>1, <3>2, Untouched DEF tree
  <2> QED BY <2>1, <2>2
<1> QED BY <1>6, <1>7, <1>8, <1>9 DEF IInv, State

\* A move keeps the tree a tree.
LEMMA MoveTree ==
  ASSUME IInv, NEW x \in Path, NEW y \in Path, Move(x, y)
  PROVE  /\ dir' \in [Path -> Inode \union {None}] /\ IsTree(dir') /\ dir'[Root] = dir[Root]
         /\ \A p \in Path : p \in Below[y] =>
              dir'[p] = None \/ \E q \in Below[x] : q = Moved(x, y, p) /\ dir'[p] = dir[q]
         /\ \A p \in Path : p \notin Below[y] => dir'[p] = IF p \in Below[x] THEN None ELSE dir[p]
<1> USE Paths1
<1>0. /\ Root \notin Below[x] \union Below[y]
      /\ dir[x] # None /\ dir[y] = None /\ Home(y) /\ y \notin Below[x]
      /\ dir' = [p \in Path |->
           IF p \in Below[y]
             THEN IF Moved(x, y, p) \in Path THEN dir[Moved(x, y, p)] ELSE None
             ELSE IF p \in Below[x] THEN None ELSE dir[p]]
  BY DEF Move
<1>1. dir \in [Path -> Inode \union {None}] /\ IsTree(dir)
  BY DEF IInv, TypeOK, State, Disk
<1>2. \A p \in Path : p \in Below[y] =>
        dir'[p] = None \/ \E q \in Below[x] : q = Moved(x, y, p) /\ dir'[p] = dir[q]
  BY <1>0, MovedTree
<1>3. \A p \in Path : p \notin Below[y] => dir'[p] = IF p \in Below[x] THEN None ELSE dir[p]
  BY <1>0
<1>4. \A p \in Path : p \in Below[y] /\ Moved(x, y, p) \in Path => dir'[p] = dir[Moved(x, y, p)]
  BY <1>0
<1> HIDE <1>0
<1>5. dir' \in [Path -> Inode \union {None}]
  <2>1. DOMAIN dir' = Path /\ dir' = [p \in Path |-> dir'[p]]
    BY <1>0
  <2>2. ASSUME NEW p \in Path PROVE dir'[p] \in Inode \union {None}
    <3>1. CASE p \in Below[y]
      BY <1>1, <1>2, <3>1
    <3>2. CASE p \notin Below[y]
      BY <1>1, <1>3, <3>2
    <3> QED BY <3>1, <3>2
  <2> QED BY <2>1, <2>2
<1>6. ASSUME NEW p \in Path, dir'[p] # None, Len(p) > 1 PROVE dir'[Parent(p)] # None
  <2>0. Parent(p) \in Path
    BY <1>6, ParentPath
  <2>1. CASE p = y
    <3>1. dir[Parent(y)] # None
      BY <1>0, <1>6, <2>1 DEF Home
    <3>2. Parent(y) \notin Below[x] /\ Parent(y) \notin Below[y]
      BY <1>0, <1>6, <2>1, Descend
    <3> QED BY <1>3, <2>0, <2>1, <3>1, <3>2
  <2>2. CASE p \in Below[y] /\ p # y
    <3>1. PICK q \in Below[x] : q = Moved(x, y, p) /\ dir'[p] = dir[q]
      BY <1>2, <1>6, <2>2
    <3>2. Parent(p) \in Below[y]
      BY <2>2, Climb
    <3>3. Len(q) > 1 /\ Moved(x, y, Parent(p)) = Parent(q)
      BY <2>2, <3>1, MovedTree
    <3>4. q \in Path /\ Parent(q) \in Path
      BY <3>3, ParentPath
    <3>5. dir[Parent(q)] # None
      BY <1>1, <1>6, <3>1, <3>3, <3>4 DEF IsTree
    <3> QED BY <1>4, <2>0, <3>2, <3>3, <3>4, <3>5
  <2>3. CASE p \notin Below[y]
    <3>1. p \notin Below[x] /\ dir[p] # None
      BY <1>3, <1>6, <2>3
    <3>2. Parent(p) \notin Below[x] /\ Parent(p) \notin Below[y]
      BY <1>6, <2>3, <3>1, Descend
    <3>3. dir[Parent(p)] # None
      BY <1>1, <1>6, <3>1 DEF IsTree
    <3> QED BY <1>3, <2>0, <3>2, <3>3
  <2> QED BY <2>1, <2>2, <2>3
<1>7. ASSUME NEW p \in Path, NEW q \in Path, dir'[p] = dir'[q], dir'[p] # None PROVE p = q
  <2>1. CASE p \in Below[y] /\ q \in Below[y]
    <3>1. PICK a \in Below[x] : a = Moved(x, y, p) /\ dir'[p] = dir[a]
      BY <1>2, <1>7, <2>1
    <3>2. PICK b \in Below[x] : b = Moved(x, y, q) /\ dir'[q] = dir[b]
      BY <1>2, <1>7, <2>1
    <3>3. a = b
      BY <1>1, <1>7, <3>1, <3>2 DEF IsTree
    <3>4. Moved(x, y, p) = Moved(x, y, q)
      BY <3>1, <3>2, <3>3
    <3>5. \A c, d \in Below[y] : Moved(x, y, c) = Moved(x, y, d) => c = d
      BY MovedTree
    <3> QED BY <2>1, <3>4, <3>5
  <2>2. ASSUME NEW a \in Path, NEW b \in Path, a \in Below[y], b \notin Below[y],
               dir'[a] = dir'[b], dir'[a] # None
        PROVE  FALSE
    <3>1. PICK c \in Below[x] : dir'[a] = dir[c]
      BY <1>2, <2>2
    <3>2. b \notin Below[x] /\ dir'[b] = dir[b]
      BY <1>3, <2>2
    <3>3. b = c
      BY <1>1, <2>2, <3>1, <3>2 DEF IsTree
    <3> QED BY <3>1, <3>2, <3>3
  <2>3. CASE p \notin Below[y] /\ q \notin Below[y]
    <3>1. dir'[p] = dir[p] /\ dir'[q] = dir[q]
      BY <1>3, <1>7, <2>3
    <3> QED BY <1>1, <1>7, <3>1 DEF IsTree
  <2> QED BY <1>7, <2>1, <2>2, <2>3
<1>8. dir'[Root] = dir[Root]
  BY <1>0, <1>3
<1> QED BY <1>2, <1>3, <1>5, <1>6, <1>7, <1>8 DEF IsTree

\* A move keeps the invariant.
LEMMA MoveKeeps == ASSUME IInv, NEW x \in Path, NEW y \in Path, Move(x, y) PROVE IInv'
<1> USE Paths1
<1> DEFINE gone == Note("gone", Above(x), Base(x))
           new == Note("new", Above(y), Base(y))
           seq == gone \o new
           P == IF Stranger(x, y) THEN {} ELSE Below[x] \union Below[y]
<1>0. /\ Root \notin Below[x] \union Below[y]
      /\ dir[x] # None /\ dir[y] = None /\ Home(y) /\ y \notin Below[x]
      /\ Tell(seq) /\ Upset(P, seq) /\ watch' = watch
      /\ ops < MaxOp /\ ops' = ops + 1
      /\ UNCHANGED <<nextwd, tables, owner, thread, batch, owed>>
  BY DEF Move, Operate
<1>1. Kernel
  BY DEF IInv, State
<1>2. gone \in Seq(Event) /\ Items(gone) = Told("gone", Above(x), Base(x))
  <2>1. {<<"gone", w, Base(x)>> : w \in Wd} \subseteq Event
    BY EventType
  <2> QED BY <1>1, <2>1, NoteIs
<1>3. new \in Seq(Event) /\ Items(new) = Told("new", Above(y), Base(y))
  <2>1. {<<"new", w, Base(y)>> : w \in Wd} \subseteq Event
    BY EventType
  <2> QED BY <1>1, <2>1, NoteIs
<1> HIDE DEF gone, new
<1>4. seq \in Seq(Event) /\ Items(seq) = Items(gone) \union Items(new)
  BY <1>2, <1>3, ConcatProperties, ItemsConcat
<1> HIDE DEF seq
<1>5. P \in SUBSET Path /\ \A p \in Path : Len(p) > 1 /\ Parent(p) \in P => p \in P
  BY Descend
<1> HIDE DEF P
<1>6. TypeOK
  BY DEF IInv
<1>7. Touch(seq, P) /\ watch' \in [Wd -> Inode \union {None}]
  BY <1>0, <1>6 DEF Touch, TypeOK
<1>8. \A e \in Items(seq) : watch[e[2]] # None
  <2> SUFFICES ASSUME NEW e \in Items(seq) PROVE watch[e[2]] # None
    OBVIOUS
  <2>1. e \in Told("gone", Above(x), Base(x)) \/ e \in Told("new", Above(y), Base(y))
    BY <1>2, <1>3, <1>4
  <2> QED BY <2>1, ToldIs
<1>9. /\ NoStrayWatch' /\ Fresh' /\ Phases' /\ Inside' /\ Closed'
      /\ queue' \in Seq(Event) /\ Len(queue') <= MaxQueue /\ unsure' \subseteq Path
      /\ \A p \in Sure' : p \in Sure /\ (owner # "stopped" => p \notin P)
      /\ Sure' # {} /\ owner # "stopped" => Queued' = Queued \union Items(seq)
  BY <1>4, <1>5, <1>7, <1>8, TouchState
<1>10. ops' \in 0 .. MaxOp /\ Made \in Nat /\ Made' = Made + 1
  BY <1>0, <1>6, BoundAssumption DEF TypeOK, Made
<1>11. /\ dir' \in [Path -> Inode \union {None}] /\ IsTree(dir') /\ dir'[Root] = dir[Root]
       /\ \A p \in Path : p \in Below[y] =>
            dir'[p] = None \/ \E q \in Below[x] : q = Moved(x, y, p) /\ dir'[p] = dir[q]
       /\ \A p \in Path : p \notin Below[y] => dir'[p] = IF p \in Below[x] THEN None ELSE dir[p]
  BY MoveTree
<1>12. TypeOK'
  BY <1>0, <1>6, <1>7, <1>9, <1>10, <1>11 DEF TypeOK, tables, batch
<1>13. Disk'
  <2>1. \A p \in Path : dir[p] \in Nat /\ dir[p] <= Made
    BY <1>6, Numbers DEF IInv, State, Disk
  <2>2. ASSUME NEW p \in Path PROVE dir'[p] <= Made'
    <3>1. dir'[p] = None \/ \E q \in Path : dir'[p] = dir[q]
      BY <1>11
    <3> QED BY <1>10, <2>1, <3>1 DEF None
  <2> QED BY <1>11, <2>2 DEF Disk, IInv, State
<1>14. Kernel'
  <2>1. \A w \in Wd : watch[w] \in Nat /\ watch[w] <= Made
    BY <1>1, <1>6, Numbers DEF Kernel
  <2>2. \A w \in Wd : watch'[w] <= Made'
    BY <1>0, <1>10, <2>1
  <2> QED BY <1>0, <1>1, <2>2 DEF Kernel
<1>15. Right'
  <2>1. CASE owner = "stopped"
    BY <1>0, <1>9, <1>12, <2>1, StoppedRight
  <2>2. CASE owner # "stopped"
    <3> SUFFICES ASSUME NEW p \in Sure' PROVE Known(p)' /\ Found(p)' /\ Due(p)'
      BY DEF Right
    <3>1. p \in Sure /\ p \notin P /\ Queued' = Queued \union Items(seq) /\ p \in Path /\ p \in Below[Root]
      BY <1>9, <2>2 DEF Sure
    <3>2. p \notin Below[x]
      <4>1. CASE Stranger(x, y)
        <5>1. x \notin Below[Root]
          BY <4>1 DEF Stranger
        <5> QED BY <1>0, <3>1, <5>1, Comparable
      <4>2. CASE ~Stranger(x, y)
        BY <3>1, <4>2 DEF P
      <4> QED BY <4>1, <4>2
    <3>3. ASSUME NEW e \in Queued' \ Queued, e[1] \in {"gone", "self"} PROVE ~About(e, p)
      <4>1. e \in Told("gone", Above(x), Base(x)) \/ e \in Told("new", Above(y), Base(y))
        BY <1>2, <1>3, <1>4, <3>1
      <4>2. CASE e \in Told("gone", Above(x), Base(x))
        <5>1. p # x
          BY <3>2, Descend
        <5>2. /\ e = <<"gone", e[2], Base(x)>> /\ e[2] \in Wd
              /\ Above(x) # None /\ watch[e[2]] = Above(x)
          BY <4>2, ToldIs
        <5>3. ~About(<<"gone", e[2], Base(x)>>, p)
          BY <3>1, <5>1, <5>2, OnlyX
        <5> QED BY <5>2, <5>3
      <4>3. CASE e \in Told("new", Above(y), Base(y))
        BY <3>3, <4>3, ToldIs
      <4> QED BY <4>1, <4>2, <4>3
    <3>4. CASE p \notin Below[y]
      <4>1. dir'[p] = dir[p]
        BY <1>11, <3>1, <3>2, <3>4
      <4> QED BY <1>0, <3>1, <3>3, <4>1, Untouched
    <3>5. CASE p \in Below[y]
      <4>1. Stranger(x, y)
        BY <3>1, <3>5 DEF P
      <4>2. \A q \in Below[y] : path_to_wd[q] = None /\ q \notin removed_dirs /\ \A e \in Queued : ~About(e, q)
        BY <4>1 DEF Stranger, Forgotten, Queued, Items
      <4>3. UNCHANGED <<path_to_wd, wd_to_path, removed_dirs>>
        BY <1>0 DEF tables, batch
      <4>4. Known(p)'
        BY <3>5, <4>2, <4>3 DEF Known
      <4>5. Found(p)'
        <5> SUFFICES ASSUME dir'[p] # None
                     PROVE  /\ \A w \in Wd : watch'[w] # dir'[p]
                            /\ \A e \in Queued' : e[1] \in {"gone", "self"} => ~About(e, p)
          BY <3>5, <4>2, <4>3 DEF Found, About
        <5>1. PICK q \in Below[x] : dir'[p] = dir[q]
          BY <1>11, <3>1, <3>5
        <5>2. WatchOf(dir[q]) = {}
          BY <4>1, <5>1 DEF Stranger
        <5> QED BY <1>0, <3>3, <3>5, <4>2, <5>1, <5>2 DEF WatchOf
      <4>6. Due(p)'
        <5>1. p # Root
          BY <1>0, <3>5
        <5>2. CASE p = y
          <6>1. Len(y) > 1 /\ Parent(y) \in Path
            BY <3>1, <5>1, <5>2, ParentSure
          <6>2. dir[Parent(y)] # None
            BY <1>0, <6>1 DEF Home
          <6>3. path_to_wd[Parent(y)] # None => <<"new", path_to_wd[Parent(y)], Base(y)>> \in Queued'
            <7>1. ASSUME path_to_wd[Parent(y)] # None
                  PROVE  <<"new", path_to_wd[Parent(y)], Base(y)>> \in Told("new", Above(y), Base(y))
              BY <3>1, <5>1, <5>2, <6>2, <7>1, ParentSure DEF Told
            <7> QED BY <1>3, <1>4, <3>1, <7>1
          <6> QED BY <4>3, <5>1, <5>2, <6>3 DEF Due
        <5>3. CASE p # y
          <6>1. path_to_wd[Parent(p)] = None
            BY <3>5, <4>2, <5>3, Climb
          <6> QED BY <4>3, <5>1, <6>1 DEF Due
        <5> QED BY <5>2, <5>3
      <4> QED BY <4>4, <4>5, <4>6
    <3> QED BY <3>4, <3>5
  <2> QED BY <2>1, <2>2
<1> QED BY <1>9, <1>12, <1>13, <1>14, <1>15 DEF IInv, State

-----------------------------------------------------------------------------
(* What the watcher does                                                   *)

\* A new watch, or the one that the directory has, goes into the tables.
LEMMA WatchKeeps ==
  ASSUME IInv, NEW x \in Path, x \in Below[Root], dir[x] # None, path_to_wd[x] = None,
         Watch(x, dir[x]), x \in opened', opened \subseteq opened', Pending \ {x} \subseteq Pending',
         UNCHANGED <<tree, queue, owner, removed_dirs, unsure>>
  PROVE  /\ NoStrayWatch' /\ Kernel' /\ Fresh' /\ Right'
         /\ \A p \in Path : path_to_wd'[p] # None => p \in Below[Root]
         /\ watch' \in [Wd -> Inode \union {None}] /\ nextwd' \in 1 .. MaxWd + 1
         /\ wd_to_path' \in [Wd -> Path \union {NoPath}] /\ path_to_wd' \in [Path -> Wd \union {None}]
<1> USE Paths1
<1> DEFINE w == IF WatchOf(dir[x]) = {} THEN nextwd ELSE WdOf(dir[x])
<1>0. /\ w \in Wd
      /\ watch' = [watch EXCEPT ![w] = dir[x]]
      /\ nextwd' = IF w = nextwd THEN nextwd + 1 ELSE nextwd
      /\ wd_to_path' = [wd_to_path EXCEPT ![w] = x]
      /\ path_to_wd' = [path_to_wd EXCEPT ![x] = w]
  BY DEF Watch
<1>1. /\ watch \in [Wd -> Inode \union {None}] /\ nextwd \in 1 .. MaxWd + 1
      /\ wd_to_path \in [Wd -> Path \union {NoPath}] /\ path_to_wd \in [Path -> Wd \union {None}]
      /\ dir \in [Path -> Inode \union {None}] /\ MaxWd \in Nat
  BY BoundAssumption DEF IInv, TypeOK
<1>2. w = nextwd \/ watch[w] = dir[x]
  <2>1. ASSUME WatchOf(dir[x]) # {} PROVE WdOf(dir[x]) \in WatchOf(dir[x])
    BY <2>1 DEF WdOf
  <2> QED BY <2>1 DEF WatchOf
<1>3. watch[w] # dir[x] => WatchOf(dir[x]) = {}
  <2>1. ASSUME WatchOf(dir[x]) # {} PROVE WdOf(dir[x]) \in WatchOf(dir[x])
    BY <2>1 DEF WdOf
  <2> QED BY <2>1 DEF WatchOf
<1> HIDE DEF w
<1>4. /\ watch' \in [Wd -> Inode \union {None}] /\ nextwd' \in 1 .. MaxWd + 1
      /\ wd_to_path' \in [Wd -> Path \union {NoPath}] /\ path_to_wd' \in [Path -> Wd \union {None}]
  <2>1. nextwd' \in 1 .. MaxWd + 1
    BY <1>0, <1>1 DEF Wd
  <2> QED BY <1>0, <1>1, <2>1
<1>5. /\ \A v \in Wd : watch'[v] = IF v = w THEN dir[x] ELSE watch[v]
      /\ \A v \in Wd : wd_to_path'[v] = IF v = w THEN x ELSE wd_to_path[v]
      /\ \A p \in Path : path_to_wd'[p] = IF p = x THEN w ELSE path_to_wd[p]
      /\ w # None /\ x # NoPath
  BY <1>0, <1>1
<1>6. NoStrayWatch'
  BY <1>0, <1>1, <1>5 DEF IInv, NoStrayWatch
<1>7. Kernel'
  <2>1. Kernel /\ Disk /\ dir' = dir /\ Made' = Made
    BY DEF IInv, State, tree, Made
  <2>2. ASSUME NEW u \in Wd, NEW v \in Wd, watch'[u] = watch'[v], watch'[u] # None PROVE u = v
    <3>1. CASE watch[w] = dir[x]
      BY <1>5, <2>1, <2>2, <3>1 DEF Kernel
    <3>2. CASE watch[w] # dir[x]
      <4>1. \A z \in Wd : watch[z] # dir[x]
        BY <1>3, <3>2 DEF WatchOf
      <4> QED BY <1>5, <2>1, <2>2, <4>1 DEF Kernel
    <3> QED BY <3>1, <3>2
  <2>3. \A v \in Wd : watch'[v] <= Made'
    BY <1>5, <2>1 DEF Kernel, Disk
  <2> QED BY <2>2, <2>3 DEF Kernel
<1>8. Fresh'
  <2> SUFFICES ASSUME NEW v \in Wd, v >= nextwd'
               PROVE  /\ watch'[v] = None /\ wd_to_path'[v] = NoPath
                      /\ \A p \in Path : path_to_wd'[p] # v
                      /\ \A e \in Queued' : e[2] # v
    BY DEF Fresh
  <2>1. v \in Nat /\ nextwd \in Nat /\ nextwd' \in Nat /\ w \in Nat
    BY <1>0, <1>1, <1>4
  <2>2. v >= nextwd
    BY <1>0, <2>1
  <2>3. /\ watch[v] = None /\ wd_to_path[v] = NoPath
        /\ \A p \in Path : path_to_wd[p] # v
        /\ \A e \in Queued : e[2] # v
    BY <2>2 DEF IInv, State, Fresh
  <2>4. v # w
    <3>1. CASE w = nextwd
      BY <1>0, <2>1, <3>1
    <3>2. CASE w # nextwd
      BY <1>2, <2>3, <3>2
    <3> QED BY <3>1, <3>2
  <2> QED BY <1>5, <2>3, <2>4 DEF Queued, Items
<1>9. Right'
  <2> SUFFICES ASSUME NEW p \in Sure' PROVE Known(p)' /\ Found(p)' /\ Due(p)'
    BY DEF Right
  <2>1. p \in Sure /\ p \in Path /\ Known(p) /\ Found(p) /\ Due(p) /\ Queued' = Queued /\ dir' = dir
    BY DEF Sure, IInv, Right, tree, Queued, Items
  <2>2. path_to_wd[p] \in Wd \union {None}
    BY <1>1, <2>1
  <2>3. \A q \in Path : dir[q] = dir[x] => q = x
    BY DEF IInv, State, Disk, IsTree
  <2>4. watch[w] # dir[x] =>
          /\ watch[w] = None /\ wd_to_path[w] = NoPath
          /\ \A q \in Path : path_to_wd[q] # w
          /\ \A e \in Queued : e[2] # w
    <3> SUFFICES ASSUME watch[w] # dir[x]
                 PROVE  /\ watch[w] = None /\ wd_to_path[w] = NoPath
                        /\ \A q \in Path : path_to_wd[q] # w
                        /\ \A e \in Queued : e[2] # w
      OBVIOUS
    <3>1. w = nextwd /\ w \in Nat /\ w >= nextwd
      BY <1>0, <1>1, <1>2
    <3> QED BY <1>0, <3>1 DEF IInv, State, Fresh
  <2>5. watch[w] = dir[x] => x \in unsure
    <3> SUFFICES ASSUME watch[w] = dir[x], x \notin unsure PROVE FALSE
      OBVIOUS
    <3>1. Found(x)
      BY DEF IInv, Right, Sure
    <3> QED BY <1>0, <3>1 DEF Found
  <2>6. CASE p # x
    <3>1. path_to_wd'[p] = path_to_wd[p]
      BY <1>5, <2>1, <2>6
    <3>2. path_to_wd[p] # w
      <4> SUFFICES ASSUME path_to_wd[p] = w PROVE FALSE
        OBVIOUS
      <4>1. watch[w] = dir[x]
        BY <2>1, <2>4
      <4>2. watch[w] = dir[p]
        BY <1>5, <2>1 DEF Known
      <4> QED BY <2>1, <2>3, <2>6, <4>1, <4>2
    <3>3. Known(p)'
      BY <1>5, <2>1, <2>2, <3>1, <3>2 DEF Known
    <3>4. Found(p)'
      <4> SUFFICES ASSUME dir[p] # None
                   PROVE  /\ \A v \in Wd : watch'[v] = dir[p] => path_to_wd[p] = v
                          /\ p \notin removed_dirs
                          /\ \A e \in Queued : e[1] \in {"gone", "self"} => ~About(e, p)'
        BY <2>1, <3>1 DEF Found
      <4>1. \A v \in Wd : watch'[v] = dir[p] => path_to_wd[p] = v
        BY <1>5, <2>1, <2>3, <2>6 DEF Found
      <4>2. ASSUME NEW e \in Queued, e[1] \in {"gone", "self"}, About(e, p)' PROVE FALSE
        <5>0. e[2] \in Wd
          <6>1. e \in Event
            BY ElementOfSeq DEF Queued, Items, IInv, TypeOK
          <6> QED BY <6>1 DEF Event
        <5>1. CASE e[2] # w
          <6>1. wd_to_path'[e[2]] = wd_to_path[e[2]]
            BY <1>5, <5>0, <5>1
          <6>2. About(e, p)
            BY <4>2, <6>1 DEF About
          <6> QED BY <2>1, <4>2, <6>2 DEF Found
        <5>2. CASE e[2] = w
          <6>1. x \in unsure /\ wd_to_path'[w] = x
            BY <1>0, <1>5, <2>4, <2>5, <5>2
          <6>2. p = x \/ Parent(p) = x
            BY <4>2, <5>2, <6>1 DEF About
          <6>3. Parent(p) = x
            BY <2>6, <6>2
          <6>4. Len(p) > 1
            BY <2>1, <6>3, <1>5, TopParent
          <6> QED BY <2>1, <6>1, <6>3, <6>4 DEF IInv, State, Closed, Sure
        <5> QED BY <5>1, <5>2
      <4> QED BY <2>1, <4>1, <4>2 DEF Found
    <3>5. Due(p)'
      <4> SUFFICES ASSUME p \in Seen, owner # "stopped", dir[p] # None, path_to_wd[p] = None
                   PROVE  \/ p \in Pending'
                          \/ /\ p # Root
                             /\ \/ Parent(p) \in opened'
                                \/ path_to_wd'[Parent(p)] = None
                                \/ <<"new", path_to_wd'[Parent(p)], Base(p)>> \in Queued
        BY <2>1, <3>1 DEF Due
      <4>1. CASE p \in Pending
        BY <2>6, <4>1
      <4>2. CASE p # Root /\ Parent(p) = x
        BY <4>2
      <4>3. CASE p # Root /\ Parent(p) # x /\ p \notin Pending
        <5>1. Parent(p) \in Path
          BY <2>1, <4>3, ParentSure
        <5>2. path_to_wd'[Parent(p)] = path_to_wd[Parent(p)]
          BY <1>5, <4>3, <5>1
        <5> QED BY <2>1, <4>3, <5>2 DEF Due
      <4> QED BY <2>1, <4>1, <4>2, <4>3 DEF Due
    <3> QED BY <3>3, <3>4, <3>5
  <2>7. CASE p = x
    <3>1. watch[w] # dir[x]
      BY <2>1, <2>5, <2>7 DEF Sure
    <3>2. Known(p)'
      BY <1>0, <1>5, <2>1, <2>4, <2>7, <3>1 DEF Known
    <3>3. Found(p)'
      <4>1. \A v \in Wd : watch'[v] = dir[x] => w = v
        BY <1>3, <1>5, <3>1 DEF WatchOf
      <4>2. \A e \in Queued : About(e, x)' => About(e, x)
        <5> SUFFICES ASSUME NEW e \in Queued, About(e, x)' PROVE About(e, x)
          OBVIOUS
        <5>1. e[2] \in Wd
          <6>1. e \in Event
            BY ElementOfSeq DEF Queued, Items, IInv, TypeOK
          <6> QED BY <6>1 DEF Event
        <5>2. wd_to_path'[e[2]] = wd_to_path[e[2]]
          BY <1>5, <2>4, <3>1, <5>1
        <5> QED BY <5>2 DEF About
      <4> QED BY <1>5, <2>1, <2>7, <4>1, <4>2 DEF Found
    <3>4. Due(p)'
      BY <1>5, <2>7 DEF Due
    <3> QED BY <3>2, <3>3, <3>4
  <2> QED BY <2>6, <2>7
<1>10. \A p \in Path : path_to_wd'[p] # None => p \in Below[Root]
  BY <1>5 DEF IInv, State, Inside
<1> QED BY <1>4, <1>6, <1>7, <1>8, <1>9, <1>10

\* Steps that change neither the disk, nor the kernel, nor the tables.
LEMMA IdleKeeps ==
  ASSUME IInv, TypeOK', Phases', Inside', Closed',
         UNCHANGED <<tree, kernel, tables, removed_dirs>>, unsure \subseteq unsure',
         owner = "stopped" => owner' = "stopped" \/ Root \in Pending',
         \A p \in Sure' :
           /\ p \in Seen /\ dir[p] # None /\ path_to_wd[p] = None /\ owner # "stopped"
           /\ p \in Pending \/ (p # Root /\ Parent(p) \in opened)
           => p \in Pending' \/ (p # Root /\ Parent(p) \in opened')
  PROVE  IInv'
<1> USE Paths1
<1>1. UNCHANGED <<dir, ops, watch, nextwd, queue, wd_to_path, path_to_wd, removed_dirs>> /\ Queued' = Queued
  BY DEF tree, kernel, tables, Queued, Items
<1>2. NoStrayWatch' /\ Disk' /\ Kernel' /\ Fresh'
  BY <1>1 DEF IInv, NoStrayWatch, State, Disk, IsTree, Made, Kernel, Fresh
<1>3. Right'
  <2> SUFFICES ASSUME NEW p \in Sure' PROVE Known(p)' /\ Found(p)' /\ Due(p)'
    BY DEF Right
  <2>1. p \in Sure /\ p \in Path /\ Known(p) /\ Found(p) /\ Due(p)
    BY DEF Sure, IInv, Right
  <2>2. Known(p)'
    BY <1>1, <2>1 DEF Known
  <2>3. Found(p)'
    <3>1. \A e \in Queued : About(e, p)' <=> About(e, p)
      BY <1>1 DEF About
    <3> QED BY <1>1, <2>1, <3>1 DEF Found
  <2>4. Due(p)'
    <3>1. CASE owner # "stopped"
      BY <1>1, <2>1, <3>1 DEF Due
    <3>2. CASE owner = "stopped"
      <4>1. owner' = "stopped" \/ Root \in Pending'
        BY <3>2
      <4>2. p # Root => path_to_wd[Parent(p)] = None
        <5>1. p # Root => Parent(p) \in Path
          BY <2>1, ParentSure
        <5>2. path_to_wd = NoWds
          BY <3>2 DEF IInv, State, Phases
        <5> QED BY <5>1, <5>2 DEF NoWds
      <4> QED BY <1>1, <4>1, <4>2 DEF Due
    <3> QED BY <3>1, <3>2
  <2> QED BY <2>2, <2>3, <2>4
<1> QED BY <1>2, <1>3 DEF IInv, State

\* A visit of the walk keeps the invariant.
LEMMA VisitKeeps == ASSUME IInv, NEW k \in 0 .. MaxQueue, NEW x \in Path, Visit(k, x) PROVE IInv'
<1> USE Paths1
<1>0. /\ Walking /\ <<k, x>> \in new_dirs /\ new_dirs' = new_dirs \ {<<k, x>>} /\ opened = {}
      /\ UNCHANGED <<tree, queue, owner, thread, removed_dirs, events, owed>>
  BY DEF Visit
<1>1. TypeOK /\ Phases /\ Inside /\ Closed /\ Disk
  BY DEF IInv, State
<1>2. x \in Pending /\ x \in Below[Root]
  <2>1. x \in Pending
    BY <1>0 DEF Pending
  <2> QED BY <1>1, <2>1 DEF Inside
<1>3. Pending' \subseteq Pending /\ Pending \ {x} \subseteq Pending'
  <2>1. ASSUME NEW q \in Pending \ {x} PROVE q \in Pending'
    <3>1. PICK d \in new_dirs : q = d[2]
      BY DEF Pending
    <3>2. d # <<k, x>>
      BY <3>1
    <3> QED BY <1>0, <3>1, <3>2 DEF Pending
  <2> QED BY <1>0, <2>1 DEF Pending
<1>4. new_dirs' \subseteq (0 .. MaxQueue) \X Path
  BY <1>0, <1>1 DEF TypeOK
<1>6. CASE (dir[x] = None \/ x \notin Seen) /\ UNCHANGED <<watch, nextwd, tables, unsure, opened>>
  <2>1. TypeOK' /\ Inside' /\ Closed' /\ Phases'
    BY <1>0, <1>1, <1>3, <1>4, <1>6 DEF TypeOK, Inside, Closed, Phases, Walking, tables, tree
  <2>2. UNCHANGED <<kernel, tables>>
    BY <1>0, <1>6 DEF kernel
  <2>3. owner # "stopped"
    BY <1>0, <1>1 DEF Walking, Phases
  <2> QED BY <1>0, <1>3, <1>6, <2>1, <2>2, <2>3, IdleKeeps
<1>7. CASE dir[x] # None /\ x \in Seen /\ add_watch(x) /\ opened' = opened \union {x}
  <2>0. opened' = {x} /\ owner # "stopped"
    BY <1>0, <1>1, <1>7 DEF Walking, Phases
  <2>1. CASE path_to_wd[x] # None /\ UNCHANGED <<watch, nextwd, tables, unsure>>
    <3>1. TypeOK' /\ Inside' /\ Closed' /\ Phases'
      BY <1>0, <1>1, <1>2, <1>3, <1>4, <2>0, <2>1 DEF TypeOK, Inside, Closed, Phases, Walking, tables, tree
    <3>2. UNCHANGED <<kernel, tables>>
      BY <1>0, <2>1 DEF kernel
    <3> QED BY <1>0, <1>3, <2>0, <2>1, <3>1, <3>2, IdleKeeps
  <2>2. CASE path_to_wd[x] = None /\ Watch(x, dir[x]) /\ UNCHANGED unsure
    <3>1. /\ NoStrayWatch' /\ Kernel' /\ Fresh' /\ Right'
          /\ \A p \in Path : path_to_wd'[p] # None => p \in Below[Root]
          /\ watch' \in [Wd -> Inode \union {None}] /\ nextwd' \in 1 .. MaxWd + 1
          /\ wd_to_path' \in [Wd -> Path \union {NoPath}] /\ path_to_wd' \in [Path -> Wd \union {None}]
      BY <1>0, <1>2, <1>3, <1>7, <2>0, <2>2, WatchKeeps
    <3>2. TypeOK'
      BY <1>0, <1>1, <1>4, <2>0, <2>2, <3>1 DEF TypeOK, tree
    <3>3. Inside' /\ Closed' /\ Disk' /\ Phases'
      BY <1>0, <1>1, <1>2, <1>3, <2>0, <2>2, <3>1 DEF Inside, Closed, Disk, IsTree, Made, Phases, Walking, tree
    <3> QED BY <3>1, <3>2, <3>3 DEF IInv, State
  <2>3. CASE path_to_wd[x] = None /\ unsure' = unsure \union Below[x] /\ UNCHANGED <<watch, nextwd, tables>>
    <3>1. Closed'
      BY <1>1, <2>3, Descend DEF Closed
    <3>2. TypeOK' /\ Inside' /\ Phases'
      BY <1>0, <1>1, <1>2, <1>3, <1>4, <2>0, <2>3 DEF TypeOK, Inside, Phases, Walking, tables, tree
    <3>3. UNCHANGED <<kernel, tables>>
      BY <1>0, <2>3 DEF kernel
    <3>4. \A p \in Sure' : p # x
      BY <2>3, Descend DEF Sure
    <3> QED BY <1>0, <1>3, <2>0, <2>3, <3>1, <3>2, <3>3, <3>4, IdleKeeps
  <2> QED BY <1>7, <2>1, <2>2, <2>3 DEF add_watch
<1> QED BY <1>6, <1>7 DEF Visit

\* A listing of the walk keeps the invariant.
LEMMA ListKeeps == ASSUME IInv, NEW x \in Path, List(x) PROVE IInv'
<1> USE Paths1
<1>0. /\ Walking /\ x \in opened /\ opened' = opened \ {x}
      /\ new_dirs' = new_dirs \union ({0} \X Children(x))
      /\ UNCHANGED <<tree, kernel, tables, owner, thread, removed_dirs, events, owed, unsure>>
  BY DEF List
<1>1. TypeOK /\ Phases /\ Inside /\ Closed /\ MaxQueue \in Nat
  BY BoundAssumption DEF IInv, State
<1>2. Children(x) \subseteq Below[Root]
  <2> SUFFICES ASSUME NEW q \in Children(x) PROVE q \in Below[Root]
    OBVIOUS
  <2>1. q \in Path /\ Parent(q) = x
    BY DEF Children
  <2>2. Len(q) > 1
    BY <2>1, TopParent
  <2>3. x \in Below[Root]
    BY <1>0, <1>1 DEF Inside
  <2> QED BY <2>1, <2>2, <2>3, Descend
<1>3. Pending' = Pending \union Children(x)
  <2>1. {d[2] : d \in {0} \X Children(x)} = Children(x)
    <3>1. ASSUME NEW q \in Children(x) PROVE \E d \in {0} \X Children(x) : q = d[2]
      <4>1. <<0, q>> \in {0} \X Children(x) /\ q = <<0, q>>[2]
        OBVIOUS
      <4> QED BY <4>1
    <3> QED BY <3>1
  <2> QED BY <1>0, <2>1 DEF Pending
<1>4. TypeOK'
  <2>1. new_dirs' \subseteq (0 .. MaxQueue) \X Path
    BY <1>0, <1>1, <1>2 DEF TypeOK
  <2> QED BY <1>0, <1>1, <2>1 DEF TypeOK, tree, kernel, tables
<1>5. Inside' /\ Closed'
  BY <1>0, <1>1, <1>2, <1>3 DEF Inside, Closed, tables
<1>6. Phases' /\ owner # "stopped"
  BY <1>0, <1>1 DEF Phases, Walking, kernel, tables
<1>7. \A p \in Path : dir[p] # None /\ Parent(p) = x => p \in Children(x)
  BY DEF Children
<1>8. \A p \in Sure' : p \in Path
  BY DEF Sure
<1> QED BY <1>0, <1>3, <1>4, <1>5, <1>6, <1>7, <1>8, IdleKeeps

\* start() and stop() keep the invariant.
LEMMA OwnerKeeps == ASSUME IInv, Start \/ StartThread \/ Stop PROVE IInv'
<1> USE Paths1
<1>1. TypeOK /\ Phases /\ Inside /\ Closed /\ MaxQueue \in Nat
  BY BoundAssumption DEF IInv, State
<1>2. CASE Start
  <2>1. Pending' = {Root}
    BY <1>2 DEF Start, Pending
  <2>2. opened' = {} /\ owner = "stopped" /\ thread = "none"
    BY <1>1, <1>2 DEF Start, Phases
  <2>3. TypeOK' /\ Inside' /\ Closed' /\ Phases'
    BY <1>1, <1>2, <2>1, <2>2 DEF Start, TypeOK, Inside, Closed, Phases, tree, kernel, tables
  <2> QED BY <1>2, <2>1, <2>2, <2>3, IdleKeeps DEF Start
<1>3. CASE StartThread
  <2>1. TypeOK' /\ Inside' /\ Closed' /\ Phases'
    BY <1>1, <1>3 DEF StartThread, TypeOK, Inside, Closed, Phases, tree, kernel, tables, batch, Pending
  <2>2. Pending' = Pending
    BY <1>3 DEF StartThread, Pending, batch
  <2> QED BY <1>3, <2>1, <2>2, IdleKeeps DEF StartThread, batch
<1>4. CASE Stop
  <2>1. TypeOK' /\ Inside' /\ Closed' /\ Phases'
    BY <1>1, <1>4 DEF Stop, TypeOK, Inside, Closed, Phases, tree, kernel, tables, batch, Pending
  <2>2. Pending' = Pending
    BY <1>4 DEF Stop, Pending, batch
  <2> QED BY <1>4, <2>1, <2>2, IdleKeeps DEF Stop, batch
<1> QED BY <1>2, <1>3, <1>4

\* join() and clear() empty everything.
LEMMA JoinKeeps == ASSUME IInv, Join PROVE IInv'
<1> USE Paths1
<1>0. /\ owner = "stopping" /\ thread = "none" /\ owner' = "stopped" /\ watch' = NoWatch /\ nextwd' = 1
      /\ queue' = <<>> /\ wd_to_path' = NoPaths /\ path_to_wd' = NoWds /\ owed' = NoPath /\ unsure' = {}
      /\ UNCHANGED <<dir, ops, thread, new_dirs, opened, removed_dirs, events>>
  BY DEF Join, tree, batch
<1>1. TypeOK /\ Phases /\ Disk /\ MaxWd \in Nat /\ MaxQueue \in Nat
  BY BoundAssumption DEF IInv, State
<1>2. /\ \A w \in Wd : watch'[w] = None /\ wd_to_path'[w] = NoPath
      /\ \A p \in Path : path_to_wd'[p] = None
      /\ Queued' = {} /\ <<>> \in Seq(Event) /\ Len(<<>>) = 0
  BY <1>0 DEF NoWatch, NoPaths, NoWds, Queued, Items
<1>3. TypeOK'
  <2>1. queue' \in Seq(Event) /\ Len(queue') <= MaxQueue /\ nextwd' \in 1 .. MaxWd + 1
    BY <1>0, <1>1, <1>2
  <2> QED BY <1>0, <1>1, <2>1 DEF TypeOK, NoWatch, NoPaths, NoWds
<1>4. new_dirs = {} /\ opened = {} /\ removed_dirs = {}
  BY <1>0, <1>1 DEF Phases
<1>5. NoStrayWatch' /\ Fresh' /\ Phases' /\ Inside' /\ Closed'
  BY <1>0, <1>2, <1>4 DEF NoStrayWatch, Fresh, Phases, Inside, Closed, Pending
<1>6. Disk' /\ Kernel'
  <2>1. Made \in Nat /\ Made' = Made
    BY <1>0, <1>1, BoundAssumption DEF Made, TypeOK
  <2>2. Disk'
    BY <1>0, <1>1, <2>1 DEF Disk, IsTree
  <2>3. \A w \in Wd : watch'[w] <= Made'
    BY <1>2, <2>1 DEF None
  <2>4. Kernel'
    BY <1>2, <2>3 DEF Kernel
  <2> QED BY <2>2, <2>4
<1>7. Right'
  BY <1>0, <1>3, <1>5, StoppedRight
<1> QED BY <1>3, <1>5, <1>6, <1>7 DEF IInv, State

\* The steps of the loop around a batch keep the invariant.
LEMMA LoopKeeps == ASSUME IInv, Test \/ Timeout \/ Break \/ Callback PROVE IInv'
<1> USE Paths1
<1>1. TypeOK /\ Phases /\ Inside /\ Closed
  BY DEF IInv, State
<1>2. /\ UNCHANGED <<tree, kernel, tables, owner, new_dirs, opened, removed_dirs, unsure>>
      /\ thread' \in {"none", "test", "select"} /\ thread # "none"
      /\ thread = "apply" => new_dirs = {} /\ opened = {} /\ removed_dirs = {}
      /\ events' \subseteq Path /\ owed' \in Path \union {NoPath}
  BY <1>1 DEF Test, Timeout, Break, Callback, GoTo, batch, TypeOK
<1>3. TypeOK' /\ Inside' /\ Closed' /\ Phases'
  BY <1>1, <1>2 DEF TypeOK, Inside, Closed, Phases, tree, kernel, tables, Pending
<1>4. Pending' = Pending
  BY <1>2 DEF Pending
<1> QED BY <1>2, <1>3, <1>4, IdleKeeps

\* A batch is read: what was on its way in the queue is now in its lists.
LEMMA ReadKeeps == ASSUME IInv, Read PROVE IInv'
<1> USE Paths1
<1>1. /\ TypeOK /\ Phases /\ Inside /\ Closed /\ Disk /\ Kernel /\ Fresh /\ NoStrayWatch
      /\ queue \in Seq(Event) /\ MaxQueue \in Nat /\ Len(queue) \in Nat /\ Len(queue) <= MaxQueue
  BY BoundAssumption, LenProperties DEF IInv, State, TypeOK
<1> DEFINE buf(n) == SubSeq(queue, 1, n)
<1>2. PICK k \in 1 .. Len(queue) :
        /\ queue' = SubSeq(queue, k + 1, Len(queue))
        /\ new_dirs' = {d \in (1 .. k) \X Path : buf(k)[d[1]][1] = "new" /\ About(buf(k)[d[1]], d[2])}
        /\ removed_dirs' = Paths(buf(k), {"gone", "self"})
        /\ events' = Paths(buf(k), {"file"})
  BY DEF Read
<1>3. /\ thread = "select" /\ thread' = "apply"
      /\ UNCHANGED <<dir, ops, watch, nextwd, wd_to_path, path_to_wd, owner, opened, owed, unsure>>
  BY DEF Read, tree, tables
<1> DEFINE b == buf(k)
<1>4. /\ b \in Seq(Event) /\ Len(b) = k /\ Items(b) = {queue[i] : i \in 1 .. k}
      /\ queue' \in Seq(Event) /\ Queued' = {queue[i] : i \in k + 1 .. Len(queue)}
      /\ Len(queue') <= MaxQueue
  <2>1. 1 \in Nat /\ k \in Nat /\ 1 >= 1 /\ k <= Len(queue) /\ 1 <= k /\ k + 1 \in Nat /\ k + 1 >= 1
        /\ Len(queue) <= Len(queue) /\ k - 1 + 1 = k
    BY <1>1
  <2>2. b \in Seq(Event) /\ Items(b) = {queue[i] : i \in 1 .. k}
        /\ Len(b) = IF 1 <= k THEN k - 1 + 1 ELSE 0
    BY <1>1, <2>1, ItemsPart
  <2>3. queue' \in Seq(Event) /\ Items(queue') = {queue[i] : i \in k + 1 .. Len(queue)}
        /\ Len(queue') = IF k + 1 <= Len(queue) THEN Len(queue) - (k + 1) + 1 ELSE 0
    BY <1>1, <1>2, <2>1, ItemsPart
  <2>4. Len(queue') <= MaxQueue
    <3>1. CASE k + 1 <= Len(queue)
      BY <1>1, <2>1, <2>3, <3>1
    <3>2. CASE ~(k + 1 <= Len(queue))
      BY <1>1, <2>3, <3>2
    <3> QED BY <3>1, <3>2
  <2> QED BY <2>1, <2>2, <2>3, <2>4 DEF Queued
<1> HIDE DEF b
<1>5. Queued = Items(b) \union Queued'
  <2>1. Queued = {queue[i] : i \in 1 .. Len(queue)}
    BY DEF Queued, Items
  <2>2. \A i \in 1 .. Len(queue) : i \in 1 .. k \/ i \in k + 1 .. Len(queue)
    BY <1>1
  <2>3. \A i \in 1 .. k : i \in 1 .. Len(queue)
    BY <1>1
  <2>4. \A i \in k + 1 .. Len(queue) : i \in 1 .. Len(queue)
    BY <1>1
  <2> QED BY <1>4, <2>1, <2>2, <2>3, <2>4
<1>6. \A kinds : Paths(b, kinds) = {p \in Path : \E e \in Items(b) : e[1] \in kinds /\ About(e, p)}
  BY DEF Paths, Items
<1>7. Pending' = {p \in Path : \E e \in Items(b) : e[1] = "new" /\ About(e, p)}
  <2>0. new_dirs' = {d \in (1 .. k) \X Path : b[d[1]][1] = "new" /\ About(b[d[1]], d[2])}
    BY <1>2 DEF b
  <2>1. ASSUME NEW p \in Pending' PROVE p \in Path /\ \E e \in Items(b) : e[1] = "new" /\ About(e, p)
    <3>1. PICK d \in new_dirs' : p = d[2]
      BY DEF Pending
    <3>2. d[1] \in 1 .. k /\ p \in Path /\ b[d[1]][1] = "new" /\ About(b[d[1]], p)
      BY <2>0, <3>1
    <3>3. b[d[1]] \in Items(b)
      BY <1>4, <3>2 DEF Items
    <3> QED BY <3>2, <3>3
  <2>2. ASSUME NEW p \in Path, NEW e \in Items(b), e[1] = "new", About(e, p) PROVE p \in Pending'
    <3>1. PICK i \in 1 .. k : e = b[i]
      BY <1>4 DEF Items
    <3>2. <<i, p>> \in (1 .. k) \X Path /\ <<i, p>>[1] = i /\ <<i, p>>[2] = p
      OBVIOUS
    <3>3. <<i, p>> \in new_dirs'
      BY <2>0, <2>2, <3>1, <3>2
    <3> QED BY <3>2, <3>3 DEF Pending
  <2> QED BY <2>1, <2>2
<1>8. /\ removed_dirs' = {p \in Path : \E e \in Items(b) : e[1] \in {"gone", "self"} /\ About(e, p)}
      /\ events' \subseteq Path
      /\ new_dirs' \subseteq (0 .. MaxQueue) \X Path
  <2>1. removed_dirs' = Paths(b, {"gone", "self"}) /\ events' = Paths(b, {"file"})
    BY <1>2 DEF b
  <2>2. \A i \in 1 .. k : i \in 0 .. MaxQueue
    BY <1>1
  <2> QED BY <1>2, <1>6, <2>1, <2>2
<1>9. TypeOK'
  BY <1>1, <1>3, <1>4, <1>8 DEF TypeOK
<1>10. NoStrayWatch' /\ Disk' /\ Kernel' /\ Closed'
  BY <1>1, <1>3 DEF NoStrayWatch, Disk, IsTree, Made, Kernel, Closed
<1>11. Fresh'
  BY <1>1, <1>3, <1>5 DEF Fresh
<1>12. new_dirs = {} /\ opened = {} /\ removed_dirs = {} /\ owner \notin {"stopped", "starting"}
  BY <1>1, <1>3 DEF Phases
<1>13. Phases'
  BY <1>1, <1>3, <1>12 DEF Phases
<1>14. Inside'
  <2>1. ASSUME NEW p \in Path, NEW e \in Items(b), e[1] = "new", About(e, p) PROVE p \in Below[Root]
    <3>1. e \in Event
      BY <1>4, ElementOfSeq DEF Items
    <3>2. e[2] \in Wd
      BY <3>1 DEF Event
    <3>3. Parent(p) = wd_to_path[e[2]] /\ wd_to_path[e[2]] # NoPath
      BY <2>1 DEF About
    <3>4. Len(p) > 1 /\ Parent(p) \in Path
      BY <3>3, TopParent, ParentPath
    <3>5. path_to_wd[Parent(p)] = e[2]
      BY <1>1, <3>2, <3>3 DEF NoStrayWatch
    <3>6. Parent(p) \in Below[Root]
      BY <1>1, <3>2, <3>4, <3>5 DEF Inside
    <3> QED BY <3>4, <3>6, Descend
  <2> QED BY <1>1, <1>3, <1>7, <1>12, <2>1 DEF Inside
<1>15. Right'
  <2> SUFFICES ASSUME NEW p \in Sure' PROVE Known(p)' /\ Found(p)' /\ Due(p)'
    BY DEF Right
  <2>1. p \in Sure /\ p \in Path /\ Known(p) /\ Found(p) /\ Due(p)
    BY <1>3 DEF Sure, IInv, Right
  <2>2. Known(p)'
    <3> SUFFICES ASSUME path_to_wd[p] # None, dir[p] = None,
                        <<"self", path_to_wd[p], ".">> \in Items(b)
                 PROVE  p \in removed_dirs'
      BY <1>3, <1>5, <1>12, <2>1 DEF Known
    <3>1. wd_to_path[path_to_wd[p]] = p
      BY <2>1 DEF Known
    <3>2. About(<<"self", path_to_wd[p], ".">>, p)
      BY <2>1, <3>1 DEF About
    <3> QED BY <1>8, <2>1, <3>2
  <2>3. Found(p)'
    <3>1. \A e : About(e, p)' <=> About(e, p)
      BY <1>3 DEF About
    <3> QED BY <1>3, <1>5, <1>8, <2>1, <3>1 DEF Found
  <2>4. Due(p)'
    <3> SUFFICES ASSUME p \in Seen, dir[p] # None, path_to_wd[p] = None, p # Root,
                        path_to_wd[Parent(p)] # None,
                        <<"new", path_to_wd[Parent(p)], Base(p)>> \in Items(b)
                 PROVE  p \in Pending'
      <4>1. Pending = {}
        BY <1>12 DEF Pending
      <4> QED BY <1>3, <1>5, <1>12, <2>1, <4>1 DEF Due
    <3>1. Parent(p) \in Sure /\ Parent(p) \in Path /\ Len(p) > 1
      BY <2>1, ParentSure
    <3>2. wd_to_path[path_to_wd[Parent(p)]] = Parent(p)
      BY <3>1 DEF IInv, Right, Known
    <3>3. Base(p) \notin Ignored
      <4>1. Len(p) \in 1 .. Len(p)
        BY <2>1, PathType
      <4> QED BY <4>1 DEF Seen, Base
    <3>4. About(<<"new", path_to_wd[Parent(p)], Base(p)>>, p)
      BY <3>1, <3>2, <3>3 DEF About
    <3> QED BY <1>7, <2>1, <3>4
  <2> QED BY <2>2, <2>3, <2>4
<1> QED BY <1>9, <1>10, <1>11, <1>13, <1>14, <1>15 DEF IInv, State

\* remove_watch() keeps the invariant.
LEMMA RemoveKeeps == ASSUME IInv, NEW x \in Path, Remove(x) PROVE IInv'
<1> USE Paths1
<1>0. /\ thread = "apply" /\ new_dirs = {} /\ opened = {} /\ x \in removed_dirs
      /\ removed_dirs' = removed_dirs \ {x}
      /\ UNCHANGED <<dir, ops, nextwd, queue, owner, thread, new_dirs, opened, events, owed, unsure>>
  BY DEF Remove, tree
<1>1. /\ TypeOK /\ Phases /\ Inside /\ Closed /\ Disk /\ Kernel /\ Fresh /\ NoStrayWatch
      /\ wd_to_path \in [Wd -> Path \union {NoPath}] /\ path_to_wd \in [Path -> Wd \union {None}]
      /\ watch \in [Wd -> Inode \union {None}]
  BY DEF IInv, State, TypeOK
<1>2. /\ path_to_wd' \in [Path -> Wd \union {None}] /\ wd_to_path' \in [Wd -> Path \union {NoPath}]
      /\ watch' \in [Wd -> Inode \union {None}]
      /\ \A p \in Path : path_to_wd'[p] = IF p = x THEN None ELSE path_to_wd[p]
      /\ \A w \in Wd : wd_to_path'[w] = IF w = path_to_wd[x] THEN NoPath ELSE wd_to_path[w]
      /\ \A w \in Wd : watch'[w] = IF w = path_to_wd[x] THEN None ELSE watch[w]
  <2>1. CASE path_to_wd[x] = None
    BY <1>1, <2>1 DEF Remove, tables
  <2>2. CASE path_to_wd[x] # None
    BY <1>1, <2>2 DEF Remove, remove_watch
  <2> QED BY <2>1, <2>2
<1>3. Queued' = Queued /\ Pending' = Pending /\ Pending = {} /\ Made' = Made
  BY <1>0 DEF Queued, Items, Pending, Made
<1>4. TypeOK'
  BY <1>0, <1>1, <1>2 DEF TypeOK
<1>5. NoStrayWatch'
  BY <1>1, <1>2 DEF NoStrayWatch
<1>6. Disk' /\ Closed'
  BY <1>0, <1>1, <1>3 DEF Disk, IsTree, Closed
<1>7. Kernel'
  <2>1. Made \in Nat
    BY <1>1, BoundAssumption DEF Made, TypeOK
  <2>2. \A w \in Wd : watch'[w] <= Made'
    BY <1>1, <1>2, <1>3, <2>1 DEF Kernel, None
  <2> QED BY <1>1, <1>2, <2>2 DEF Kernel
<1>8. Fresh'
  BY <1>0, <1>1, <1>2, <1>3 DEF Fresh
<1>9. Phases' /\ Inside'
  BY <1>0, <1>1, <1>2, <1>3 DEF Phases, Inside
<1>10. Right'
  <2> SUFFICES ASSUME NEW p \in Sure' PROVE Known(p)' /\ Found(p)' /\ Due(p)'
    BY DEF Right
  <2>1. p \in Sure /\ p \in Path /\ Known(p) /\ Found(p) /\ Due(p)
    BY <1>0 DEF Sure, IInv, Right
  <2>2. path_to_wd[p] \in Wd \union {None}
    BY <1>1, <2>1
  <2>3. Known(p)'
    BY <1>0, <1>2, <1>3, <2>1, <2>2 DEF Known
  <2>4. Found(p)'
    <3>1. dir[p] # None => p # x
      BY <1>0, <2>1 DEF Found
    <3>2. dir[p] # None => path_to_wd'[p] = path_to_wd[p]
      BY <1>2, <2>1, <3>1
    <3>3. ASSUME NEW e \in Queued, About(e, p)' PROVE About(e, p)
      <4>1. e \in Event
        BY <1>1, ElementOfSeq DEF Queued, Items, TypeOK
      <4>2. e[2] \in Wd
        BY <4>1 DEF Event
      <4>3. wd_to_path'[e[2]] = wd_to_path[e[2]]
        BY <1>2, <3>3, <4>2 DEF About
      <4> QED BY <3>3, <4>3 DEF About
    <3>4. \A w \in Wd : watch'[w] = dir[p] /\ dir[p] # None => watch[w] = dir[p]
      BY <1>2
    <3> QED BY <1>0, <1>3, <2>1, <3>2, <3>3, <3>4 DEF Found
  <2>5. Due(p)'
    <3>1. CASE p = x
      <4>1. dir[p] = None
        BY <1>0, <2>1, <3>1 DEF Found
      <4> QED BY <1>0, <4>1 DEF Due
    <3>2. CASE p # x
      <4>1. p # Root => Parent(p) \in Path
        BY <2>1, ParentSure
      <4> QED BY <1>0, <1>2, <1>3, <2>1, <3>2, <4>1 DEF Due
    <3> QED BY <3>1, <3>2
  <2> QED BY <2>3, <2>4, <2>5
<1> QED BY <1>4, <1>5, <1>6, <1>7, <1>8, <1>9, <1>10 DEF IInv, State

\* The invariant holds at first.
LEMMA InitKeeps == ASSUME Init PROVE IInv
<1> USE Paths1
<1>0. /\ dir = First /\ ops = 0 /\ watch = NoWatch /\ nextwd = 1 /\ queue = <<>>
      /\ wd_to_path = NoPaths /\ path_to_wd = NoWds /\ owner = "stopped" /\ thread = "none"
      /\ new_dirs = {} /\ opened = {} /\ removed_dirs = {} /\ events = {}
      /\ owed = NoPath /\ unsure = {}
  BY DEF Init
<1>1. /\ \A w \in Wd : watch[w] = None /\ wd_to_path[w] = NoPath
      /\ \A p \in Path : path_to_wd[p] = None
      /\ Queued = {} /\ <<>> \in Seq(Event) /\ Len(<<>>) = 0
  BY <1>0 DEF NoWatch, NoPaths, NoWds, Queued, Items
<1>2. Made = FirstMade /\ Made \in Nat
  BY <1>0, BoundAssumption DEF Made
<1>3. TypeOK
  <2>1. dir \in [Path -> Inode \union {None}]
    <3>1. 0 .. FirstMade \subseteq Inode \union {None}
      BY BoundAssumption DEF Inode, None
    <3> QED BY <1>0, <3>1, FirstAssumption
  <2>2. queue \in Seq(Event) /\ Len(queue) <= MaxQueue /\ nextwd \in 1 .. MaxWd + 1 /\ ops \in 0 .. MaxOp
    BY <1>0, <1>1, BoundAssumption
  <2> QED BY <1>0, <2>1, <2>2 DEF TypeOK, NoWatch, NoPaths, NoWds
<1>4. Disk
  <2>1. \A p \in Path : dir[p] <= Made
    BY <1>0, <1>2, FirstAssumption
  <2> QED BY <1>0, <2>1, FirstAssumption DEF Disk
<1>5. Kernel
  <2>1. None <= Made
    BY <1>2 DEF None
  <2>2. \A w \in Wd : watch[w] <= Made
    BY <1>1, <2>1
  <2> QED BY <1>1, <2>2 DEF Kernel
<1>6. NoStrayWatch /\ Fresh /\ Phases /\ Inside /\ Closed
  BY <1>0, <1>1 DEF NoStrayWatch, Fresh, Phases, Inside, Closed, Pending
<1>7. Right
  BY <1>0, <1>1 DEF Right, Known, Found, Due, Sure
<1> QED BY <1>3, <1>4, <1>5, <1>6, <1>7 DEF IInv, State

\* Every step keeps the invariant.
LEMMA NextKeeps == IInv /\ [Next]_vars => IInv'
<1> SUFFICES ASSUME IInv, [Next]_vars PROVE IInv'
  OBVIOUS
<1>1. CASE UNCHANGED vars
  <2>1. /\ UNCHANGED <<tree, kernel, tables, owner, thread, new_dirs, opened, removed_dirs, unsure>>
        /\ UNCHANGED <<events, owed>> /\ Pending' = Pending
    BY <1>1 DEF vars, batch, Pending
  <2>2. TypeOK' /\ Phases' /\ Inside' /\ Closed'
    BY <2>1 DEF IInv, State, TypeOK, Phases, Inside, Closed, tree, kernel, tables
  <2> QED BY <2>1, <2>2, IdleKeeps
<1>2. CASE Author
  BY <1>2, MkdirKeeps, RmdirKeeps, ChangeKeeps, MoveKeeps DEF Author
<1>3. CASE Start \/ StartThread \/ Stop
  BY <1>3, OwnerKeeps
<1>4. CASE Join
  BY <1>4, JoinKeeps
<1>5. CASE walk
  BY <1>5, ListKeeps, VisitKeeps DEF walk
<1>6. CASE Test \/ Timeout \/ Break \/ Callback
  BY <1>6, LoopKeeps
<1>7. CASE Read
  BY <1>7, ReadKeeps
<1>8. CASE \E p \in Path : Remove(p)
  BY <1>8, RemoveKeeps
<1> QED BY <1>1, <1>2, <1>3, <1>4, <1>5, <1>6, <1>7, <1>8 DEF Next, run

\* The invariant holds always.
LEMMA Always == Spec => []IInv
BY InitKeeps, NextKeeps, PTL DEF Spec
-----------------------------------------------------------------------------
(* The theorems                                                            *)

\* A path that is not ignored is in one that is not ignored.
LEMMA SeenUp == ASSUME NEW p \in Seen, Len(p) > 1 PROVE Parent(p) \in Seen
<1>1. p \in Path /\ p \in Seq(Name) /\ Len(p) \in Nat /\ Parent(p) \in Path
  BY PathType, ParentPath DEF Seen
<1>2. Len(Parent(p)) = Len(p) - 1 /\ \A i \in 1 .. Len(p) - 1 : Parent(p)[i] = p[i]
  BY <1>1, ParentIs
<1>3. \A i \in 1 .. Len(p) - 1 : i \in 1 .. Len(p)
  BY <1>1
<1> QED BY <1>1, <1>2, <1>3 DEF Seen

\* In a watcher that waits, the first directory on the way down that is not
\* watched would still be due: there is none.
LEMMA NoneMissing ==
  ASSUME IInv, thread = "select", queue = <<>>, NEW p \in Sure, p \in Seen, dir[p] # None
  PROVE  path_to_wd[p] # None
<1> USE Paths1
<1>1. new_dirs = {} /\ opened = {} /\ owner # "stopped"
  BY DEF IInv, State, Phases
<1>2. Pending = {} /\ Queued = {}
  BY <1>1 DEF Pending, Queued, Items
<1> DEFINE T == {q \in Sure : q \in Seen /\ dir[q] # None /\ path_to_wd[q] = None}
           S == {Len(q) : q \in T}
<1> SUFFICES ASSUME T # {} PROVE FALSE
  OBVIOUS
<1>3. \A q \in T : q \in Path /\ Len(q) \in Nat
  BY PathType DEF Sure
<1>4. S \subseteq Nat /\ S # {}
  BY <1>3
<1>5. PICK n \in S : \A m \in S : ~ (<<m, n>> \in OpToRel(<, Nat))
  <2> HIDE DEF S
  <2> QED BY <1>4, NatLessThanWellFounded, WFMin
<1>6. PICK q \in T : n = Len(q)
  OBVIOUS
<1>7. \A m \in S : ~ (m < n)
  BY <1>4, <1>5 DEF OpToRel
<1>8. Due(q) /\ q \in Sure
  BY <1>6 DEF IInv, Right
<1>9. q # Root /\ path_to_wd[Parent(q)] = None
  BY <1>1, <1>2, <1>6, <1>8 DEF Due
<1>10. Len(q) > 1 /\ Parent(q) \in Path /\ Parent(q) \in Sure
  BY <1>8, <1>9, ParentSure
<1>11. dir[Parent(q)] # None
  BY <1>3, <1>6, <1>10 DEF IInv, State, Disk, IsTree
<1>12. Parent(q) \in Seen
  BY <1>6, <1>10, SeenUp
<1>13. Parent(q) \in T
  BY <1>9, <1>10, <1>11, <1>12
<1>14. Len(Parent(q)) = Len(q) - 1
  BY <1>3, <1>6, <1>10, PathType, ParentIs
<1> QED BY <1>3, <1>6, <1>7, <1>13, <1>14

\* The types hold in every state: no limit of the kernel is passed.
THEOREM TypeCorrect == Spec => []TypeOK
<1>1. IInv => TypeOK
  BY DEF IInv
<1> QED BY <1>1, Always, PTL

\* Whatever is moved, lost or refused, a watched directory is in wd_to_path
\* and what wd_to_path says path_to_wd says too.
THEOREM TablesCorrect == Spec => []NoStrayWatch
<1>1. IInv => NoStrayWatch
  BY DEF IInv
<1> QED BY <1>1, Always, PTL

\* A watcher that waits and has read all events watches every directory of its
\* root, under its path, and remembers no others, among the paths that are
\* sure; the tree may be of any depth, and the others may be moved at will.
THEOREM SyncCorrect == Spec => []InSync
<1>1. IInv => InSync
  <2> SUFFICES ASSUME IInv, thread = "select", queue = <<>>,
                      NEW p \in (Seen \cap Below[Root]) \ unsure
               PROVE  \/ dir[p] = None /\ path_to_wd[p] = None
                      \/ /\ dir[p] # None /\ path_to_wd[p] # None
                         /\ watch[path_to_wd[p]] = dir[p] /\ wd_to_path[path_to_wd[p]] = p
    BY DEF InSync, Tracked
  <2>1. p \in Sure /\ p \in Seen /\ Known(p)
    BY DEF Sure, IInv, Right
  <2>2. removed_dirs = {} /\ Queued = {}
    BY DEF IInv, State, Phases, Queued, Items
  <2>3. path_to_wd[p] # None => dir[p] # None
    BY <2>1, <2>2 DEF Known
  <2>4. dir[p] # None => path_to_wd[p] # None
    BY <2>1, NoneMissing
  <2> QED BY <2>1, <2>3, <2>4 DEF Known
<1> QED BY <1>1, Always, PTL
=============================================================================
