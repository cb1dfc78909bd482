----------------------------- MODULE SiteBuild -----------------------------
(***************************************************************************)
(* What cmd_build promises its callers, without cache, tasks or files: a   *)
(* build takes the sources it finds, publishes each as it is when it is    *)
(* opened, and ends well only if none of them failed.  IncrementalBuild    *)
(* implements it; FileWatcher uses builds only through it.                 *)
(***************************************************************************)
CONSTANTS
  Source,   \* the files content_dir may hold
  Bytes,    \* what a file may hold
  Absent    \* no such file

VARIABLES
  src,       \* src[s]: the source
  site,      \* site[s]: what has been published of s
  todo,      \* the sources the running build has still to open
  building,  \* a build is running
  failed     \* the running or else the last build has not done all it should

siteVars == <<src, site, todo, building, failed>>

Init ==
  /\ src \in [Source -> Bytes]
  /\ site = [s \in Source |-> Absent]
  /\ todo = {}
  /\ building = FALSE
  /\ failed = TRUE
-----------------------------------------------------------------------------
\* The author changes, makes or removes a source, during a build too.
Edit(s) ==
  /\ \E c \in Bytes : src' = [src EXCEPT ![s] = c]
  /\ UNCHANGED <<site, todo, building, failed>>

Found == {s \in Source : src[s] # Absent}

Begin ==
  /\ ~building
  /\ building' = TRUE
  /\ todo' = Found
  /\ failed' = FALSE
  /\ UNCHANGED <<src, site>>

\* A build that finds nothing to do ends at once, and well.
Nothing ==
  /\ ~building
  /\ Found = {}
  /\ failed' = FALSE
  /\ UNCHANGED <<src, site, todo, building>>

\* The build opens s: what it finds is what it publishes, whether it copies
\* it or knows that it is there already.
Publish(s) ==
  /\ s \in todo
  /\ todo' = todo \ {s}
  /\ \/ /\ src[s] = Absent
        /\ failed' = TRUE
        /\ UNCHANGED site
     \/ /\ src[s] # Absent
        /\ site' = [site EXCEPT ![s] = src[s]]
        /\ UNCHANGED failed
  /\ UNCHANGED <<src, building>>

Finish ==
  /\ building
  /\ todo = {}
  /\ building' = FALSE
  /\ UNCHANGED <<src, site, todo, failed>>
-----------------------------------------------------------------------------
(* What may go wrong                                                       *)

Garble(s) == \E c \in Bytes : site' = [site EXCEPT ![s] = c]

\* A source that was changed in place after it was opened may come out as
\* anything.
Spoil(s) ==
  /\ building /\ s \notin todo
  /\ src[s] # site[s]
  /\ Garble(s)
  /\ UNCHANGED <<src, todo, building, failed>>

\* An output that cannot be written fails the build.
Fail(s) ==
  /\ building /\ s \notin todo
  /\ failed' = TRUE
  /\ Garble(s)
  /\ UNCHANGED <<src, todo, building>>

\* So does a source that is there and cannot be read; what has been published
\* of it stays.
Unread(s) ==
  /\ s \in todo
  /\ todo' = todo \ {s}
  /\ failed' = TRUE
  /\ UNCHANGED <<src, site, building>>

\* A build that dies promises nothing of what it was at.
Interrupt ==
  /\ building
  /\ building' = FALSE
  /\ todo' = {}
  /\ failed' = TRUE
  /\ site' \in [Source -> Bytes]
  /\ UNCHANGED src

\* nift clean.
Clean ==
  /\ ~building
  /\ site' = [s \in Source |-> Absent]
  /\ failed' = TRUE
  /\ UNCHANGED <<src, todo, building>>
-----------------------------------------------------------------------------
QuietNext == Begin \/ Nothing \/ Finish \/ \E s \in Source : Edit(s) \/ Publish(s)

Next == QuietNext \/ Interrupt \/ Clean \/ \E s \in Source : Spoil(s) \/ Fail(s) \/ Unread(s)

Spec == Init /\ [][Next]_siteVars

\* The builds of a program that nothing disturbs.
QuietSpec == Init /\ [][QuietNext]_siteVars
=============================================================================
