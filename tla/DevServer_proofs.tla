-------------------------- MODULE DevServer_proofs --------------------------
(***************************************************************************)
(* Theorems about `nift serve' as a whole, for any set of files, tabs and  *)
(* sinks, and any number of workers and rebuilds.                          *)
(***************************************************************************)
EXTENDS DevServer, FileWatcher_proofs

-----------------------------------------------------------------------------
(* The composition implements the watcher's specification                  *)

\* Every step of the composition is a step of FileWatcher, or leaves its
\* variables alone.
LEMMA ServeStep == [ServeNext]_allVars => [Next]_vars
<1> SUFFICES ASSUME [ServeNext]_allVars PROVE [Next]_vars
  OBVIOUS
<1>1. CASE UNCHANGED allVars
  BY <1>1 DEF allVars, files, vars
<1>2. CASE UNCHANGED files
  BY <1>2 DEF files, vars
<1>3. CASE Author
  BY <1>3 DEF Next
<1>4. CASE Prepare \/ Begin \/ Leave \/ Finish
  BY <1>4 DEF Prepare, Begin, Leave, Finish, Next, cmd_serve
<1>5. CASE Scan \/ Changed \/ CallbackReturns
  BY <1>5 DEF Scan, Changed, CallbackReturns, Next, cmd_serve, watch
<1>6. CASE ServeNext
  BY <1>2, <1>3, <1>4, <1>5, <1>6
  DEF ServeNext, DestroyServer, Notify, ListenFails, Handler, Browser, Script, Accept
<1> QED BY <1>1, <1>6

\* The dev server implements the polling watcher: to the author's files, the
\* builds and the watcher's thread, the HTTP server and the browser do nothing
\* that FileWatcher does not allow.
THEOREM ImplementsWatcher == ServeSpec => Spec
<1>1. ServeInit => Init
  BY DEF ServeInit
<1> QED BY <1>1, ServeStep, PTL DEF ServeSpec, Spec

\* So what is proved of the watcher holds of the dev server: an author who
\* changes a file at most once per second is never overlooked.
THEOREM ServedIsPublished == ASSUME File \subseteq Paced PROVE ServeSpec => []RecordedIsPublished
BY ImplementsWatcher, RecordedCorrect, PTL
-----------------------------------------------------------------------------
(* The inductive invariant of the server and its callback                  *)

\* Types of the variables of LiveReload.
WebTypeOK ==
  /\ L!TypeOK
  /\ page \in [Tab -> Views]

\* A rebuild under way has a generation to announce.
GenerationFits == cb = "building" => generation < MaxGen

\* The server lives from server.start() until cmd_serve returns.
ServerOutlives ==
  /\ main \in {"discover", "build"} => http = "down"
  /\ main \in {"baseline", "serve", "stopping"} => http \in {"up", "failed", "crashed"}

\* cmd_serve returns only after the watcher's thread is joined, or was never
\* there.
ThreadJoined == main = "exited" => wpc \in {"off", "ended"}

\* The callback runs on the watcher's thread, during its rebuild.
CallbackOnThread == cb # "idle" => wpc = "build"

\* A page with an open stream has been greeted and has not read it yet.
Greeted == \A t \in Tab : tab[t] = "stream" /\ L!Connected(t) => pending[t] # {}

SInv ==
  /\ TypeOK /\ WebTypeOK /\ GenerationFits
  /\ ThreadServes /\ ServerOutlives /\ ThreadJoined /\ CallbackOnThread
  /\ Greeted
-----------------------------------------------------------------------------
(* Types                                                                   *)

\* The variables of LiveReload other than the callback's and the server's
\* state, over the steps that do not concern the browser.
LEMMA ServerTypes ==
  ASSUME WebTypeOK, GenerationFits,
         \/ UNCHANGED web \/ L!Start \/ L!Stop \/ L!Joined \/ L!ListenFails
         \/ L!BeginBuild \/ L!Bump
  PROVE  WebTypeOK' /\ GenerationFits'
<1> USE GenAssumption DEF WebTypeOK, L!TypeOK, GenerationFits
<1>1. CASE UNCHANGED web
  BY <1>1 DEF web
<1>2. CASE L!Start \/ L!Stop \/ L!Joined \/ L!ListenFails
  BY <1>2 DEF L!Start, L!Stop, L!Joined, L!ListenFails, L!handler, L!client
<1>3. CASE L!BeginBuild \/ L!Bump
  BY <1>3 DEF L!BeginBuild, L!Bump, L!server, L!handler, L!client
<1> QED BY <1>1, <1>2, <1>3

\* push_reload_event() leaves sinks and messages.
LEMMA PushTypes ==
  ASSUME WebTypeOK, L!Push PROVE WebTypeOK' /\ GenerationFits'
<1> USE DEF WebTypeOK, L!TypeOK
<1>1. /\ cb' = "idle" /\ UNCHANGED <<generation, tab, page, last>>
      /\ sse_clients' \subseteq Sink
      /\ http' \in {"down", "up", "failed", "stopping", "crashed"}
  BY DEF L!Push
<1>2. hpc' \in [Sink -> {"free", "greeted", "registered"}]
  BY DEF L!Push, L!handler
<1>3. conn' \in [Sink -> Tab \union {L!Gone}]
  BY DEF L!Push, L!handler
<1>4. pending' \in [Tab -> SUBSET {"connected", "reload"}]
  BY DEF L!Push
<1> QED BY <1>1, <1>2, <1>3, <1>4 DEF GenerationFits

\* A handler of the event stream keeps the types.
LEMMA HandlerTypes ==
  ASSUME WebTypeOK, GenerationFits, NEW s \in Sink,
         L!Register(s) \/ L!StreamEnds(s) \/ \E t \in Tab : L!Accept(t, s)
  PROVE  WebTypeOK' /\ GenerationFits'
<1> USE DEF WebTypeOK, L!TypeOK, GenerationFits
<1>1. CASE L!Register(s) \/ L!StreamEnds(s)
  BY <1>1 DEF L!Register, L!StreamEnds, L!client, L!server
<1>2. ASSUME NEW t \in Tab, L!Accept(t, s) PROVE WebTypeOK' /\ GenerationFits'
  BY <1>2 DEF L!Accept, L!server
<1> QED BY <1>1, <1>2

\* A tab that leaves its page keeps the types, and takes its streams with it.
LEMMA LeaveTypes ==
  ASSUME WebTypeOK, GenerationFits, NEW t \in Tab,
         NEW next \in {"closed", "loading"}, L!Leave(t, next)
  PROVE  WebTypeOK' /\ GenerationFits'
<1> USE DEF WebTypeOK, L!TypeOK, GenerationFits
<1>1. conn' \in [Sink -> Tab \union {L!Gone}]
  BY DEF L!Leave, L!Hangup
<1>2. last' \in [Tab -> L!NoBaseline .. MaxGen]
  BY GenAssumption DEF L!Leave, L!NoBaseline
<1> QED BY <1>1, <1>2 DEF L!Leave, L!server

\* The browser and the injected script keep the types.
LEMMA TabTypes ==
  ASSUME TypeOK, WebTypeOK, GenerationFits, NEW t \in Tab,
         L!Browser(t) \/ L!Script(t)
  PROVE  WebTypeOK' /\ GenerationFits'
<1>1. CASE \E next \in {"closed", "loading"} : L!Leave(t, next)
  BY <1>1, LeaveTypes
<1> USE DEF WebTypeOK, L!TypeOK, GenerationFits
<1>2. CASE L!Open(t) \/ L!TrySSE(t) \/ L!OnError(t)
  BY <1>2 DEF L!Open, L!TrySSE, L!OnError, L!server, L!handler
<1>3. CASE L!ServePage(t)
  BY <1>3 DEF L!ServePage, L!server, L!handler, TypeOK, Views
<1>4. CASE L!Drop(t)
  <2>1. conn' \in [Sink -> Tab \union {L!Gone}]
    BY <1>4 DEF L!Drop, L!Hangup
  <2>2. pending' \in [Tab -> SUBSET {"connected", "reload"}]
    BY <1>4 DEF L!Drop
  <2> QED BY <1>4, <2>1, <2>2 DEF L!Drop, L!server
<1>5. CASE L!Poll(t)
  <2>1. CASE L!Leave(t, "loading")
    BY <1>1, <2>1
  <2>2. CASE /\ last' = [last EXCEPT ![t] = generation]
             /\ UNCHANGED <<cb, L!server, L!handler, tab, page, pending>>
    BY <2>2, GenAssumption DEF L!server, L!handler, L!NoBaseline
  <2> QED BY <1>5, <2>1, <2>2 DEF L!Poll
<1>6. L!Close(t) \/ L!LoadFails(t) \/ L!OnMessage(t)
      => \E next \in {"closed", "loading"} : L!Leave(t, next)
  BY DEF L!Close, L!LoadFails, L!OnMessage
<1> QED BY <1>1, <1>2, <1>3, <1>4, <1>5, <1>6 DEF L!Browser, L!Script

\* The invariant holds before cmd_serve does anything.
LEMMA InitSInv == ServeInit => SInv
<1> SUFFICES ASSUME ServeInit PROVE SInv
  OBVIOUS
<1> USE GenAssumption DEF ServeInit, L!InitServer
<1>1. TypeOK
  BY InitTypeOK
<1>2. L!TypeOK
  BY DEF L!TypeOK, L!NoBaseline
<1>3. page \in [Tab -> Views]
  BY UnseenType DEF Views
<1>4. Greeted
  BY DEF Greeted
<1>5. GenerationFits /\ ThreadServes /\ ServerOutlives /\ ThreadJoined /\ CallbackOnThread
  BY DEF Init, GenerationFits, ThreadServes, ServerOutlives, ThreadJoined, CallbackOnThread
<1> QED BY <1>1, <1>2, <1>3, <1>4, <1>5 DEF SInv, WebTypeOK

\* Every step keeps the types of the web side.
LEMMA WebTypeStep ==
  TypeOK /\ WebTypeOK /\ GenerationFits /\ [ServeNext]_allVars
    => WebTypeOK' /\ GenerationFits'
<1> SUFFICES ASSUME TypeOK, WebTypeOK, GenerationFits, [ServeNext]_allVars
             PROVE  WebTypeOK' /\ GenerationFits'
  OBVIOUS
<1>1. CASE UNCHANGED web
  BY <1>1, ServerTypes
<1>2. CASE Begin \/ DestroyServer \/ Changed \/ Notify \/ ListenFails
  BY <1>1, <1>2, ServerTypes DEF Begin, DestroyServer, Changed, Notify, ListenFails
<1>3. CASE CallbackReturns
  BY <1>3, PushTypes DEF CallbackReturns
<1>4. ASSUME NEW s \in Sink, Handler(s) PROVE WebTypeOK' /\ GenerationFits'
  BY <1>4, HandlerTypes DEF Handler
<1>5. ASSUME NEW t \in Tab, Browser(t) \/ Script(t) \/ Accept(t)
      PROVE  WebTypeOK' /\ GenerationFits'
  BY <1>5, TabTypes, HandlerTypes DEF Browser, Script, Accept
<1>6. CASE UNCHANGED allVars
  BY <1>1, <1>6 DEF allVars
<1>7. CASE ServeNext
  BY <1>1, <1>2, <1>3, <1>4, <1>5, <1>7 DEF ServeNext, Prepare, Leave, Finish, Scan
<1> QED BY <1>6, <1>7
-----------------------------------------------------------------------------
(* Invariance                                                              *)

\* cmd_serve, the watcher's thread and the callback stay in step with the
\* life of the server.
LEMMA ControlStep ==
  ASSUME SInv, [ServeNext]_allVars
  PROVE  ThreadServes' /\ ServerOutlives' /\ ThreadJoined' /\ CallbackOnThread'
<1> USE DEF SInv, ThreadServes, ServerOutlives, ThreadJoined, CallbackOnThread
<1>1. CASE UNCHANGED <<main, wpc, cb, http>>
  BY <1>1
<1>2. CASE Author /\ UNCHANGED web
  BY <1>1, <1>2 DEF Author, Tick, RemoveRoot, Edit, Delete, Touch, watcher, web
<1>3. CASE Prepare
  BY <1>3 DEF Prepare, InitialBuild, Baseline, watcher, web
<1>4. CASE Begin
  BY <1>4 DEF Begin, StartWatching, L!Start, web
<1>5. CASE Leave \/ Finish
  BY <1>5 DEF Leave, Finish, Stop, Join, watcher, web
<1>6. CASE DestroyServer
  BY <1>6 DEF DestroyServer, L!Stop, L!Joined, files, watcher
<1>7. CASE Scan
  BY <1>7 DEF Scan, Loop, Sleep, BuildFile, Visit, Commit, watcher, web
<1>8. CASE Changed
  BY <1>8 DEF Changed, Commit, L!BeginBuild, L!server
<1>9. CASE Notify
  BY <1>9 DEF Notify, L!Bump, files, watcher
<1>10. CASE CallbackReturns
  BY <1>10 DEF CallbackReturns, Rebuilt, L!Push
<1>11. CASE ListenFails
  BY <1>11 DEF ListenFails, L!ListenFails, files, watcher
<1>12. ASSUME NEW s \in Sink, Handler(s) PROVE UNCHANGED <<main, wpc, cb, http>>
  BY <1>12 DEF Handler, L!Register, L!StreamEnds, L!server, files, watcher
<1>13. ASSUME NEW t \in Tab, Browser(t) \/ Script(t) \/ Accept(t)
       PROVE  UNCHANGED <<main, wpc, cb, http>>
  <2>1. UNCHANGED <<main, wpc>>
    BY <1>13 DEF Browser, Script, Accept, files, watcher
  <2>2. CASE L!Browser(t) \/ L!Script(t)
    BY <2>1, <2>2
    DEF L!Browser, L!Script, L!Open, L!Close, L!ServePage, L!LoadFails, L!Drop, L!TrySSE,
        L!OnMessage, L!OnError, L!Poll, L!Leave, L!server
  <2>3. CASE Accept(t)
    BY <2>1, <2>3 DEF Accept, L!Accept, L!server
  <2> QED BY <1>13, <2>2, <2>3 DEF Browser, Script
<1>14. CASE UNCHANGED allVars
  BY <1>1, <1>14 DEF allVars, files, watcher, web
<1>15. CASE ServeNext
  BY <1>1, <1>2, <1>3, <1>4, <1>5, <1>6, <1>7, <1>8, <1>9, <1>10, <1>11, <1>12, <1>13, <1>15
  DEF ServeNext
<1> QED BY <1>14, <1>15

\* The greeting is written when the stream opens, and a tab that has read it,
\* or lost it, has hung up.
LEMMA GreetedStep == ASSUME SInv, [ServeNext]_allVars PROVE Greeted'
<1> USE DEF SInv, WebTypeOK, L!TypeOK, Greeted
<1>1. CASE UNCHANGED <<tab, hpc, conn, pending>>
  BY <1>1 DEF L!Connected, L!Live
<1>2. CASE Begin \/ DestroyServer \/ Changed \/ Notify \/ ListenFails
  BY <1>1, <1>2
  DEF Begin, DestroyServer, Changed, Notify, ListenFails, L!Start, L!Stop, L!Joined,
      L!BeginBuild, L!Bump, L!ListenFails, L!handler, L!client, web
<1>3. CASE CallbackReturns
  <2>1. UNCHANGED tab /\ \/ UNCHANGED <<hpc, conn>>
                         \/ hpc' = [s \in Sink |-> "free"]
    BY <1>3 DEF CallbackReturns, L!Push, L!handler
  <2>2. \A t \in Tab : L!Connected(t)' => pending[t] \subseteq pending'[t]
    BY <1>3 DEF CallbackReturns, L!Push, L!Connected, L!Live
  <2> QED BY <2>1, <2>2 DEF L!Connected, L!Live
<1>4. ASSUME NEW s \in Sink, Handler(s) PROVE Greeted'
  <2>1. UNCHANGED <<tab, pending>>
    BY <1>4 DEF Handler, L!Register, L!StreamEnds, L!client
  <2>2. \A t \in Tab : L!Connected(t)' => L!Connected(t)
    BY <1>4, TabAssumption DEF Handler, L!Register, L!StreamEnds, L!Connected, L!Live
  <2> QED BY <2>1, <2>2
<1>5. ASSUME NEW t \in Tab, NEW s \in Sink, L!Accept(t, s) PROVE Greeted'
  <2>1. pending'[t] = {"connected"}
    BY <1>5 DEF L!Accept
  <2>2. \A u \in Tab \ {t} : /\ tab'[u] = tab[u] /\ pending'[u] = pending[u]
                             /\ L!Connected(u)' => L!Connected(u)
    BY <1>5 DEF L!Accept, L!Connected, L!Live
  <2> SUFFICES ASSUME NEW u \in Tab, tab'[u] = "stream", L!Connected(u)'
               PROVE  pending'[u] # {}
    OBVIOUS
  <2>3. CASE u = t
    BY <2>1, <2>3
  <2>4. CASE u # t
    BY <2>2, <2>4
  <2> QED BY <2>3, <2>4
<1>6. ASSUME NEW t \in Tab, NEW next \in {"closed", "loading"}, L!Leave(t, next)
      PROVE  Greeted'
  <2>1. tab'[t] # "stream" /\ UNCHANGED hpc
    BY <1>6 DEF L!Leave
  <2>2. \A u \in Tab \ {t} : /\ tab'[u] = tab[u] /\ pending'[u] = pending[u]
                             /\ L!Connected(u)' => L!Connected(u)
    BY <1>6, TabAssumption DEF L!Leave, L!Hangup, L!Connected, L!Live
  <2> SUFFICES ASSUME NEW u \in Tab, tab'[u] = "stream", L!Connected(u)'
               PROVE  pending'[u] # {}
    OBVIOUS
  <2>3. CASE u = t
    BY <2>1, <2>3
  <2>4. CASE u # t
    BY <2>2, <2>4
  <2> QED BY <2>3, <2>4
<1>7. ASSUME NEW t \in Tab, L!Drop(t) PROVE Greeted'
  <2>1. ~ L!Connected(t)'
    BY <1>7, TabAssumption DEF L!Drop, L!Hangup, L!Connected, L!Live
  <2>2. \A u \in Tab \ {t} : /\ tab'[u] = tab[u] /\ pending'[u] = pending[u]
                             /\ L!Connected(u)' => L!Connected(u)
    BY <1>7, TabAssumption DEF L!Drop, L!Hangup, L!Connected, L!Live
  <2> SUFFICES ASSUME NEW u \in Tab, tab'[u] = "stream", L!Connected(u)'
               PROVE  pending'[u] # {}
    OBVIOUS
  <2>3. CASE u = t
    BY <2>1, <2>3
  <2>4. CASE u # t
    BY <2>2, <2>4
  <2> QED BY <2>3, <2>4
<1>8. ASSUME NEW t \in Tab, L!Open(t) \/ L!ServePage(t) \/ L!TrySSE(t) \/ L!OnError(t)
      PROVE  Greeted'
  <2>1. UNCHANGED <<hpc, conn, pending>>
    BY <1>8 DEF L!Open, L!ServePage, L!TrySSE, L!OnError, L!handler
  <2>2. \A u \in Tab : tab'[u] = "stream" => tab[u] = "stream"
    BY <1>8 DEF L!Open, L!ServePage, L!TrySSE, L!OnError
  <2> QED BY <2>1, <2>2 DEF L!Connected, L!Live
<1>9. ASSUME NEW t \in Tab, Browser(t) \/ Script(t) \/ Accept(t) PROVE Greeted'
  <2>1. CASE L!Close(t) \/ L!LoadFails(t) \/ L!OnMessage(t)
    BY <1>6, <2>1 DEF L!Close, L!LoadFails, L!OnMessage
  <2>2. CASE L!Poll(t)
    BY <1>1, <1>6, <2>2 DEF L!Poll, L!handler
  <2> QED BY <1>5, <1>7, <1>8, <1>9, <2>1, <2>2
          DEF Browser, Script, Accept, L!Browser, L!Script
<1>10. CASE UNCHANGED web
  BY <1>1, <1>10 DEF web
<1>11. CASE ServeNext
  BY <1>2, <1>3, <1>4, <1>9, <1>10, <1>11
  DEF ServeNext, Prepare, Leave, Finish, Scan
<1> QED BY <1>10, <1>11 DEF allVars

\* Every step keeps the invariant.
LEMMA NextSInv == SInv /\ [ServeNext]_allVars => SInv'
<1> SUFFICES ASSUME SInv, [ServeNext]_allVars PROVE SInv'
  OBVIOUS
<1>1. TypeOK'
  BY ServeStep, TypeStep DEF SInv
<1>2. WebTypeOK' /\ GenerationFits'
  BY WebTypeStep DEF SInv
<1> QED BY <1>1, <1>2, ControlStep, GreetedStep DEF SInv

\* The invariant above holds of the dev server.
THEOREM ServeInvariant == ServeSpec => []SInv
BY InitSInv, NextSInv, PTL DEF ServeSpec

\* The variables of the watcher, the server and the browser keep their types,
\* the generation its bound included.
THEOREM ServeTypes == ServeSpec => []ServeTypeOK
<1>1. SInv => ServeTypeOK
  BY DEF SInv, WebTypeOK, ServeTypeOK
<1> QED BY <1>1, ServeInvariant, PTL

\* No reload is lost: whatever the order in which a stream opens, its sink is
\* registered, the files are built and notify_rebuild() runs, a connected page
\* that shows an old file has a message to come or a rebuild under way.
THEOREM ReloadCorrect == ServeSpec => []NoLostReload
<1>1. SInv => NoLostReload
  BY DEF SInv, Greeted, NoLostReload, L!NoLostReload
<1> QED BY <1>1, ServeInvariant, PTL

\* The watcher's callback never uses a server that is gone: cmd_serve destroys
\* the watcher, and joins its thread, before the server.
THEOREM CallbackCorrect == ServeSpec => []CallbackHasServer
<1>1. SInv => CallbackHasServer
  BY DEF SInv, TypeOK, WebTypeOK, L!TypeOK, ThreadServes, ServerOutlives, ThreadJoined,
         CallbackOnThread, CallbackHasServer
<1> QED BY <1>1, ServeInvariant, PTL
-----------------------------------------------------------------------------
(* The composition implements the specification of the server              *)

\* A source that has still to be built is one of the first build or of a
\* rebuild that notify_rebuild() has not yet announced.
BuildAnnounced == todo # {} => main = "build" \/ (wpc = "build" /\ cb = "building")

\* Every step keeps what is left to build within a build.
LEMMA AnnouncedStep == ThreadServes /\ BuildAnnounced /\ [ServeNext]_allVars => BuildAnnounced'
<1> SUFFICES ASSUME ThreadServes, BuildAnnounced, [ServeNext]_allVars PROVE BuildAnnounced'
  OBVIOUS
<1> USE DEF BuildAnnounced
<1>1. CASE UNCHANGED <<todo, main, wpc, cb>>
  BY <1>1
<1>2. CASE Author /\ UNCHANGED web
  BY <1>1, <1>2 DEF Author, Tick, RemoveRoot, Edit, Delete, Touch, build, watcher, web
<1>3. CASE Prepare
  BY <1>3 DEF Prepare, InitialBuild, Baseline, ThreadServes, build, watcher, web
<1>4. CASE Begin
  BY <1>4 DEF Begin, StartWatching, build
<1>5. CASE Leave \/ Finish
  BY <1>5 DEF Leave, Finish, Stop, Join, build, watcher, web
<1>6. CASE DestroyServer
  BY <1>6 DEF DestroyServer, L!Stop, L!Joined, files, build, watcher
<1>7. CASE Scan
  BY <1>7 DEF Scan, Loop, Sleep, BuildFile, Visit, Commit, build, watcher, web
<1>8. CASE Changed
  BY <1>8 DEF Changed, Commit, L!BeginBuild
<1>9. CASE Notify
  BY <1>9 DEF Notify, files, build
<1>10. CASE CallbackReturns
  BY <1>10 DEF CallbackReturns, Rebuilt, build
<1>11. CASE ListenFails
  BY <1>1, <1>11 DEF ListenFails, L!ListenFails, files, build, watcher
<1>12. ASSUME NEW s \in Sink, Handler(s) PROVE UNCHANGED <<todo, main, wpc, cb>>
  BY <1>12 DEF Handler, L!Register, L!StreamEnds, files, build, watcher
<1>13. ASSUME NEW t \in Tab, Browser(t) \/ Script(t) \/ Accept(t)
       PROVE  UNCHANGED <<todo, main, wpc, cb>>
  <2>1. UNCHANGED <<todo, main, wpc>>
    BY <1>13 DEF Browser, Script, Accept, files, build, watcher
  <2>2. CASE L!Browser(t) \/ L!Script(t)
    BY <2>1, <2>2
    DEF L!Browser, L!Script, L!Open, L!Close, L!ServePage, L!LoadFails, L!Drop, L!TrySSE,
        L!OnMessage, L!OnError, L!Poll, L!Leave
  <2>3. CASE Accept(t)
    BY <2>1, <2>3 DEF Accept, L!Accept
  <2> QED BY <1>13, <2>2, <2>3 DEF Browser, Script
<1>14. CASE UNCHANGED allVars
  BY <1>1, <1>14 DEF allVars, files, build, watcher, web
<1>15. CASE ServeNext
  BY <1>1, <1>2, <1>3, <1>4, <1>5, <1>6, <1>7, <1>8, <1>9, <1>10, <1>11, <1>12, <1>13, <1>15
  DEF ServeNext
<1> QED BY <1>14, <1>15

\* Every step is one of LiveReload, or leaves its variables alone.
LEMMA WebStep ==
  SInv /\ TypeOK' /\ BuildAnnounced /\ [ServeNext]_allVars => [L!Next]_(L!vars)
<1> SUFFICES ASSUME SInv, TypeOK', BuildAnnounced, [ServeNext]_allVars
             PROVE  L!Next \/ UNCHANGED L!vars
  OBVIOUS
<1>1. CASE UNCHANGED <<out, web>>
  BY <1>1 DEF web, L!vars, L!server, L!handler, L!client
<1>2. CASE Author /\ UNCHANGED web
  BY <1>1, <1>2 DEF Author, Tick, RemoveRoot, Edit, Delete, Touch, build
<1>3. CASE Prepare \/ Leave \/ Finish
  BY <1>1, <1>3 DEF Prepare, Leave, Finish, InitialBuild, Discover, Baseline, Stop, Join, build
<1>4. CASE Begin
  BY <1>1, <1>4 DEF Begin, StartWatching, build, L!Next, L!HttpServer
<1>5. CASE DestroyServer \/ ListenFails
  BY <1>5 DEF DestroyServer, ListenFails, L!Next, L!HttpServer
<1>6. ASSUME NEW f \in File, BuildFile(f), UNCHANGED web PROVE L!Publish
  <2>1. cb = "building" \/ http = "down"
    BY <1>6 DEF BuildFile, BuildAnnounced, SInv, ServerOutlives
  <2>2. out' \in [File -> 0 .. MaxEdit]
    BY DEF TypeOK
  <2> QED BY <1>6, <2>1, <2>2 DEF web, Views, L!Publish, L!server, L!handler, L!client
<1>7. CASE Scan
  <2>1. CASE \E f \in File : BuildFile(f)
    BY <1>6, <1>7, <2>1 DEF Scan, L!Next
  <2>2. CASE ~ \E f \in File : BuildFile(f)
    BY <1>1, <1>7, <2>2 DEF Scan, Loop, Sleep, Visit, Commit, Discover, build
  <2> QED BY <2>1, <2>2
<1>8. CASE Changed
  BY <1>8 DEF Changed, L!Next
<1>9. CASE Notify \/ CallbackReturns
  BY <1>9 DEF Notify, CallbackReturns, L!Next, L!notify_rebuild
<1>10. ASSUME NEW s \in Sink, Handler(s) PROVE L!Next
  BY <1>10 DEF Handler, L!Next, L!HttpServer
<1>11. ASSUME NEW t \in Tab, Browser(t) \/ Script(t) \/ Accept(t) PROVE L!Next
  BY <1>11 DEF Browser, Script, Accept, L!Next, L!HttpServer
<1>12. CASE UNCHANGED allVars
  BY <1>1, <1>12 DEF allVars, files, build
<1>13. CASE ServeNext
  BY <1>2, <1>3, <1>4, <1>5, <1>7, <1>8, <1>9, <1>10, <1>11, <1>13 DEF ServeNext
<1> QED BY <1>12, <1>13

\* The dev server implements LiveReload as it implements FileWatcher: what a
\* page shows changes under a running server only by a build of the callback,
\* and never between notify_rebuild()'s bump and the end of the callback.
THEOREM WebRefinement == ServeSpec => ImplementsLiveReload
<1>1. ServeInit => BuildAnnounced
  BY DEF ServeInit, Init, BuildAnnounced
<1>2. ServeInit => L!Init
  BY UnseenType DEF ServeInit, Init, Views, L!Init
<1>3. SInv => TypeOK /\ ThreadServes
  BY DEF SInv
<1> QED BY <1>1, <1>2, <1>3, ServeInvariant, AnnouncedStep, WebStep, PTL
        DEF ServeSpec, ImplementsLiveReload, L!Spec
=============================================================================
