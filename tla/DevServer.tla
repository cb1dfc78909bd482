----------------------------- MODULE DevServer -----------------------------
(***************************************************************************)
(* `nift serve' as a whole: FileWatcher composed with the HTTP server and  *)
(* the browser of LiveReload.  The site the server shows is what the       *)
(* builds have left in the output directory, and the watcher's callback    *)
(* is cmd_build followed by notify_rebuild().                              *)
(***************************************************************************)
EXTENDS FileWatcher

CONSTANTS
  Tab, Sink, Workers, MaxGen,
  Doc,       \* Doc[t]: the file whose output t shows
  Html       \* the edits that leave an HTML page with a </body>

VARIABLES
  cb, http, generation, sse_clients, hpc, conn, tab, page, pending, last

Views == [File -> 0 .. MaxEdit]

\* inject_livereload_script() finds its place in the document of t.
Injected == [t \in Tab |-> {view \in Views : view[Doc[t]] \in Html}]

L == INSTANCE LiveReload WITH site <- out, View <- Views, Scripted <- Injected

ASSUME TabAssumption == L!Gone \notin Tab
ASSUME GenAssumption == MaxGen \in Nat
ASSUME DocAssumption == Doc \in [Tab -> File] /\ Html \subseteq 1 .. MaxEdit

web == <<cb, http, generation, sse_clients, hpc, conn, tab, page, pending, last>>
files == <<author, main, build, watcher, late>>
allVars == <<files, web>>

ServeInit == Init /\ L!InitServer(Unseen)
-----------------------------------------------------------------------------
(* cmd_serve: the order of its locals makes the watcher go before the      *)
(* server when it returns.                                                 *)

alive == http # "crashed"

Prepare ==
  /\ InitialBuild \/ Baseline
  /\ UNCHANGED web

\* server.start(), then watcher->start().
Begin ==
  /\ StartWatching
  /\ \/ main' = "baseline" /\ L!Start
     \/ main' = "exited" /\ UNCHANGED web

\* while (server.is_running()); ~FileWatcher() when it is not.
Leave ==
  /\ Stop
  /\ http = "failed"
  /\ UNCHANGED web

Finish ==
  /\ Join
  /\ alive
  /\ UNCHANGED web

\* Mutant: the server is declared after the watcher and goes before it.
DestroyEarly ==
  /\ main \in {"stopping", "exited"}
  /\ L!Stop \/ L!Joined
  /\ UNCHANGED files

\* ~HttpServer().
DestroyServer ==
  /\ main = "exited"
  /\ L!Stop \/ L!Joined
  /\ UNCHANGED files

Scan ==
  /\ alive
  /\ \/ Loop \/ Sleep \/ \E f \in File : BuildFile(f) \/ Visit(f)
     \/ Commit /\ wpc' = "sleep"
  /\ UNCHANGED web

Changed == alive /\ Commit /\ wpc' = "build" /\ L!BeginBuild

\* Mutant: the callback announces the rebuild before it is done.
NotifyEarly ==
  /\ wpc = "build"
  /\ L!Bump
  /\ UNCHANGED files

\* cmd_build has returned: notify_rebuild().
Notify ==
  /\ wpc = "build"
  /\ todo = {}
  /\ L!Bump
  /\ UNCHANGED files

CallbackReturns == cb = "bumped" /\ Rebuilt /\ L!Push
-----------------------------------------------------------------------------
Browser(t) == L!Browser(t) /\ UNCHANGED files
Script(t) == L!Script(t) /\ UNCHANGED files
ListenFails == L!ListenFails /\ UNCHANGED files
Handler(s) == (L!Register(s) \/ L!StreamEnds(s)) /\ UNCHANGED files
Accept(t) == (\E s \in Sink : L!Accept(t, s)) /\ UNCHANGED files

ServeNext ==
  \/ Author /\ UNCHANGED web
  \/ Prepare \/ Begin \/ Leave \/ Finish \/ DestroyServer
  \/ Scan \/ Changed \/ Notify \/ CallbackReturns
  \/ ListenFails \/ \E s \in Sink : Handler(s)
  \/ \E t \in Tab : Browser(t) \/ Script(t) \/ Accept(t)

\* cmd_serve's thread, the watcher's and the handlers keep being scheduled
\* (of the first two only one can act at a time), and cpp-httplib serves its
\* queue in order: a request is not overtaken for ever while workers come
\* free.  Nothing makes the author or the user act, nor the browser run a
\* script: it may suspend a tab for good.
Program ==
  \/ Prepare \/ Begin \/ Finish \/ DestroyServer
  \/ Scan \/ Changed \/ Notify \/ CallbackReturns

Answer(t) == Accept(t) \/ (L!ServePage(t) /\ UNCHANGED files)

ServeFairness ==
  /\ WF_allVars(Program)
  /\ \A s \in Sink : WF_allVars(Handler(s))
  /\ \A t \in Tab : SF_allVars(Answer(t))

ServeSpec == ServeInit /\ [][ServeNext]_allVars /\ ServeFairness
-----------------------------------------------------------------------------
(* Properties                                                              *)

\* Types of the variables of both components.
ServeTypeOK ==
  /\ TypeOK
  /\ L!TypeOK
  /\ page \in [Tab -> Views]

\* LiveReload's NoLostReload with the files of the site: a connected page that
\* shows an old file has a message on its way or a rebuild under way.
NoLostReload == L!NoLostReload

\* The callback never runs on a server that is being destroyed: the watcher's
\* thread has ended before ~HttpServer() takes the server down.
CallbackHasServer == cb # "idle" => http \notin {"down", "stopping"}

\* quickstart.md:59 "Edits to `content/` trigger a rebuild and a livereload
\* bump": an edit made after the baseline scan ends up on the screen, while
\* the server runs, of every open tab that has the script and runs it, unless
\* it is polling from a baseline that is newer than its page.
EditShown ==
  \A t \in Tab : SF_allVars(Script(t)) =>
    \A f \in File \ Ignored :
      late[f] ~> \/ ver[f] = None \/ page[t][f] = ver[f]
                 \/ tab[t] \in {"closed", "plain"} \/ L!Blind(t)
                 \/ http # "up"

\* cmd_serve returns once the server is down, whatever streams are open.
ServeReturns == (main = "stopping") ~> (main = "exited" /\ http = "down") \/ ~alive

\* ADR 0011:64 "Zero wasted HTTP requests when nothing changes".
ReloadsOnChange == L!ReloadsOnChange

\* Server, callback and browser behave as LiveReload says: in particular no
\* file of the site changes under a running server but by a build of the
\* callback, before its notify_rebuild().
ImplementsLiveReload == L!Spec
=============================================================================
