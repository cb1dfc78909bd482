----------------------------- MODULE LiveReload -----------------------------
(***************************************************************************)
(* HttpServer (crates/server/http) and the script it injects into the      *)
(* pages.  A tab loads a page, its script opens an event stream, and the   *)
(* watcher's callback calls notify_rebuild() after each build.  The        *)
(* handler of a stream occupies one worker of cpp-httplib until it ends,   *)
(* and leaves the address of its sink in sse_clients when it does.         *)
(*                                                                         *)
(* What a page shows is the value `site' had when it was served.           *)
(***************************************************************************)
EXTENDS Integers, FiniteSets

CONSTANTS
  Tab,       \* the browser's tabs
  Sink,      \* addresses a DataSink may have
  Workers,   \* threads of cpp-httplib's pool
  View,      \* what the output directory may hold
  Scripted,  \* Scripted[t]: those in which the document of t gets the script
  MaxGen     \* bound: number of rebuilds

NoBaseline == -1   \* last === null
Gone == "gone"     \* a stream whose client has left

VARIABLES
  site,         \* what the output directory holds
  cb,           \* where the watcher's callback is: idle, building, bumped
  http,         \* down, up, failed (stopped accepting), stopping, crashed
  generation,   \* HttpServerImpl::generation
  sse_clients,  \* HttpServerImpl::sse_clients
  hpc,          \* hpc[s]: where the handler with its sink at s is
  conn,         \* conn[s]: the tab at the other end, or Gone
  tab,          \* tab[t]: closed, loading, plain (no script), loaded,
                \* connecting, stream, poll
  page,         \* page[t]: the site as it was when t was served
  pending,      \* pending[t]: messages that t's stream has still to deliver
  last          \* last[t]: the script's `last'

server  == <<http, generation, sse_clients>>
handler == <<hpc, conn>>
client  == <<tab, page, pending, last>>
vars == <<site, cb, server, handler, client>>

Live == {s \in Sink : hpc[s] # "free"}
Dangling == sse_clients \ Live
running == http \in {"up", "failed"}
Serves == http = "up" /\ Cardinality(Live) < Workers
Connected(t) == \E s \in Live : conn[s] = t

\* The streams of the tabs in T are closed at the client's end.
Hangup(T) == conn' = [s \in Sink |-> IF conn[s] \in T THEN Gone ELSE conn[s]]

InitServer(view) ==
  /\ http = "down"
  /\ generation = 0
  /\ sse_clients = {}
  /\ hpc = [s \in Sink |-> "free"]
  /\ conn = [s \in Sink |-> Gone]
  /\ cb = "idle"
  /\ tab = [t \in Tab |-> "closed"]
  /\ page = [t \in Tab |-> view]
  /\ pending = [t \in Tab |-> {}]
  /\ last = [t \in Tab |-> NoBaseline]

Init == site \in View /\ InitServer(site)
-----------------------------------------------------------------------------
(* HttpServer::start() and stop()                                          *)

\* start() on a server that is down; the call fails if the port is taken.
\* sse_clients keeps what an earlier life of the server left in it.
Start ==
  /\ http = "down"
  /\ http' = "up"
  /\ UNCHANGED <<site, cb, generation, sse_clients, handler, client>>

\* listen_after_bind() gives up: is_running() is false.  cpp-httplib joins its
\* workers before it says so; here the handlers may go on, which allows more.
ListenFails ==
  /\ http = "up"
  /\ http' = "failed"
  /\ UNCHANGED <<site, cb, generation, sse_clients, handler, client>>

\* stop() takes running down; its join() then waits for the workers.
Stop ==
  /\ running
  /\ http' = "stopping"
  /\ UNCHANGED <<site, cb, generation, sse_clients, handler, client>>

Joined ==
  /\ http = "stopping"
  /\ Live = {}
  /\ http' = "down"
  /\ UNCHANGED <<site, cb, generation, sse_clients, handler, client>>
-----------------------------------------------------------------------------
(* The event stream                                                        *)

\* Mutant: a handler that says nothing on connection.
AcceptSilently(t, s) ==
  /\ tab[t] = "connecting" /\ Serves /\ hpc[s] = "free"
  /\ hpc' = [hpc EXCEPT ![s] = "greeted"]
  /\ conn' = [conn EXCEPT ![s] = t]
  /\ tab' = [tab EXCEPT ![t] = "stream"]
  /\ UNCHANGED <<site, cb, server, page, pending, last>>

\* A worker enters the content provider: it writes "data: connected".
Accept(t, s) ==
  /\ tab[t] = "connecting"
  /\ Serves
  /\ hpc[s] = "free"
  /\ hpc' = [hpc EXCEPT ![s] = "greeted"]
  /\ conn' = [conn EXCEPT ![s] = t]
  /\ tab' = [tab EXCEPT ![t] = "stream"]
  /\ pending' = [pending EXCEPT ![t] = {"connected"}]
  /\ UNCHANGED <<site, cb, server, page, last>>

\* Under sse_mu: sse_clients.push_back(&sink).  An address that is already
\* there is pushed again, which only makes push_reload_event() write twice.
Register(s) ==
  /\ hpc[s] = "greeted"
  /\ hpc' = [hpc EXCEPT ![s] = "registered"]
  /\ sse_clients' = sse_clients \union {s}
  /\ UNCHANGED <<site, cb, http, generation, conn, client>>

\* Mutant: the loop does not look at running.
StreamEndsLate(s) ==
  /\ hpc[s] = "registered"
  /\ conn[s] = Gone
  /\ hpc' = [hpc EXCEPT ![s] = "free"]
  /\ UNCHANGED <<site, cb, server, conn, client>>

\* The loop ends and the stream with it; the sink's address stays behind.
StreamEnds(s) ==
  /\ hpc[s] = "registered"
  /\ ~running \/ conn[s] = Gone
  /\ hpc' = [hpc EXCEPT ![s] = "free"]
  /\ conn' = [conn EXCEPT ![s] = Gone]
  /\ UNCHANGED <<site, cb, server, client>>
-----------------------------------------------------------------------------
(* The watcher's callback: cmd_build, notify_rebuild()                     *)

BeginBuild ==
  /\ cb = "idle"
  /\ generation < MaxGen
  /\ cb' = "building"
  /\ UNCHANGED <<site, server, handler, client>>

\* A build writes to the output directory: that of the callback, or one that
\* runs while no server is up, as the first of cmd_serve does.
Publish ==
  /\ cb = "building" \/ http = "down"
  /\ site' \in View
  /\ UNCHANGED <<cb, server, handler, client>>

Bump ==
  /\ cb = "building"
  /\ generation' = generation + 1
  /\ cb' = "bumped"
  /\ UNCHANGED <<site, http, sse_clients, handler, client>>

\* push_reload_event(), which holds sse_mu: every sink gets "data: reload",
\* and those whose write fails are removed.  A write to a client that has
\* left may fail or not.  A write through the address of a sink that is no
\* more is undefined: it returns either value or ends the process.
Push ==
  /\ cb = "bumped"
  /\ cb' = "idle"
  /\ \/ /\ \E dead \in SUBSET {s \in sse_clients : conn[s] = Gone} :
             sse_clients' = sse_clients \ dead
        /\ pending' = [t \in Tab |->
             IF \E s \in sse_clients : conn[s] = t
               THEN pending[t] \union {"reload"} ELSE pending[t]]
        /\ UNCHANGED <<http, handler>>
     \/ /\ Dangling # {}
        /\ http' = "crashed"
        /\ hpc' = [s \in Sink |-> "free"]
        /\ conn' = [s \in Sink |-> Gone]
        /\ UNCHANGED <<sse_clients, pending>>
  /\ UNCHANGED <<site, generation, tab, page, last>>
-----------------------------------------------------------------------------
(* The browser and the injected script                                     *)

Open(t) ==
  /\ tab[t] = "closed"
  /\ tab' = [tab EXCEPT ![t] = "loading"]
  /\ UNCHANGED <<site, cb, server, handler, page, pending, last>>

\* The tab leaves its page, for good or to load it again.
Leave(t, next) ==
  /\ tab' = [tab EXCEPT ![t] = next]
  /\ pending' = [pending EXCEPT ![t] = {}]
  /\ last' = [last EXCEPT ![t] = NoBaseline]
  /\ Hangup({t})
  /\ UNCHANGED <<site, cb, server, hpc, page>>

Close(t) == tab[t] # "closed" /\ Leave(t, "closed")

\* The catch-all handler reads the file and adds the script's tag before the
\* first </body> of an HTML page.  A file that is not there (404), not HTML or
\* without </body> is served as it is, and so may be one that a build is just
\* writing, of which the handler finds a part.
ServePage(t) ==
  /\ tab[t] = "loading"
  /\ Serves
  /\ page' = [page EXCEPT ![t] = site]
  /\ \/ site \in Scripted[t] /\ tab' = [tab EXCEPT ![t] = "loaded"]
     \/ /\ site \notin Scripted[t] \/ cb = "building"
        /\ tab' = [tab EXCEPT ![t] = "plain"]
  /\ UNCHANGED <<site, cb, server, handler, pending, last>>

\* trySSE().
TrySSE(t) ==
  /\ tab[t] = "loaded"
  /\ Serves
  /\ tab' = [tab EXCEPT ![t] = "connecting"]
  /\ UNCHANGED <<site, cb, server, handler, page, pending, last>>

\* No answer: the tab shows the browser's error page, or a page whose script
\* could not be fetched.
LoadFails(t) ==
  /\ tab[t] \in {"loading", "loaded"}
  /\ http # "up"
  /\ Leave(t, "closed")

\* Mutant: the script reloads when it is told to, not when it is greeted.
OnReload(t) ==
  /\ tab[t] = "stream"
  /\ "reload" \in pending[t]
  /\ Leave(t, "loading")

\* es.onmessage: any message reloads the page.
OnMessage(t) ==
  /\ tab[t] = "stream"
  /\ pending[t] # {}
  /\ Leave(t, "loading")

\* The connection breaks; what was on its way may be lost.
Drop(t) ==
  /\ tab[t] = "stream"
  /\ Connected(t)
  /\ Hangup({t})
  /\ \E lost \in {{}, pending[t]} : pending' = [pending EXCEPT ![t] = @ \ lost]
  /\ UNCHANGED <<site, cb, server, hpc, tab, page, last>>

\* es.onerror: close and poll.
OnError(t) ==
  /\ \/ tab[t] = "stream" /\ ~Connected(t) /\ pending[t] = {}
     \/ tab[t] = "connecting" /\ http # "up"
  /\ tab' = [tab EXCEPT ![t] = "poll"]
  /\ UNCHANGED <<site, cb, server, handler, page, pending, last>>

\* A poll is answered: the first answer is the baseline, another generation
\* reloads the page.  The same generation changes nothing.
Poll(t) ==
  /\ tab[t] = "poll"
  /\ Serves
  /\ last[t] # generation
  /\ \/ /\ last[t] = NoBaseline
        /\ last' = [last EXCEPT ![t] = generation]
        /\ UNCHANGED <<site, cb, server, handler, tab, page, pending>>
     \/ last[t] # NoBaseline /\ Leave(t, "loading")
-----------------------------------------------------------------------------
HttpServer ==
  \/ Start \/ ListenFails \/ Stop \/ Joined
  \/ \E s \in Sink : Register(s) \/ StreamEnds(s) \/ \E t \in Tab : Accept(t, s)

notify_rebuild == Bump \/ Push

Script(t) == TrySSE(t) \/ OnMessage(t) \/ OnError(t) \/ Poll(t)

Browser(t) == Open(t) \/ Close(t) \/ ServePage(t) \/ LoadFails(t) \/ Drop(t)

Next ==
  \/ HttpServer \/ BeginBuild \/ Publish \/ notify_rebuild
  \/ \E t \in Tab : Browser(t) \/ Script(t)

Spec == Init /\ [][Next]_vars
-----------------------------------------------------------------------------
(* Properties                                                              *)

\* Types of the variables, but for `site' and what the pages show of it.
TypeOK ==
  /\ cb \in {"idle", "building", "bumped"}
  /\ http \in {"down", "up", "failed", "stopping", "crashed"}
  /\ generation \in 0 .. MaxGen
  /\ sse_clients \subseteq Sink
  /\ hpc \in [Sink -> {"free", "greeted", "registered"}]
  /\ conn \in [Sink -> Tab \union {Gone}]
  /\ tab \in [Tab -> {"closed", "loading", "plain", "loaded", "connecting", "stream", "poll"}]
  /\ pending \in [Tab -> SUBSET {"connected", "reload"}]
  /\ last \in [Tab -> NoBaseline .. MaxGen]

\* A page with an open stream that does not show the site has a message on
\* its way: no rebuild falls between the page's load, the registration of its
\* sink and notify_rebuild().
NoLostReload ==
  \A t \in Tab :
    /\ tab[t] = "stream"
    /\ Connected(t)
    /\ page[t] # site
    => pending[t] # {} \/ cb # "idle"

\* A polling page whose baseline is as new as the server's generation
\* although the page itself is older.
Blind(t) == tab[t] = "poll" /\ last[t] = generation /\ page[t] # site

\* ADR 0011:64 "Zero wasted HTTP requests when nothing changes": a stream
\* makes the page reload when a rebuild was announced.
ReloadsOnChange ==
  [][\A t \in Tab : OnMessage(t) => "reload" \in pending[t]]_vars

=============================================================================
