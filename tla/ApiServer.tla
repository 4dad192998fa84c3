------------------------------ MODULE ApiServer ------------------------------
(***************************************************************************)
(* The API process: cmd/api, the lifecycle in internal/httpapi/server.go,  *)
(* the readiness probe of internal/health and the pool they share.         *)
(*                                                                         *)
(* main builds its dependencies and runs three goroutines under one        *)
(* errgroup: the HTTP server, the informers' initial sync and a poller     *)
(* that refreshes the freshness gauges.  The server listens before the     *)
(* caches are warm; the kubelet's probe decides whether the Service sends  *)
(* clients here.  A signal, or the error of any goroutine, cancels all     *)
(* three: the server stops accepting and gives the requests in flight a    *)
(* grace period, and only when the group is done is the pool closed.       *)
(*                                                                         *)
(* A client request reads the database or the informer cache.  What it     *)
(* answers is left out: the properties tell apart how a request ended.     *)
(***************************************************************************)
EXTENDS Integers, FiniteSets

CONSTANTS
  Requests,     \* the requests that may be in the process at a time
  MaxConns,     \* DB_MAX_OPEN_CONNS
  MaxWindow,    \* bound: the windows the collector writes meanwhile
  MaxOutages    \* bound: the times the database, or its schema, fails

ASSUME ApiAssumption ==
  IsFiniteSet(Requests) /\ MaxConns \in Nat \ {0} /\ MaxWindow \in Nat /\ MaxOutages \in Nat

VARIABLES
  phase,        \* where run() is
  exit,         \* the exit status of the process
  sig,          \* SIGTERM or SIGINT was received
  server,       \* the goroutine of Server.Run
  accept,       \* its listener
  serveErr,     \* the channel that ListenAndServe's result is sent on
  informers,    \* the goroutine of Store.Start
  cache,        \* what the informer cache holds
  poller,       \* the goroutine of the freshness gauges
  gauge,        \* FactsLastWindow, 0 before it is first set
  pool,         \* the connection pool
  req,          \* what each request is doing
  probe,        \* the checks of the readiness probe under way
  routed,       \* the Service sends clients to this pod
  db,           \* the database answers within its timeouts
  schema,       \* schema_migrations shows a clean, applied version
  window,       \* max(window_start) of container_allocations, 0 when empty
  outages,
  fault,        \* history: what went wrong with the process
  seen          \* history: how requests ended

procVars == << phase, exit, sig >>
httpVars == << server, accept, serveErr >>
kubeVars == << informers, cache >>
dataVars == << poller, gauge, pool >>
reqVars  == << req, probe, routed, seen >>
envVars  == << db, schema, window, outages >>
vars == << procVars, httpVars, kubeVars, dataVars, reqVars, envVars, fault >>

-----------------------------------------------------------------------------
(* Values                                                                  *)

Checks == { "postgres", "schema", "kubernetes" }
Idle   == "idle"
Active == { r \in Requests : req[r] # Idle }

\* gctx: the errgroup's context, a child of the signal context.
Cancelled == sig \/ server = "failed" \/ informers = "failed"

\* The requests that hold a connection of the pool.
Held == { r \in Requests : req[r] = "querying" }

\* A mutant of CanAcquire: MaxConns is not handed to the pool.
CanAcquireUnbounded == pool = "open" /\ db

\* Whether a connection is left.
\* Checks and refreshes take a connection for a moment.
CanAcquire == pool = "open" /\ db /\ Cardinality(Held) < MaxConns

Init ==
  /\ phase = "starting" /\ exit = "none" /\ sig = FALSE
  /\ server = "off" /\ accept = "closed" /\ serveErr = "none"
  /\ informers = "off" /\ cache = "empty"
  /\ poller = "off" /\ gauge = 0 /\ pool = "none"
  /\ req = [ r \in Requests |-> Idle ]
  /\ probe = [ c \in Checks |-> "off" ] /\ routed = FALSE /\ seen = {}
  /\ db \in BOOLEAN /\ schema \in BOOLEAN /\ window \in {0, 1} \cap 0 .. MaxWindow
  /\ outages = 0 /\ fault = {}

-----------------------------------------------------------------------------
(* The environment                                                         *)

Sigterm ==
  /\ ~ sig /\ phase \in { "starting", "serving" } /\ sig' = TRUE
  /\ UNCHANGED << phase, exit, httpVars, kubeVars, dataVars, reqVars, envVars, fault >>

DatabaseFails ==
  /\ outages < MaxOutages /\ outages' = outages + 1
  /\ \/ db /\ db' = FALSE /\ UNCHANGED schema
     \/ schema /\ schema' = FALSE /\ UNCHANGED db
  /\ UNCHANGED << procVars, httpVars, kubeVars, dataVars, reqVars, window, fault >>

DatabaseRecovers ==
  /\ ~ (db /\ schema) /\ db' = TRUE /\ schema' = TRUE
  /\ UNCHANGED << procVars, httpVars, kubeVars, dataVars, reqVars, window, outages, fault >>

CollectorWrites ==
  /\ db /\ window < MaxWindow /\ window' = window + 1
  /\ UNCHANGED << procVars, httpVars, kubeVars, dataVars, reqVars, db, schema, outages, fault >>

-----------------------------------------------------------------------------
(* main                                                                    *)

\* The configuration, the DSN, the Kubernetes client or the catalogue is bad.
StartFails ==
  /\ phase = "starting" /\ phase' = "closing" /\ exit' = "failure"
  /\ fault' = fault \cup {"startup"}
  /\ UNCHANGED << sig, httpVars, kubeVars, dataVars, reqVars, envVars >>

\* Nothing is connected to: an unreachable database does not stop the start.
Start ==
  /\ phase = "starting" /\ phase' = "serving" /\ pool' = "open"
  /\ server' = "running" /\ informers' = "syncing" /\ poller' = "refresh"
  /\ UNCHANGED << exit, sig, accept, serveErr, cache, gauge, reqVars, envVars, fault >>

\* g.Wait has the result of the last goroutine.
GroupDone ==
  /\ phase = "serving" /\ poller = "done"
  /\ server \in { "stopped", "failed" } /\ informers \in { "synced", "aborted", "failed" }
  /\ phase' = "closing"
  /\ exit' = IF server = "failed" \/ informers = "failed" THEN "failure" ELSE "success"
  /\ UNCHANGED << sig, httpVars, kubeVars, dataVars, reqVars, envVars, fault >>

\* The deferred db.Close: nothing is acquired any more, and it waits for the
\* connections that are held.
ClosePool ==
  /\ phase = "closing" /\ pool = "open" /\ pool' = "closed"
  /\ UNCHANGED << procVars, httpVars, kubeVars, poller, gauge, reqVars, envVars, fault >>

\* The process ends, and with it every handler that still runs.
End ==
  /\ phase = "closing" /\ pool # "open" /\ Held = {} /\ phase' = "ended"
  /\ req' = [ r \in Requests |-> Idle ] /\ routed' = FALSE
  /\ probe' = [ c \in Checks |-> "off" ]
  /\ seen' = IF Active = {} THEN seen ELSE seen \cup {"dropped"}
  /\ UNCHANGED << exit, sig, httpVars, kubeVars, dataVars, envVars, fault >>

-----------------------------------------------------------------------------
(* The HTTP server's goroutine and the one that runs ListenAndServe        *)

\* ListenAndServe binds the port, finds it taken, or finds Shutdown called.
Listen ==
  /\ server \in { "running", "draining", "drained" } /\ accept = "closed" /\ serveErr = "none"
  /\ \/ server = "running" /\ accept' = "open" /\ UNCHANGED << serveErr, fault >>
     \/ server = "running" /\ serveErr' = "error" /\ fault' = fault \cup {"listen"}
        /\ UNCHANGED accept
     \/ server # "running" /\ serveErr' = "closed" /\ UNCHANGED << accept, fault >>
  /\ UNCHANGED << procVars, server, kubeVars, dataVars, reqVars, envVars >>

\* The server stopped on its own.
ServeFails ==
  /\ server = "running" /\ serveErr # "none" /\ serveErr' = "taken"
  /\ server' = IF serveErr = "error" THEN "failed" ELSE "stopped"
  /\ UNCHANGED << procVars, accept, kubeVars, dataVars, reqVars, envVars, fault >>

\* A mutant of Shutdown: the grace period derives from the cancelled context.
ShutdownWithDeadContext ==
  /\ server = "running" /\ Cancelled /\ accept' = "closed"
  /\ server' = IF Active = {} THEN "drained" ELSE "failed"
  /\ serveErr' = IF accept = "open" THEN "closed" ELSE serveErr
  /\ UNCHANGED << procVars, kubeVars, dataVars, reqVars, envVars, fault >>

\* http.Shutdown closes the listener and looks for connections in use.
Shutdown ==
  /\ server = "running" /\ Cancelled /\ accept' = "closed"
  /\ server' = IF Active = {} THEN "drained" ELSE "draining"
  /\ serveErr' = IF accept = "open" THEN "closed" ELSE serveErr
  /\ UNCHANGED << procVars, kubeVars, dataVars, reqVars, envVars, fault >>

Drained ==
  /\ server = "draining" /\ Active = {} /\ server' = "drained"
  /\ UNCHANGED << procVars, accept, serveErr, kubeVars, dataVars, reqVars, envVars, fault >>

\* A mutant of GraceExpires: Shutdown is given a context without a deadline.
GraceWithoutEnd == FALSE /\ UNCHANGED vars

\* The deadline may also pass between the last answer and Shutdown's next look.
GraceExpires ==
  /\ server = "draining" /\ server' = "failed" /\ fault' = fault \cup {"grace"}
  /\ UNCHANGED << procVars, accept, serveErr, kubeVars, dataVars, reqVars, envVars >>

\* The result of ListenAndServe is waited for.
ServerReturns ==
  /\ server = "drained" /\ serveErr # "none" /\ serveErr' = "taken"
  /\ server' = IF serveErr = "error" THEN "failed" ELSE "stopped"
  /\ UNCHANGED << procVars, accept, kubeVars, dataVars, reqVars, envVars, fault >>

-----------------------------------------------------------------------------
(* The informers' goroutine                                                *)

\* The caches fill while the sync is under way, and may end without a node.
CacheFills ==
  /\ informers = "syncing" /\ ~ Cancelled /\ cache = "empty" /\ cache' = "full"
  /\ UNCHANGED << procVars, httpVars, informers, dataVars, reqVars, envVars, fault >>

\* A mutant of SyncAborted: cancellation is taken for a failure to sync.
SyncAbortedIsError ==
  /\ informers = "syncing" /\ Cancelled /\ informers' = "failed"
  /\ UNCHANGED << procVars, httpVars, cache, dataVars, reqVars, envVars, fault >>

\* WaitForCacheSync gave up because the process was asked to stop.
SyncAborted ==
  /\ informers = "syncing" /\ Cancelled /\ informers' = "aborted"
  /\ UNCHANGED << procVars, httpVars, cache, dataVars, reqVars, envVars, fault >>

SyncTimesOut ==
  /\ informers = "syncing" /\ ~ Cancelled
  /\ informers' = "failed" /\ fault' = fault \cup {"sync"}
  /\ UNCHANGED << procVars, httpVars, cache, dataVars, reqVars, envVars >>

Synced ==
  /\ informers = "syncing" /\ ~ Cancelled /\ informers' = "synced"
  /\ UNCHANGED << procVars, httpVars, cache, dataVars, reqVars, envVars, fault >>

-----------------------------------------------------------------------------
(* The freshness poller                                                    *)

\* One statement reads what the gauges show; an empty table sets none.
Refresh ==
  /\ poller = "refresh" /\ ~ Cancelled /\ CanAcquire /\ poller' = "waiting"
  /\ gauge' = IF window = 0 THEN gauge ELSE window
  /\ UNCHANGED << procVars, httpVars, kubeVars, pool, reqVars, envVars, fault >>

\* A mutant of RefreshFails: the error is returned, once.
RefreshFailsForGood ==
  /\ poller = "refresh" /\ (Cancelled \/ ~ CanAcquire) /\ poller' = "done"
  /\ UNCHANGED << procVars, httpVars, kubeVars, gauge, pool, reqVars, envVars, fault >>

\* The error is swallowed, and the gauges keep what they show.
RefreshFails ==
  /\ poller = "refresh" /\ (Cancelled \/ ~ CanAcquire) /\ poller' = "waiting"
  /\ UNCHANGED << procVars, httpVars, kubeVars, gauge, pool, reqVars, envVars, fault >>

RefreshTick ==
  /\ poller = "waiting" /\ poller' = "refresh"
  /\ UNCHANGED << procVars, httpVars, kubeVars, gauge, pool, reqVars, envVars, fault >>

PollerStops ==
  /\ poller = "waiting" /\ Cancelled /\ poller' = "done"
  /\ UNCHANGED << procVars, httpVars, kubeVars, gauge, pool, reqVars, envVars, fault >>

-----------------------------------------------------------------------------
(* Requests                                                                *)

Ends(r, how) == req' = [ req EXCEPT ![r] = Idle ] /\ seen' = seen \cup {how}

\* A client, sent here by the Service.
Arrive(r, what) ==
  /\ accept = "open" /\ phase = "serving" /\ req[r] = Idle /\ routed
  /\ req' = [ req EXCEPT ![r] = what ]
  /\ UNCHANGED << procVars, httpVars, kubeVars, dataVars, probe, routed, seen, envVars, fault >>

\* The lister answers from the cache, whatever it holds.
AnswerInventory(r) ==
  /\ req[r] = "inventory" /\ phase # "ended"
  /\ Ends(r, IF cache = "full" THEN "answered" ELSE "empty inventory")
  /\ UNCHANGED << procVars, httpVars, kubeVars, dataVars, probe, routed, envVars, fault >>

BeginQuery(r) ==
  /\ req[r] = "query" /\ CanAcquire /\ req' = [ req EXCEPT ![r] = "querying" ]
  /\ UNCHANGED << procVars, httpVars, kubeVars, dataVars, probe, routed, seen, envVars, fault >>

EndQuery(r) ==
  /\ req[r] = "querying" /\ Ends(r, IF db THEN "answered" ELSE "unavailable")
  /\ UNCHANGED << procVars, httpVars, kubeVars, dataVars, probe, routed, envVars, fault >>

\* No connection can be had: the database is down or the pool is closed.
QueryUnavailable(r) ==
  /\ req[r] = "query" /\ (~ db \/ pool # "open") /\ phase # "ended"
  /\ Ends(r, IF pool = "open" THEN "unavailable" ELSE "pool closed")
  /\ UNCHANGED << procVars, httpVars, kubeVars, dataVars, probe, routed, envVars, fault >>

-----------------------------------------------------------------------------
(* The kubelet's probe                                                     *)

ProbeBegins(r) ==
  /\ accept = "open" /\ phase = "serving" /\ req[r] = Idle
  /\ \A s \in Requests : req[s] # "probing"
  /\ req' = [ req EXCEPT ![r] = "probing" ] /\ probe' = [ c \in Checks |-> "running" ]
  /\ UNCHANGED << procVars, httpVars, kubeVars, dataVars, routed, seen, envVars, fault >>

\* A mutant of Passes: the store's check does not look at its synced flag.
PassesUnsynced(c) ==
  CASE c = "postgres"   -> CanAcquire
    [] c = "schema"     -> CanAcquire /\ schema
    [] c = "kubernetes" -> TRUE

\* What each Checker asks for.
Passes(c) ==
  CASE c = "postgres"   -> CanAcquire
    [] c = "schema"     -> CanAcquire /\ schema
    [] c = "kubernetes" -> informers = "synced" /\ cache = "full"

\* A check of its own goroutine and timeout; a panic is a failed check.
Check(c) ==
  /\ probe[c] = "running"
  /\ probe' = [ probe EXCEPT ![c] = IF Passes(c) THEN "up" ELSE "down" ]
  /\ UNCHANGED << procVars, httpVars, kubeVars, dataVars, req, routed, seen, envVars, fault >>

\* Any check that is down makes the answer 503, and the Service drops the pod.
ProbeAnswers(r) ==
  /\ req[r] = "probing" /\ \A c \in Checks : probe[c] # "running"
  /\ routed' = (\A c \in Checks : probe[c] = "up")
  /\ req' = [ req EXCEPT ![r] = Idle ] /\ probe' = [ c \in Checks |-> "off" ]
  /\ UNCHANGED << procVars, httpVars, kubeVars, dataVars, seen, envVars, fault >>

-----------------------------------------------------------------------------
(* The specification                                                       *)

Environment == Sigterm \/ DatabaseFails \/ DatabaseRecovers \/ CollectorWrites
Main   == StartFails \/ Start \/ GroupDone \/ ClosePool \/ End
Server == Listen \/ ServeFails \/ Shutdown \/ Drained \/ GraceExpires \/ ServerReturns
Kube   == CacheFills \/ SyncAborted \/ SyncTimesOut \/ Synced
Poller == Refresh \/ RefreshFails \/ RefreshTick \/ PollerStops
Client == \E r \in Requests :
  \/ \E what \in { "query", "inventory" } : Arrive(r, what)
  \/ AnswerInventory(r) \/ BeginQuery(r) \/ EndQuery(r) \/ QueryUnavailable(r)
Probe  == (\E r \in Requests : ProbeBegins(r) \/ ProbeAnswers(r)) \/ (\E c \in Checks : Check(c))

Next == Environment \/ Main \/ Server \/ Kube \/ Poller \/ Client \/ Probe
Spec == Init /\ [][Next]_vars

\* The goroutines of the process run, and its timers fire.  No query needs to
\* end and no client to ask: neither is in the process's hands.  The ticker's
\* channel and the cancelled context are both ready in the poller's select,
\* which picks one at random, so it takes each of them sooner or later.
Fairness ==
  /\ WF_vars(Main) /\ WF_vars(Kube)
  /\ WF_vars(Listen \/ ServeFails \/ Shutdown \/ Drained \/ ServerReturns)
  /\ WF_vars(GraceExpires)
  /\ WF_vars(Refresh \/ RefreshFails \/ RefreshTick) /\ SF_vars(PollerStops)

FairSpec == Spec /\ Fairness

-----------------------------------------------------------------------------
(* Properties                                                              *)

ApiTypeOK ==
  /\ phase \in { "starting", "serving", "closing", "ended" }
  /\ exit \in { "none", "success", "failure" } /\ sig \in BOOLEAN
  /\ server \in { "off", "running", "draining", "drained", "stopped", "failed" }
  /\ accept \in { "closed", "open" } /\ serveErr \in { "none", "closed", "error", "taken" }
  /\ informers \in { "off", "syncing", "synced", "aborted", "failed" }
  /\ cache \in { "empty", "full" } /\ poller \in { "off", "refresh", "waiting", "done" }
  /\ gauge \in 0 .. window /\ window \in 0 .. MaxWindow
  /\ pool \in { "none", "open", "closed" } /\ Cardinality(Held) <= MaxConns
  /\ req \in [ Requests -> { Idle, "query", "querying", "inventory", "probing" } ]
  /\ probe \in [ Checks -> { "off", "running", "up", "down" } ] /\ routed \in BOOLEAN
  /\ db \in BOOLEAN /\ schema \in BOOLEAN /\ outages \in 0 .. MaxOutages
  /\ fault \subseteq { "startup", "listen", "sync", "grace" }
  /\ seen \subseteq { "answered", "unavailable", "empty inventory", "pool closed", "dropped" }

\* The order main relies on when it defers db.Close: while requests are in
\* flight the pool stays open, unless they outlived the grace period.
PoolOutlivesRequests ==
  (pool = "closed" /\ Active # {}) => "grace" \in fault

\* A process that exits 0 was asked to and answered every request it took; one
\* that exits 1 had something go wrong, which a signal alone is not, whenever
\* it arrives (the starting and the syncing process included).
ExitStatusIsHonest ==
  /\ (exit = "success") => sig /\ fault = {} /\ seen \cap { "pool closed", "dropped" } = {}
  /\ (exit = "failure") => fault # {}

\* The server listens before the caches are warm, and a lister over a cold
\* cache answers with an empty cluster: no client the Service sends gets that.
NoEmptyInventory == "empty inventory" \notin seen

\* A stop is bounded by the grace period even when no query ever ends: the
\* group returns, and what is left is closing the pool.
ShutdownIsBounded == (sig /\ phase = "serving") ~> (phase \in { "closing", "ended" })

\* A database blip silences the gauge no longer than it lasts: whatever window
\* is written, the gauge gets there as soon as the process can read it.
FreshnessCatchesUp ==
  \A n \in 1 .. MaxWindow :
    (phase = "serving" /\ window >= n) ~> (gauge >= n \/ ~ CanAcquire \/ Cancelled)
=============================================================================
