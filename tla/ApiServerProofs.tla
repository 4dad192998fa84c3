---------------------------- MODULE ApiServerProofs ----------------------------
(***************************************************************************)
(* Proofs about the API process, for any number of requests and            *)
(* connections and any failures of the database: what its exit status      *)
(* says, that the pool outlives the requests, and that no client is told   *)
(* that the cluster is empty.                                              *)
(***************************************************************************)
EXTENDS ApiServer, FiniteSetTheorems, TLAPS

-----------------------------------------------------------------------------
(* Type correctness                                                        *)

\* The type invariant by the kind of its variables.
Words ==
  /\ phase \in { "starting", "serving", "closing", "ended" }
  /\ exit \in { "none", "success", "failure" }
  /\ server \in { "off", "running", "draining", "drained", "stopped", "failed" }
  /\ accept \in { "closed", "open" } /\ serveErr \in { "none", "closed", "error", "taken" }
  /\ informers \in { "off", "syncing", "synced", "aborted", "failed" }
  /\ cache \in { "empty", "full" } /\ poller \in { "off", "refresh", "waiting", "done" }
  /\ pool \in { "none", "open", "closed" }
Switches == sig \in BOOLEAN /\ routed \in BOOLEAN /\ db \in BOOLEAN /\ schema \in BOOLEAN
Numbers == gauge \in 0 .. window /\ window \in 0 .. MaxWindow /\ outages \in 0 .. MaxOutages
Handlers ==
  /\ req \in [ Requests -> { Idle, "query", "querying", "inventory", "probing" } ]
  /\ probe \in [ Checks -> { "off", "running", "up", "down" } ]
Histories ==
  /\ fault \subseteq { "startup", "listen", "sync", "grace" }
  /\ seen \subseteq { "answered", "unavailable", "empty inventory", "pool closed", "dropped" }
Conns == Cardinality(Held) <= MaxConns

LEMMA TypeParts ==
  ApiTypeOK <=> Words /\ Switches /\ Numbers /\ Handlers /\ Histories /\ Conns
BY Zenon DEF ApiTypeOK, Words, Switches, Numbers, Handlers, Histories, Conns

\* The connections are counted where they are taken and given back.
LEMMA HeldFinite == IsFiniteSet(Held) /\ IsFiniteSet(Held')
<1>1. Held \subseteq Requests /\ Held' \subseteq Requests
  BY DEF Held
<1> QED
  BY <1>1, ApiAssumption, FS_Subset

LEMMA HeldShrinks ==
  ASSUME Conns, Held' \subseteq Held
  PROVE  Conns'
<1>1. Cardinality(Held') <= Cardinality(Held)
  BY HeldFinite, FS_Subset
<1>2. Cardinality(Held') \in Nat /\ Cardinality(Held) \in Nat /\ MaxConns \in Nat
  BY HeldFinite, FS_CardinalityType, ApiAssumption
<1> QED
  BY <1>1, <1>2 DEF Conns

LEMMA HeldGrows ==
  ASSUME Cardinality(Held) < MaxConns, NEW r \in Requests, Held' \subseteq Held \cup {r}
  PROVE  Conns'
<1>1. /\ IsFiniteSet(Held \cup {r})
      /\ Cardinality(Held \cup {r}) \in { Cardinality(Held), Cardinality(Held) + 1 }
  <2>1. CASE r \in Held
    <3>1. Held \cup {r} = Held
      BY <2>1
    <3> QED
      BY <3>1, HeldFinite
  <2>2. CASE r \notin Held
    BY <2>2, HeldFinite, FS_AddElement
  <2> QED
    BY <2>1, <2>2
<1>2. Cardinality(Held') <= Cardinality(Held \cup {r})
  BY <1>1, FS_Subset
<1>3. Cardinality(Held') \in Nat /\ Cardinality(Held) \in Nat /\ MaxConns \in Nat
  BY HeldFinite, FS_CardinalityType, ApiAssumption
<1> QED
  BY <1>1, <1>2, <1>3 DEF Conns

LEMMA WordsKept == ASSUME Words, [Next]_vars PROVE Words'
<1>1. CASE UNCHANGED vars
  BY <1>1 DEF Words, vars, procVars, httpVars, kubeVars, dataVars, reqVars, envVars
<1>2. CASE Environment
  BY <1>2 DEF Words, Environment, Sigterm, DatabaseFails, DatabaseRecovers,
      CollectorWrites, procVars, httpVars, kubeVars, dataVars, reqVars, envVars
<1>3. CASE Main
  BY <1>3 DEF Words, Main, StartFails, Start, GroupDone, ClosePool, End, procVars,
      httpVars, kubeVars, dataVars, reqVars, envVars
<1>4. CASE Server
  BY <1>4 DEF Words, Server, Listen, ServeFails, Shutdown, Drained, GraceExpires,
      ServerReturns, procVars, httpVars, kubeVars, dataVars, reqVars, envVars
<1>5. CASE Kube
  BY <1>5 DEF Words, Kube, CacheFills, SyncAborted, SyncTimesOut, Synced, procVars,
      httpVars, kubeVars, dataVars, reqVars, envVars
<1>6. CASE Poller
  BY <1>6 DEF Words, Poller, Refresh, RefreshFails, RefreshTick, PollerStops,
      procVars, httpVars, kubeVars, dataVars, reqVars, envVars
<1>7. CASE Client
  BY <1>7 DEF Words, Client, Arrive, AnswerInventory, BeginQuery, EndQuery,
      QueryUnavailable, Ends, procVars, httpVars, kubeVars, dataVars, reqVars,
      envVars
<1>8. CASE Probe
  BY <1>8 DEF Words, Probe, ProbeBegins, ProbeAnswers, Check, procVars, httpVars,
      kubeVars, dataVars, reqVars, envVars
<1> QED
  BY <1>1, <1>2, <1>3, <1>4, <1>5, <1>6, <1>7, <1>8 DEF Next

LEMMA SwitchesKept == ASSUME Switches, [Next]_vars PROVE Switches'
<1>1. CASE UNCHANGED vars
  BY <1>1, Zenon DEF Switches, vars, procVars, httpVars, kubeVars, dataVars,
      reqVars, envVars
<1>2. CASE Environment
  BY <1>2, Zenon DEF Switches, Environment, Sigterm, DatabaseFails,
      DatabaseRecovers, CollectorWrites, procVars, httpVars, kubeVars, dataVars,
      reqVars, envVars
<1>3. CASE Main
  BY <1>3, Zenon DEF Switches, Main, StartFails, Start, GroupDone, ClosePool, End,
      procVars, httpVars, kubeVars, dataVars, reqVars, envVars
<1>4. CASE Server
  BY <1>4, Zenon DEF Switches, Server, Listen, ServeFails, Shutdown, Drained,
      GraceExpires, ServerReturns, procVars, httpVars, kubeVars, dataVars, reqVars,
      envVars
<1>5. CASE Kube
  BY <1>5, Zenon DEF Switches, Kube, CacheFills, SyncAborted, SyncTimesOut, Synced,
      procVars, httpVars, kubeVars, dataVars, reqVars, envVars
<1>6. CASE Poller
  BY <1>6, Zenon DEF Switches, Poller, Refresh, RefreshFails, RefreshTick,
      PollerStops, procVars, httpVars, kubeVars, dataVars, reqVars, envVars
<1>7. CASE Client
  BY <1>7, Zenon DEF Switches, Client, Arrive, AnswerInventory, BeginQuery,
      EndQuery, QueryUnavailable, Ends, procVars, httpVars, kubeVars, dataVars,
      reqVars, envVars
<1>8. CASE Probe
  BY <1>8, Zenon DEF Switches, Probe, ProbeBegins, ProbeAnswers, Check, procVars,
      httpVars, kubeVars, dataVars, reqVars, envVars
<1> QED
  BY <1>1, <1>2, <1>3, <1>4, <1>5, <1>6, <1>7, <1>8 DEF Next

LEMMA NumbersKept == ASSUME Numbers, [Next]_vars PROVE Numbers'
<1>1. CASE UNCHANGED vars
  BY <1>1 DEF Numbers, vars, procVars, httpVars, kubeVars, dataVars, reqVars,
      envVars
<1>2. CASE Environment
  BY <1>2, ApiAssumption DEF Numbers, Environment, Sigterm, DatabaseFails,
      DatabaseRecovers, CollectorWrites, procVars, httpVars, kubeVars, dataVars,
      reqVars, envVars
<1>3. CASE Main
  BY <1>3, ApiAssumption DEF Numbers, Main, StartFails, Start, GroupDone, ClosePool,
      End, procVars, httpVars, kubeVars, dataVars, reqVars, envVars
<1>4. CASE Server
  BY <1>4, ApiAssumption DEF Numbers, Server, Listen, ServeFails, Shutdown, Drained,
      GraceExpires, ServerReturns, procVars, httpVars, kubeVars, dataVars, reqVars,
      envVars
<1>5. CASE Kube
  BY <1>5, ApiAssumption DEF Numbers, Kube, CacheFills, SyncAborted, SyncTimesOut,
      Synced, procVars, httpVars, kubeVars, dataVars, reqVars, envVars
<1>6. CASE Poller
  BY <1>6, ApiAssumption DEF Numbers, Poller, Refresh, RefreshFails, RefreshTick,
      PollerStops, procVars, httpVars, kubeVars, dataVars, reqVars, envVars
<1>7. CASE Client
  BY <1>7, ApiAssumption DEF Numbers, Client, Arrive, AnswerInventory, BeginQuery,
      EndQuery, QueryUnavailable, Ends, procVars, httpVars, kubeVars, dataVars,
      reqVars, envVars
<1>8. CASE Probe
  BY <1>8, ApiAssumption DEF Numbers, Probe, ProbeBegins, ProbeAnswers, Check,
      procVars, httpVars, kubeVars, dataVars, reqVars, envVars
<1> QED
  BY <1>1, <1>2, <1>3, <1>4, <1>5, <1>6, <1>7, <1>8 DEF Next

LEMMA HandlersKept == ASSUME Handlers, [Next]_vars PROVE Handlers'
<1>1. CASE UNCHANGED vars
  BY <1>1 DEF Handlers, Idle, vars, procVars, httpVars, kubeVars, dataVars, reqVars,
      envVars
<1>2. CASE Environment
  BY <1>2 DEF Handlers, Idle, Environment, Sigterm, DatabaseFails, DatabaseRecovers,
      CollectorWrites, procVars, httpVars, kubeVars, dataVars, reqVars, envVars
<1>3. CASE Main
  BY <1>3 DEF Handlers, Idle, Main, StartFails, Start, GroupDone, ClosePool, End,
      procVars, httpVars, kubeVars, dataVars, reqVars, envVars
<1>4. CASE Server
  BY <1>4 DEF Handlers, Idle, Server, Listen, ServeFails, Shutdown, Drained,
      GraceExpires, ServerReturns, procVars, httpVars, kubeVars, dataVars, reqVars,
      envVars
<1>5. CASE Kube
  BY <1>5 DEF Handlers, Idle, Kube, CacheFills, SyncAborted, SyncTimesOut, Synced,
      procVars, httpVars, kubeVars, dataVars, reqVars, envVars
<1>6. CASE Poller
  BY <1>6 DEF Handlers, Idle, Poller, Refresh, RefreshFails, RefreshTick,
      PollerStops, procVars, httpVars, kubeVars, dataVars, reqVars, envVars
<1>7. CASE Client
  BY <1>7 DEF Handlers, Idle, Client, Arrive, AnswerInventory, BeginQuery, EndQuery,
      QueryUnavailable, Ends, procVars, httpVars, kubeVars, dataVars, reqVars,
      envVars
<1>8. CASE Probe
  BY <1>8 DEF Handlers, Idle, Probe, ProbeBegins, ProbeAnswers, Check, procVars,
      httpVars, kubeVars, dataVars, reqVars, envVars
<1> QED
  BY <1>1, <1>2, <1>3, <1>4, <1>5, <1>6, <1>7, <1>8 DEF Next

LEMMA HistoriesKept == ASSUME Histories, [Next]_vars PROVE Histories'
<1>1. CASE UNCHANGED vars
  BY <1>1 DEF Histories, vars, procVars, httpVars, kubeVars, dataVars, reqVars,
      envVars
<1>2. CASE Environment
  BY <1>2 DEF Histories, Environment, Sigterm, DatabaseFails, DatabaseRecovers,
      CollectorWrites, procVars, httpVars, kubeVars, dataVars, reqVars, envVars
<1>3. CASE Main
  BY <1>3 DEF Histories, Main, StartFails, Start, GroupDone, ClosePool, End,
      procVars, httpVars, kubeVars, dataVars, reqVars, envVars
<1>4. CASE Server
  BY <1>4 DEF Histories, Server, Listen, ServeFails, Shutdown, Drained,
      GraceExpires, ServerReturns, procVars, httpVars, kubeVars, dataVars, reqVars,
      envVars
<1>5. CASE Kube
  BY <1>5 DEF Histories, Kube, CacheFills, SyncAborted, SyncTimesOut, Synced,
      procVars, httpVars, kubeVars, dataVars, reqVars, envVars
<1>6. CASE Poller
  BY <1>6 DEF Histories, Poller, Refresh, RefreshFails, RefreshTick, PollerStops,
      procVars, httpVars, kubeVars, dataVars, reqVars, envVars
<1>7. CASE Client
  BY <1>7 DEF Histories, Client, Arrive, AnswerInventory, BeginQuery, EndQuery,
      QueryUnavailable, Ends, procVars, httpVars, kubeVars, dataVars, reqVars,
      envVars
<1>8. CASE Probe
  BY <1>8 DEF Histories, Probe, ProbeBegins, ProbeAnswers, Check, procVars,
      httpVars, kubeVars, dataVars, reqVars, envVars
<1> QED
  BY <1>1, <1>2, <1>3, <1>4, <1>5, <1>6, <1>7, <1>8 DEF Next

LEMMA ConnsKept == ASSUME Conns, Handlers, [Next]_vars PROVE Conns'
<1>1. ASSUME NEW r \in Requests, BeginQuery(r) PROVE Conns'
  <2>1. Held' \subseteq Held \cup {r}
    BY <1>1 DEF BeginQuery, Held
  <2> QED
    BY <1>1, <2>1, HeldGrows DEF BeginQuery, CanAcquire
<1>2. CASE End \/ Probe
  <2>1. Held' \subseteq Held
    BY <1>2 DEF End, Probe, ProbeBegins, ProbeAnswers, Check, Held, Handlers, Idle
  <2> QED
    BY <2>1, HeldShrinks
<1>3. ASSUME NEW r \in Requests,
             \/ \E what \in { "query", "inventory" } : Arrive(r, what)
             \/ AnswerInventory(r) \/ EndQuery(r) \/ QueryUnavailable(r)
      PROVE  Conns'
  <2>1. Held' \subseteq Held
    BY <1>3 DEF Arrive, AnswerInventory, EndQuery, QueryUnavailable, Ends, Held, Handlers, Idle
  <2> QED
    BY <2>1, HeldShrinks
<1>4. CASE UNCHANGED req
  <2>1. Held' = Held
    BY <1>4 DEF Held
  <2> QED
    BY <2>1, HeldShrinks
<1>5. UNCHANGED vars => UNCHANGED req
  BY DEF vars, reqVars
<1>6. Environment \/ Server \/ Kube \/ Poller => UNCHANGED req
  BY DEF Environment, Sigterm, DatabaseFails, DatabaseRecovers, CollectorWrites,
    Server, Listen, ServeFails, Shutdown, Drained, GraceExpires, ServerReturns,
    Kube, CacheFills, SyncAborted, SyncTimesOut, Synced,
    Poller, Refresh, RefreshFails, RefreshTick, PollerStops, reqVars
<1>7. StartFails \/ Start \/ GroupDone \/ ClosePool => UNCHANGED req
  BY DEF StartFails, Start, GroupDone, ClosePool, reqVars
<1> QED
  BY <1>1, <1>2, <1>3, <1>4, <1>5, <1>6, <1>7 DEF Next, Main, Client

\* Every variable of the API process keeps its type, the gauge never runs ahead
\* of the table, and no more than DB_MAX_OPEN_CONNS connections are held.
THEOREM ApiTypeCorrect == Spec => []ApiTypeOK
<1>1. Init => ApiTypeOK
  <2> SUFFICES ASSUME Init PROVE ApiTypeOK
    OBVIOUS
  <2>1. Held = {}
    BY DEF Init, Held, Idle
  <2>2. Conns
    BY <2>1, FS_EmptySet, ApiAssumption DEF Conns
  <2>3. Words /\ Numbers /\ Handlers /\ Histories
    BY ApiAssumption DEF Init, Words, Numbers, Handlers, Histories
  <2>4. Switches
    BY Zenon DEF Init, Switches
  <2> QED
    BY <2>2, <2>3, <2>4, TypeParts
<1>2. ApiTypeOK /\ [Next]_vars => ApiTypeOK'
  <2> SUFFICES ASSUME ApiTypeOK, [Next]_vars PROVE ApiTypeOK'
    OBVIOUS
  <2>1. Words' /\ Switches' /\ Numbers' /\ Handlers' /\ Histories' /\ Conns'
    BY TypeParts, WordsKept, SwitchesKept, NumbersKept, HandlersKept, HistoriesKept,
      ConnsKept
  <2> QED
    BY <2>1, Zenon DEF ApiTypeOK, Words, Switches, Numbers, Handlers, Histories, Conns
<1> QED
  BY <1>1, <1>2, PTL DEF Spec

-----------------------------------------------------------------------------
(* No client is told that the cluster is empty                             *)

\* While the cache is empty the probe cannot pass its check, so that the
\* Service sends nobody; and a cache once full stays so.
ColdInv ==
  cache = "empty" => ~ routed /\ probe["kubernetes"] # "up"
CacheInv ==
  /\ \A r \in Requests : req[r] = "inventory" => cache = "full"
  /\ NoEmptyInventory

LEMMA ColdStep == ASSUME Words, Handlers, ColdInv, [Next]_vars PROVE ColdInv'
<1>1. CASE UNCHANGED << cache, routed, probe >>
  BY <1>1, Zenon DEF ColdInv
<1>2. CASE End
  BY <1>2 DEF ColdInv, End, kubeVars, Checks
<1>3. CASE CacheFills
  BY <1>3 DEF ColdInv, CacheFills
<1>4. ASSUME NEW r \in Requests, ProbeBegins(r) PROVE ColdInv'
  BY <1>4 DEF ColdInv, ProbeBegins, kubeVars, Checks
<1>5. ASSUME NEW r \in Requests, ProbeAnswers(r) PROVE ColdInv'
  <2>1. cache' = cache /\ (routed' => probe["kubernetes"] = "up")
    BY <1>5, Zenon DEF ProbeAnswers, kubeVars, Checks
  <2>2. probe'["kubernetes"] = "off"
    BY <1>5 DEF ProbeAnswers, Checks
  <2> QED
    BY <2>1, <2>2 DEF ColdInv
<1>6. ASSUME NEW c \in Checks, Check(c) PROVE ColdInv'
  <2>1. cache' = cache /\ routed' = routed
    BY <1>6, Zenon DEF Check, kubeVars
  <2>2. probe'["kubernetes"] = "up" => cache = "full" \/ probe["kubernetes"] = "up"
    BY <1>6 DEF Check, Passes, Checks, Handlers
  <2> QED
    BY <2>1, <2>2 DEF ColdInv
<1>7. UNCHANGED vars \/ Environment \/ Server \/ Poller => UNCHANGED << cache, routed, probe >>
  BY DEF Environment, Sigterm, DatabaseFails,
    DatabaseRecovers, CollectorWrites, Server, Listen, ServeFails, Shutdown, Drained,
    GraceExpires, ServerReturns, Poller, Refresh, RefreshFails, RefreshTick, PollerStops,
    kubeVars, reqVars, vars
<1>8. StartFails \/ Start \/ GroupDone \/ ClosePool => UNCHANGED << cache, routed, probe >>
  BY DEF StartFails, Start, GroupDone, ClosePool, kubeVars, reqVars
<1>9. SyncAborted \/ SyncTimesOut \/ Synced \/ Client => UNCHANGED << cache, routed, probe >>
  BY DEF SyncAborted, SyncTimesOut, Synced, Client, Arrive, AnswerInventory, BeginQuery,
    EndQuery, QueryUnavailable, Ends, kubeVars, reqVars
<1> QED
  BY <1>1, <1>2, <1>3, <1>4, <1>5, <1>6, <1>7, <1>8, <1>9 DEF Next, Main, Kube, Probe

LEMMA CacheStep ==
  ASSUME Words, Handlers, ColdInv, CacheInv, [Next]_vars PROVE CacheInv'
<1>1. CASE UNCHANGED << cache, req, seen >>
  BY <1>1 DEF CacheInv, NoEmptyInventory
<1>2. CASE End
  BY <1>2 DEF CacheInv, NoEmptyInventory, End, Idle, Handlers
<1>3. CASE CacheFills
  BY <1>3 DEF CacheInv, NoEmptyInventory, CacheFills, reqVars
<1>4. ASSUME NEW r \in Requests, ProbeBegins(r) \/ ProbeAnswers(r) PROVE CacheInv'
  BY <1>4 DEF CacheInv, NoEmptyInventory, ProbeBegins, ProbeAnswers, kubeVars, Handlers, Idle
<1>5. ASSUME NEW r \in Requests, NEW what, Arrive(r, what) PROVE CacheInv'
  <2>1. cache = "full"
    BY <1>5, Zenon DEF Arrive, ColdInv, Words
  <2> QED
    BY <1>5, <2>1 DEF CacheInv, NoEmptyInventory, Arrive, kubeVars, Handlers
<1>6. ASSUME NEW r \in Requests, AnswerInventory(r) PROVE CacheInv'
  BY <1>6 DEF CacheInv, NoEmptyInventory, AnswerInventory, Ends, kubeVars, Handlers, Idle
<1>7. ASSUME NEW r \in Requests, BeginQuery(r) \/ EndQuery(r) \/ QueryUnavailable(r)
      PROVE  CacheInv'
  BY <1>7 DEF CacheInv, NoEmptyInventory, BeginQuery, EndQuery, QueryUnavailable, Ends,
    kubeVars, Handlers, Idle
<1>8. UNCHANGED vars \/ Environment \/ Server \/ Poller => UNCHANGED << cache, req, seen >>
  BY DEF Environment, Sigterm, DatabaseFails,
    DatabaseRecovers, CollectorWrites, Server, Listen, ServeFails, Shutdown, Drained,
    GraceExpires, ServerReturns, Poller, Refresh, RefreshFails, RefreshTick, PollerStops,
    kubeVars, reqVars, vars
<1>9. StartFails \/ Start \/ GroupDone \/ ClosePool => UNCHANGED << cache, req, seen >>
  BY DEF StartFails, Start, GroupDone, ClosePool, kubeVars, reqVars
<1>10. /\ SyncAborted \/ SyncTimesOut \/ Synced => UNCHANGED << cache, req, seen >>
       /\ \A c \in Checks : Check(c) => UNCHANGED << cache, req, seen >>
  BY DEF SyncAborted, SyncTimesOut, Synced, Check, kubeVars, reqVars
<1> QED
  BY <1>1, <1>2, <1>3, <1>4, <1>5, <1>6, <1>7, <1>8, <1>9, <1>10
    DEF Next, Main, Kube, Probe, Client

\* A client that the Service sends is never answered from a cold cache: the
\* readiness probe's Kubernetes check is what keeps it away.
THEOREM InventoryIsNeverEmpty == Spec => []NoEmptyInventory
<1>1. Init => ColdInv /\ CacheInv
  BY DEF Init, ColdInv, CacheInv, NoEmptyInventory, Checks, Idle
<1>2. ApiTypeOK /\ ColdInv /\ CacheInv /\ [Next]_vars => (ColdInv /\ CacheInv)'
  BY ColdStep, CacheStep, TypeParts
<1>3. CacheInv => NoEmptyInventory
  BY DEF CacheInv
<1> QED
  BY <1>1, <1>2, <1>3, ApiTypeCorrect, PTL DEF Spec

-----------------------------------------------------------------------------
(* The pool and the requests                                               *)

AllIdle == \A r \in Requests : req[r] = Idle
Over == phase \in { "closing", "ended" }

\* How main, the listener and the server's goroutine go together: a request
\* comes in through an open listener only, Shutdown returns without an error
\* when none is left, and the pool is closed when the group has returned.
ServerInv ==
  /\ accept = "open" => server = "running" /\ serveErr = "none"
  /\ server = "running" => serveErr \in { "none", "error" }
  /\ server = "running" /\ accept = "closed" => AllIdle
  /\ server \in { "off", "drained", "stopped" } => AllIdle
  /\ server = "failed" /\ ~ AllIdle => "grace" \in fault
  /\ server = "stopped" => serveErr = "taken"
  /\ phase = "ended" => AllIdle
  /\ phase = "starting" => server = "off" /\ serveErr = "none" /\ informers = "off"
                           /\ fault = {} /\ pool = "none"
  /\ phase = "serving" => server # "off" /\ pool = "open"
  /\ Over => server \in { "off", "stopped", "failed" } /\ informers # "syncing"
  /\ pool = "none" => server = "off"
  /\ pool = "closed" => Over

LEMMA IdleMeansInactive == AllIdle <=> Active = {}
BY DEF AllIdle, Active

LEMMA RequestsKeepServer ==
  ASSUME Words, Handlers, ServerInv, Client \/ Probe
  PROVE  ServerInv'
<1>1. UNCHANGED << phase, server, accept, serveErr, informers, pool, fault >>
  BY DEF Client, Arrive, AnswerInventory, BeginQuery, EndQuery, QueryUnavailable,
    Probe, ProbeBegins, ProbeAnswers, Check, procVars, httpVars, kubeVars, dataVars
<1>2. AllIdle => AllIdle' \/ (accept = "open" /\ phase = "serving")
  BY DEF Client, Arrive, AnswerInventory, BeginQuery, EndQuery, QueryUnavailable,
    Probe, ProbeBegins, ProbeAnswers, Check, AllIdle, Idle
<1>3. CASE AllIdle => AllIdle'
  BY <1>1, <1>3, Zenon DEF ServerInv, Over
<1>4. CASE accept = "open" /\ phase = "serving"
  BY <1>1, <1>4 DEF ServerInv, Over
<1> QED
  BY <1>2, <1>3, <1>4

LEMMA ServerStep ==
  ASSUME Words, Handlers, ServerInv, [Next]_vars PROVE ServerInv'
<1>1. CASE Client \/ Probe
  BY <1>1, RequestsKeepServer
<1>2. CASE UNCHANGED << phase, server, accept, serveErr, informers, pool, fault, req >>
  BY <1>2 DEF ServerInv, AllIdle, Over
<1>3. UNCHANGED vars \/ Environment =>
        UNCHANGED << phase, server, accept, serveErr, informers, pool, fault, req >>
  BY DEF Environment, Sigterm, DatabaseFails, DatabaseRecovers, CollectorWrites,
    vars, procVars, httpVars, kubeVars, dataVars, reqVars
<1>4. Poller =>
        UNCHANGED << phase, server, accept, serveErr, informers, pool, fault, req >>
  BY DEF Poller, Refresh, RefreshFails, RefreshTick, PollerStops,
    procVars, httpVars, kubeVars, reqVars
<1>5. CASE End
  <2>1. AllIdle'
    BY <1>5 DEF End, AllIdle
  <2> QED
    BY <1>5, <2>1 DEF End, ServerInv, Over, httpVars, kubeVars, dataVars
<1>6. CASE StartFails \/ Start \/ GroupDone \/ ClosePool \/ Server \/ Kube
  <2>1. (AllIdle' <=> AllIdle) /\ (Active' = Active)
    BY <1>6 DEF StartFails, Start, GroupDone, ClosePool, Server, Listen, ServeFails,
      Shutdown, Drained, GraceExpires, ServerReturns, Kube, CacheFills, SyncAborted,
      SyncTimesOut, Synced, reqVars, AllIdle, Active
  <2>2. CASE StartFails
    BY <2>1, <2>2 DEF StartFails, ServerInv, Over, httpVars, kubeVars, dataVars
  <2>3. CASE Start
    BY <2>1, <2>3 DEF Start, ServerInv, Over
  <2>4. CASE GroupDone
    BY <2>1, <2>4 DEF GroupDone, ServerInv, Over, httpVars, kubeVars, dataVars
  <2>5. CASE ClosePool
    BY <2>1, <2>5 DEF ClosePool, ServerInv, Over, procVars, httpVars, kubeVars
  <2>6. CASE Listen
    <3>1. UNCHANGED << phase, server, informers, pool >>
      BY <2>6 DEF Listen, procVars, kubeVars, dataVars
    <3>2. server # "off" /\ ~ Over
      BY <2>6 DEF Listen, ServerInv, Over
    <3>3. \/ server = "running" /\ accept' = "open" /\ serveErr' = "none" /\ fault' = fault
          \/ server = "running" /\ accept' = "closed" /\ serveErr' = "error"
          \/ /\ server # "running" /\ accept' = "closed" /\ server \in { "draining", "drained" }
             /\ fault' = fault
      BY <2>6 DEF Listen
    <3> QED
      BY <2>1, <2>6, <3>1, <3>2, <3>3 DEF ServerInv, Over, Listen
  <2>7. CASE ServeFails
    BY <2>1, <2>7 DEF ServeFails, ServerInv, Over, Words, procVars, kubeVars, dataVars
  <2>8. CASE Shutdown
    BY <2>1, <2>8, IdleMeansInactive
      DEF Shutdown, ServerInv, Over, Words, procVars, kubeVars, dataVars
  <2>9. CASE Drained
    BY <2>1, <2>9, IdleMeansInactive
      DEF Drained, ServerInv, Over, procVars, kubeVars, dataVars
  <2>10. CASE GraceExpires
    BY <2>1, <2>10 DEF GraceExpires, ServerInv, Over, procVars, kubeVars, dataVars
  <2>11. CASE ServerReturns
    BY <2>1, <2>11 DEF ServerReturns, ServerInv, Over, procVars, kubeVars, dataVars
  <2>12. CASE Kube
    BY <2>1, <2>12 DEF Kube, CacheFills, SyncAborted, SyncTimesOut, Synced, ServerInv,
      Over, procVars, httpVars, dataVars
  <2> QED
    BY <1>6, <2>2, <2>3, <2>4, <2>5, <2>6, <2>7, <2>8, <2>9, <2>10, <2>11, <2>12 DEF Server
<1> QED
  BY <1>1, <1>2, <1>3, <1>4, <1>5, <1>6 DEF Next, Main

THEOREM ServerInvariant == Spec => []ServerInv
<1>1. Init => ServerInv
  BY DEF Init, ServerInv, AllIdle, Over
<1>2. ApiTypeOK /\ ServerInv /\ [Next]_vars => ServerInv'
  BY ServerStep, TypeParts
<1> QED
  BY <1>1, <1>2, ApiTypeCorrect, PTL DEF Spec

\* While requests are in flight the pool stays open, unless they have outlived
\* the grace period: db.Close is deferred past g.Wait, and g.Wait past Shutdown.
THEOREM PoolIsClosedLast == Spec => []PoolOutlivesRequests
<1>1. ServerInv => PoolOutlivesRequests
  BY IdleMeansInactive DEF ServerInv, PoolOutlivesRequests, Over
<1> QED
  BY <1>1, ServerInvariant, PTL

-----------------------------------------------------------------------------
(* The exit status                                                         *)

\* Each fault has left its trace where the exit status is computed from, and
\* the other way round: nothing stops without a signal or a fault.
FaultInv ==
  /\ (serveErr = "error") => "listen" \in fault
  /\ "listen" \in fault => serveErr = "error" \/ server = "failed"
  /\ ("sync" \in fault) <=> (informers = "failed")
  /\ "grace" \in fault => server = "failed"
  /\ "startup" \in fault => exit = "failure"
  /\ server = "failed" => fault # {}
StopInv ==
  server \in { "draining", "drained", "stopped" } => sig \/ informers = "failed"
SeenInv ==
  seen \cap { "pool closed", "dropped" } # {} => "grace" \in fault
ExitInv ==
  /\ (exit = "none") <=> ~ Over
  /\ exit = "success" => server = "stopped" /\ sig /\ fault = {}
  /\ exit = "failure" => fault # {}

LEMMA FaultStep ==
  ASSUME Words, Histories, ServerInv, FaultInv, ExitInv, [Next]_vars PROVE FaultInv'
<1>1. CASE UNCHANGED << server, serveErr, informers, exit, fault >>
  BY <1>1 DEF FaultInv
<1>2. UNCHANGED vars \/ Environment \/ Client \/ Probe =>
        UNCHANGED << server, serveErr, informers, exit, fault >>
  BY DEF Environment, Sigterm, DatabaseFails, DatabaseRecovers, CollectorWrites,
    Client, Arrive, AnswerInventory, BeginQuery, EndQuery, QueryUnavailable,
    Probe, ProbeBegins, ProbeAnswers, Check, vars, procVars, httpVars, kubeVars
<1>3. Poller \/ ClosePool \/ End => UNCHANGED << server, serveErr, informers, exit, fault >>
  BY DEF Poller, Refresh, RefreshFails, RefreshTick, PollerStops, ClosePool, End,
    procVars, httpVars, kubeVars
<1>4. CASE StartFails \/ Start \/ GroupDone
  BY <1>4 DEF StartFails, Start, GroupDone, FaultInv, ServerInv, Over, ExitInv, httpVars, kubeVars
<1>5. CASE Listen
  BY <1>5 DEF Listen, FaultInv, ServerInv, procVars, kubeVars
<1>6. CASE ServeFails \/ ServerReturns
  BY <1>6 DEF ServeFails, ServerReturns, FaultInv, ServerInv, procVars, kubeVars
<1>7. CASE Shutdown \/ Drained
  BY <1>7 DEF Shutdown, Drained, FaultInv, ServerInv, Words, procVars, kubeVars
<1>8. CASE GraceExpires
  BY <1>8 DEF GraceExpires, FaultInv, procVars, kubeVars
<1>9. CASE Kube
  BY <1>9 DEF Kube, CacheFills, SyncAborted, SyncTimesOut, Synced, FaultInv, procVars, httpVars
<1> QED
  BY <1>1, <1>2, <1>3, <1>4, <1>5, <1>6, <1>7, <1>8, <1>9 DEF Next, Main, Server

\* Cancelled is the only way into a shutdown, and its causes stay.
LEMMA StopStep ==
  ASSUME Words, ServerInv, FaultInv, StopInv, [Next]_vars PROVE StopInv'
<1>1. CASE UNCHANGED << server, informers >> /\ sig' \in {sig, TRUE}
  BY <1>1, Zenon DEF StopInv
<1>2. UNCHANGED vars \/ Environment \/ Client => UNCHANGED << server, informers >> /\ sig' \in {sig, TRUE}
  BY DEF Environment, Sigterm, DatabaseFails, DatabaseRecovers, CollectorWrites,
    Client, Arrive, AnswerInventory, BeginQuery, EndQuery, QueryUnavailable,
    vars, procVars, httpVars, kubeVars
<1>3. Probe \/ Poller => UNCHANGED << server, informers >> /\ sig' \in {sig, TRUE}
  BY DEF Probe, ProbeBegins, ProbeAnswers, Check, Poller, Refresh, RefreshFails,
    RefreshTick, PollerStops, procVars, httpVars, kubeVars
<1>4. StartFails \/ GroupDone \/ ClosePool \/ End \/ Listen =>
        UNCHANGED << server, informers >> /\ sig' \in {sig, TRUE}
  BY DEF StartFails, GroupDone, ClosePool, End, Listen, procVars, httpVars, kubeVars
<1>5. CASE Start
  BY <1>5 DEF Start, StopInv
<1>6. CASE ServeFails \/ ServerReturns
  <2>1. CASE ServeFails
    <3>1. server' = "failed"
      BY <2>1 DEF ServeFails, ServerInv
    <3> QED
      BY <3>1 DEF StopInv
  <2>2. CASE ServerReturns
    <3>1. UNCHANGED informers /\ sig' \in {sig, TRUE} /\ server = "drained"
      BY <2>2 DEF ServerReturns, procVars, kubeVars
    <3> QED
      BY <3>1, Zenon DEF StopInv
  <2> QED
    BY <1>6, <2>1, <2>2
<1>7. CASE Shutdown
  <2>1. sig \/ informers = "failed"
    BY <1>7, Zenon DEF Shutdown, Cancelled
  <2>2. UNCHANGED informers /\ sig' \in {sig, TRUE}
    BY <1>7 DEF Shutdown, procVars, kubeVars
  <2> QED
    BY <2>1, <2>2, Zenon DEF StopInv
<1>8. CASE Drained \/ GraceExpires
  <2>1. UNCHANGED informers /\ sig' \in {sig, TRUE} /\ server = "draining"
    BY <1>8 DEF Drained, GraceExpires, procVars, kubeVars
  <2> QED
    BY <2>1, Zenon DEF StopInv
<1>9. CASE Kube
  <2>1. UNCHANGED server /\ sig' \in {sig, TRUE} /\ informers = "syncing"
    BY <1>9 DEF Kube, CacheFills, SyncAborted, SyncTimesOut, Synced, procVars, httpVars
  <2>2. "syncing" # "failed"
    OBVIOUS
  <2> QED
    BY <2>1, <2>2, Zenon DEF StopInv
<1> QED
  BY <1>1, <1>2, <1>3, <1>4, <1>5, <1>6, <1>7, <1>8, <1>9 DEF Next, Main, Server

\* A request is dropped, or finds the pool closed, after the group returned.
LEMMA SeenStep ==
  ASSUME Words, Handlers, ServerInv, SeenInv, [Next]_vars PROVE SeenInv'
<1>1. CASE UNCHANGED seen /\ fault \subseteq fault'
  BY <1>1 DEF SeenInv
<1>2. UNCHANGED vars \/ Environment \/ Poller => UNCHANGED seen /\ fault \subseteq fault'
  BY DEF Environment, Sigterm, DatabaseFails, DatabaseRecovers, CollectorWrites,
    Poller, Refresh, RefreshFails, RefreshTick, PollerStops, vars, reqVars
<1>3. Server \/ Kube \/ Probe => UNCHANGED seen /\ fault \subseteq fault'
  BY DEF Server, Listen, ServeFails, Shutdown, Drained, GraceExpires, ServerReturns,
    Kube, CacheFills, SyncAborted, SyncTimesOut, Synced,
    Probe, ProbeBegins, ProbeAnswers, Check, reqVars
<1>4. StartFails \/ Start \/ GroupDone \/ ClosePool =>
        UNCHANGED seen /\ fault \subseteq fault'
  BY DEF StartFails, Start, GroupDone, ClosePool, reqVars
<1>5. CASE End
  BY <1>5, IdleMeansInactive DEF End, SeenInv, ServerInv, Over
<1>6. ASSUME NEW r \in Requests, NEW what, Arrive(r, what) \/ BeginQuery(r)
      PROVE  UNCHANGED seen /\ fault \subseteq fault'
  BY <1>6 DEF Arrive, BeginQuery
<1>7. ASSUME NEW r \in Requests, AnswerInventory(r) \/ EndQuery(r) PROVE SeenInv'
  BY <1>7 DEF AnswerInventory, EndQuery, Ends, SeenInv
<1>8. ASSUME NEW r \in Requests, QueryUnavailable(r) PROVE SeenInv'
  <2>1. ~ AllIdle /\ fault' = fault
    BY <1>8 DEF QueryUnavailable, AllIdle, Idle
  <2>2. pool = "closed" => "grace" \in fault
    BY <2>1 DEF ServerInv, Over
  <2>3. pool # "none"
    BY <2>1 DEF ServerInv
  <2> QED
    BY <1>8, <2>1, <2>2, <2>3 DEF QueryUnavailable, Ends, SeenInv, Words
<1> QED
  BY <1>1, <1>2, <1>3, <1>4, <1>5, <1>6, <1>7, <1>8 DEF Next, Main, Client

LEMMA ExitStep ==
  ASSUME Words, Histories, ServerInv, FaultInv, StopInv, ExitInv, [Next]_vars PROVE ExitInv'
<1>1. CASE UNCHANGED << phase, exit, server, fault >> /\ sig' \in {sig, TRUE}
  BY <1>1, Zenon DEF ExitInv, Over
<1>2. UNCHANGED vars \/ Environment \/ Client =>
        UNCHANGED << phase, exit, server, fault >> /\ sig' \in {sig, TRUE}
  BY DEF Environment, Sigterm, DatabaseFails, DatabaseRecovers, CollectorWrites,
    Client, Arrive, AnswerInventory, BeginQuery, EndQuery, QueryUnavailable,
    vars, procVars, httpVars
<1>3. Probe \/ Poller \/ ClosePool => UNCHANGED << phase, exit, server, fault >> /\ sig' \in {sig, TRUE}
  BY DEF Probe, ProbeBegins, ProbeAnswers, Check, Poller, Refresh, RefreshFails,
    RefreshTick, PollerStops, ClosePool, procVars, httpVars
<1>4. CASE Server \/ Kube
  <2>1. ~ Over
    BY <1>4 DEF Server, Listen, ServeFails, Shutdown, Drained, GraceExpires, ServerReturns,
      Kube, CacheFills, SyncAborted, SyncTimesOut, Synced, ServerInv, Over
  <2>2. UNCHANGED << phase, exit >>
    BY <1>4 DEF Server, Listen, ServeFails, Shutdown, Drained, GraceExpires, ServerReturns,
      Kube, CacheFills, SyncAborted, SyncTimesOut, Synced, procVars
  <2> QED
    BY <2>1, <2>2 DEF ExitInv, Over
<1>5. CASE StartFails \/ Start
  BY <1>5 DEF StartFails, Start, ExitInv, Over
<1>6. CASE GroupDone
  <2>1. (phase' = "closing") /\ fault' = fault /\ server' = server /\ sig' \in {sig, TRUE}
    BY <1>6 DEF GroupDone, httpVars
  <2>2. exit' = IF server = "failed" \/ informers = "failed" THEN "failure" ELSE "success"
    BY <1>6 DEF GroupDone
  <2>3. CASE server = "failed" \/ informers = "failed"
    BY <2>1, <2>2, <2>3 DEF FaultInv, ExitInv, Over
  <2>4. CASE ~ (server = "failed" \/ informers = "failed")
    <3>1. server = "stopped" /\ serveErr = "taken"
      BY <1>6, <2>4 DEF GroupDone, ServerInv
    <3>2. exit # "failure"
      BY <1>6 DEF GroupDone, ExitInv, Over
    <3>3. fault = {}
      BY <2>4, <3>1, <3>2 DEF FaultInv, Histories
    <3>4. sig
      BY <2>4, <3>1 DEF StopInv
    <3> QED
      BY <2>1, <2>2, <2>4, <3>1, <3>3, <3>4 DEF ExitInv, Over
  <2> QED
    BY <2>3, <2>4
<1>7. CASE End
  <2>1. exit' = exit /\ server' = server /\ fault' = fault /\ sig' = sig
    BY <1>7 DEF End, httpVars
  <2>2. Over /\ Over'
    BY <1>7 DEF End, Over
  <2> QED
    BY <2>1, <2>2, Zenon DEF ExitInv
<1> QED
  BY <1>1, <1>2, <1>3, <1>4, <1>5, <1>6, <1>7 DEF Next, Main

\* Exit status 0 says that the process was asked to stop and answered every
\* request it took, 1 that something other than a signal went wrong.
THEOREM ExitStatusMeansIt == Spec => []ExitStatusIsHonest
<1> DEFINE I == FaultInv /\ StopInv /\ SeenInv /\ ExitInv
<1>1. Init => I
  BY DEF Init, FaultInv, StopInv, SeenInv, ExitInv, Over
<1>2. ApiTypeOK /\ ServerInv /\ I /\ [Next]_vars => I'
  BY FaultStep, StopStep, SeenStep, ExitStep, TypeParts
<1>3. I => ExitStatusIsHonest
  <2> SUFFICES ASSUME I PROVE ExitStatusIsHonest
    OBVIOUS
  <2>1. exit = "success" => sig /\ fault = {}
    BY DEF ExitInv
  <2>2. fault = {} => seen \cap { "pool closed", "dropped" } = {}
    BY DEF SeenInv
  <2>3. exit = "failure" => fault # {}
    BY DEF ExitInv
  <2> QED
    BY <2>1, <2>2, <2>3, Zenon DEF ExitStatusIsHonest
<1> QED
  BY <1>1, <1>2, <1>3, ApiTypeCorrect, ServerInvariant, PTL DEF Spec

=============================================================================
