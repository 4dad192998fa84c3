------------------------------- MODULE Settings -------------------------------
(***************************************************************************)
(* Reading the environment: Load and Validate of internal/config.          *)
(*                                                                         *)
(* An environment gives some variables a text; one that is blank counts as *)
(* one that is not there.  A text either parses, and is modelled by what   *)
(* it parses to, or does not, and the variable then has its default for    *)
(* the rest of the run while the error is kept.  Every problem is reported *)
(* at once.  Times are in seconds, API_KEYS is the set of its keys'        *)
(* lengths, and the settings that nothing refuses are left out.            *)
(***************************************************************************)
EXTENDS Integers

\* os.LookupEnv: a text that parses to x, and one that does not parse or is out
\* of range of int32 or float32.
Text(x) == [ ok |-> TRUE, is |-> x ]
Garbled == [ ok |-> FALSE, is |-> 0 ]

Placeholder == "default"

Defaults ==
  [ APP_ENV |-> "development", LOG_LEVEL |-> "info", CLUSTER_NAME |-> Placeholder,
    API_HTTP_ADDR |-> ":8080", API_READ_TIMEOUT |-> 10, API_WRITE_TIMEOUT |-> 15,
    API_IDLE_TIMEOUT |-> 60, API_SHUTDOWN_TIMEOUT |-> 15, API_KEYS |-> {},
    API_RATE_LIMIT_PER_SECOND |-> 20, API_RATE_LIMIT_BURST |-> 40,
    DATABASE_URL |-> "", DB_MAX_OPEN_CONNS |-> 20, DB_MIN_IDLE_CONNS |-> 5,
    DB_CONN_MAX_LIFETIME |-> 1800, KUBE_RESYNC_INTERVAL |-> 0, KUBE_CACHE_SYNC_TIMEOUT |-> 60,
    KUBE_QPS |-> 50, KUBE_BURST |-> 100, PROMETHEUS_TIMEOUT |-> 30,
    COLLECTOR_INTERVAL |-> 300, COLLECTOR_HTTP_ADDR |-> ":8081", COLLECTOR_WORKERS |-> 4 ]

Variables == DOMAIN Defaults

\* The loader's functions: str, duration, integer, int32, float, csv.
Read(env, v) == IF v \in DOMAIN env /\ env[v].ok THEN env[v].is ELSE Defaults[v]

\* The errors that reading leaves in the loader, required's among them.
Unread(env) ==
  { v \in DOMAIN env : ~ env[v].ok }
    \cup ( {"DATABASE_URL"} \ DOMAIN env )

-----------------------------------------------------------------------------
(* Validate: the variables it has something to say of                      *)

Timeouts ==
  { "API_READ_TIMEOUT", "API_WRITE_TIMEOUT", "API_IDLE_TIMEOUT", "API_SHUTDOWN_TIMEOUT",
    "PROMETHEUS_TIMEOUT", "DB_CONN_MAX_LIFETIME" }

IsProduction(c) == c["APP_ENV"] = "production"

BadText(c) ==
  { v \in {"APP_ENV"} : c[v] \notin { "development", "production" } }
    \cup { v \in {"LOG_LEVEL"} : c[v] \notin { "debug", "info", "warn", "error" } }

BadTime(c) == { v \in Timeouts : c[v] <= 0 }

BadAccess(c) ==
  { v \in {"API_KEYS"} : (IsProduction(c) /\ c[v] = {}) \/ \E n \in c[v] : n < 16 }
    \cup { v \in { "API_RATE_LIMIT_PER_SECOND", "API_RATE_LIMIT_BURST" } : c[v] < 0 }

BadPool(c) ==
  { v \in {"DB_MAX_OPEN_CONNS"} : c[v] <= 0 }
    \cup { v \in {"DB_MIN_IDLE_CONNS"} : c[v] > c["DB_MAX_OPEN_CONNS"] \/ c[v] < 0 }

BadKube(c) ==
  { v \in { "KUBE_CACHE_SYNC_TIMEOUT", "KUBE_QPS" } : c[v] <= 0 }
    \cup { v \in {"KUBE_BURST"} : c[v] < c["KUBE_QPS"] }
    \cup { v \in {"KUBE_RESYNC_INTERVAL"} : c[v] < 0 }

\* A production deployment must name its cluster.
BadCluster(c) == { v \in {"CLUSTER_NAME"} : IsProduction(c) /\ c[v] = Placeholder }

\* Both binaries may read one file.
BadCollector(c) ==
  { v \in { "COLLECTOR_WORKERS", "COLLECTOR_INTERVAL" } : c[v] <= 0 }
    \cup { v \in {"COLLECTOR_HTTP_ADDR"} : c["COLLECTOR_INTERVAL"] > 0 /\ c[v] = c["API_HTTP_ADDR"] }

Validate(c) ==
  BadText(c) \cup BadTime(c) \cup BadAccess(c) \cup BadPool(c) \cup BadKube(c)
    \cup BadCluster(c) \cup BadCollector(c)

Loaded(env) == [ v \in Variables |-> Read(env, v) ]

\* A mutant of Reported: the early return on parse errors that the comment in
\* Load tells of.
ReportedInTwoPhases(env) ==
  IF Unread(env) # {} THEN Unread(env) ELSE Validate(Loaded(env))

\* Load: what the one error of a start that is refused names.
Reported(env) == Unread(env) \cup Validate(Loaded(env))

-----------------------------------------------------------------------------
(* Properties                                                              *)

\* The variables that Validate judges by the value of another.
Linked ==
  { << "APP_ENV", "API_KEYS" >>, << "APP_ENV", "CLUSTER_NAME" >>,
    << "DB_MAX_OPEN_CONNS", "DB_MIN_IDLE_CONNS" >>, << "KUBE_QPS", "KUBE_BURST" >>,
    << "COLLECTOR_INTERVAL", "COLLECTOR_HTTP_ADDR" >>, << "API_HTTP_ADDR", "COLLECTOR_HTTP_ADDR" >> }

\* One restart reveals everything: once some of the variables that were reported
\* have been given other values, a start that is refused again names a variable
\* that was not reported before only when it is judged by one that was changed.
\* The rest of what was wrong is named again, none of it for the first time.
RepairReveals(env, repair) ==
  DOMAIN repair \subseteq Reported(env) =>
    LET after == [ v \in DOMAIN env \cup DOMAIN repair |->
                     IF v \in DOMAIN repair THEN repair[v] ELSE env[v] ] IN
    \A v \in Reported(after) :
      \/ v \in Reported(env)
      \/ \E u \in DOMAIN repair : << u, v >> \in Linked
=============================================================================
