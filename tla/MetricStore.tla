----------------------------- MODULE MetricStore -----------------------------
(***************************************************************************)
(* The metrics database between its users, one SQL statement at a time:    *)
(* collectors (prometheus.RunQueries, executeQuery and the database        *)
(* package's GetOrCreateCluster, ValidateCategoryConsistency,              *)
(* StoreQueryResults) and one user at a time of the db remove commands.    *)
(* A collector is a goroutine of a collection or a collection of its own:  *)
(* each has its own cache of known tables, and the goroutines that share   *)
(* one only skip more statements that would have changed nothing.          *)
(*                                                                         *)
(* A row stands for all the data points of a KPI and a cluster in a table: *)
(* the dedup index makes storing a point again no change at all.           *)
(***************************************************************************)
EXTENDS Integers

CONSTANTS
  Collectors,
  Kpis,
  NoKpi,             \* no KPI at hand
  Categories,        \* the category names in use
  Uncategorized,     \* the empty category
  Names,             \* cluster names
  NameOf,            \* the cluster name each collector is given
  Jobs,              \* KPI files: functions from some KPIs to their category
  Backends,          \* the databases to consider
  MaxClusters,       \* bound: cluster ids handed out
  MaxCalls,          \* bound: RunQueries calls of all collectors
  MaxRemovals        \* bound: db remove commands

ASSUME StoreAssumption ==
  /\ Uncategorized \notin Categories
  /\ NoKpi \notin Kpis
  /\ \A j \in Jobs : /\ DOMAIN j \subseteq Kpis
                      /\ \A k \in DOMAIN j : j[k] \in Categories \cup {Uncategorized}
  /\ Backends \subseteq {"sqlite", "postgres"}
  /\ NameOf \in [Collectors -> Names]
  /\ MaxClusters \in Nat /\ MaxCalls \in Nat /\ MaxRemovals \in Nat

Ids == 1 .. MaxClusters

\* The table kpi_<category>, or query_results, goes by the name of its category.
Tables == Categories \cup {Uncategorized}

VARIABLES
  backend,           \* "sqlite", or "postgres", which enforces foreign keys
  clusters,          \* table clusters: the id of each name, 0 when it has none
  lastId,            \* the last id AUTOINCREMENT or SERIAL handed out
  tables,            \* the tables that exist
  registry,          \* kpi_registry: the category of each KPI registered
  rows,              \* records [table, kpi, cluster]: points stored
  errored,           \* query_errors: the KPIs with a count above 0
  pc,                \* where each collector is in RunQueries
  job,               \* the KPI file it runs
  clusterId,         \* clusterID
  todo,              \* KPIs it has still to query
  kpi,               \* the KPI whose result it is storing
  known,             \* knownTables
  remover,           \* where the db remove command is
  victim,            \* the cluster id it removes, or 0
  scope,             \* the KPIs it removes
  whole,             \* it removes the cluster too
  targets,           \* tables it has still to delete from
  calls,             \* bound: RunQueries calls so far
  removals,          \* bound: db remove commands so far
  unlisted,          \* history: KPIs a removal took out of the registry
  removed            \* history: cluster ids removed

dbVars      == <<backend, clusters, lastId, tables, registry, rows, errored>>
callVars    == <<pc, job, clusterId, todo, kpi, known, calls>>
removerVars == <<remover, victim, scope, whole, targets, removals>>
histVars    == <<unlisted, removed>>
vars == <<dbVars, callVars, removerVars, histVars>>

Rows == [table : Tables, kpi : Kpis, cluster : Ids]

TypeOK ==
  /\ backend \in {"sqlite", "postgres"}
  /\ clusters \in [Names -> {0} \cup Ids]
  /\ lastId \in 0 .. MaxClusters
  /\ tables \in SUBSET Tables
  /\ registry \in [Kpis -> Categories \cup {Uncategorized}]
  /\ rows \in SUBSET Rows
  /\ errored \in SUBSET Kpis
  /\ pc \in [Collectors -> {"idle", "insert", "retry", "validate", "query",
                            "ensure", "register", "store"}]
  /\ job \in [Collectors -> Jobs \cup {<<>>}]
  /\ clusterId \in [Collectors -> {0} \cup Ids]
  /\ todo \in [Collectors -> SUBSET Kpis]
  /\ kpi \in [Collectors -> Kpis \cup {NoKpi}]
  /\ known \in [Collectors -> SUBSET Categories]
  /\ remover \in {"idle", "list", "delete", "drop", "registry"}
  /\ victim \in {0} \cup Ids
  /\ scope \in SUBSET Kpis
  /\ whole \in BOOLEAN
  /\ targets \in SUBSET Tables
  /\ calls \in 0 .. MaxCalls
  /\ removals \in 0 .. MaxRemovals
  /\ unlisted \in SUBSET Kpis
  /\ removed \in SUBSET Ids

\* A new database: InitDB has created its fixed tables.
Init ==
  /\ backend \in Backends
  /\ clusters = [n \in Names |-> 0]
  /\ lastId = 0
  /\ tables = {Uncategorized}
  /\ registry = [k \in Kpis |-> Uncategorized]
  /\ rows = {}
  /\ errored = {}
  /\ pc = [c \in Collectors |-> "idle"]
  /\ job = [c \in Collectors |-> <<>>]
  /\ clusterId = [c \in Collectors |-> 0]
  /\ todo = [c \in Collectors |-> {}]
  /\ kpi = [c \in Collectors |-> NoKpi]
  /\ known = [c \in Collectors |-> {}]
  /\ remover = "idle"
  /\ victim = 0
  /\ scope = {}
  /\ whole = FALSE
  /\ targets = {}
  /\ calls = 0
  /\ removals = 0
  /\ unlisted = {}
  /\ removed = {}

-----------------------------------------------------------------------------
(***************************************************************************)
(* A RunQueries call.                                                      *)
(***************************************************************************)

\* RunQueries returns, or its process dies: nothing of the call stays.
CallIsOver(c) ==
  /\ pc' = [pc EXCEPT ![c] = "idle"]
  /\ job' = [job EXCEPT ![c] = <<>>]
  /\ clusterId' = [clusterId EXCEPT ![c] = 0]
  /\ todo' = [todo EXCEPT ![c] = {}]
  /\ kpi' = [kpi EXCEPT ![c] = NoKpi]
  /\ UNCHANGED calls

\* executeQuery has returned.
QueryIsOver(c) ==
  /\ pc' = [pc EXCEPT ![c] = "query"]
  /\ kpi' = [kpi EXCEPT ![c] = NoKpi]
  /\ UNCHANGED <<job, clusterId, todo, calls>>

Goto(c, place) ==
  /\ pc' = [pc EXCEPT ![c] = place]
  /\ UNCHANGED <<job, clusterId, todo, kpi, known, calls>>

GotCluster(c, id) ==
  /\ pc' = [pc EXCEPT ![c] = "validate"]
  /\ clusterId' = [clusterId EXCEPT ![c] = id]
  /\ UNCHANGED <<job, todo, kpi, known, calls>>

\* RunQueries is called: GetOrCreateCluster looks for the cluster.  Setting
\* the type of one it finds changes nothing modelled.
BeginRunQueries(c, j) ==
  LET id == clusters[NameOf[c]] IN
  /\ pc[c] = "idle"
  /\ calls < MaxCalls /\ calls' = calls + 1
  /\ pc' = [pc EXCEPT ![c] = IF id # 0 THEN "validate" ELSE "insert"]
  /\ clusterId' = [clusterId EXCEPT ![c] = id]
  /\ job' = [job EXCEPT ![c] = j]
  /\ todo' = [todo EXCEPT ![c] = DOMAIN j]
  /\ UNCHANGED <<dbVars, kpi, known, removerVars, histVars>>

\* An INSERT into a table without the UNIQUE constraint
InsertClusterAgain(c) ==
  /\ pc[c] = "insert"
  /\ lastId < MaxClusters
  /\ lastId' = lastId + 1
  /\ clusters' = [clusters EXCEPT ![NameOf[c]] = lastId']
  /\ GotCluster(c, lastId')
  /\ UNCHANGED <<backend, tables, registry, rows, errored, removerVars, histVars>>

\* An id of its own to every cluster there is, as a column without AUTOINCREMENT
\* would give: that of a cluster removed may come again.
InsertClusterReusing(c) ==
  LET id   == clusters[NameOf[c]]
      next == CHOOSE i \in 1 .. lastId + 1 : \A n \in Names : clusters[n] # i
  IN
  /\ pc[c] = "insert"
  /\ IF id = 0
     THEN /\ next <= MaxClusters
          /\ lastId' = IF next > lastId THEN next ELSE lastId
          /\ clusters' = [clusters EXCEPT ![NameOf[c]] = next]
          /\ GotCluster(c, next)
     ELSE /\ IF backend = "postgres" THEN GotCluster(c, id) ELSE Goto(c, "retry")
          /\ UNCHANGED <<lastId, clusters>>
  /\ UNCHANGED <<backend, tables, registry, rows, errored, removerVars, histVars>>

\* The name is UNIQUE.  Against a row inserted since the SELECT, PostgreSQL's
\* upsert returns that row and SQLite's INSERT fails.
InsertCluster(c) ==
  LET id == clusters[NameOf[c]] IN
  /\ pc[c] = "insert"
  /\ IF id = 0
     THEN /\ lastId < MaxClusters
          /\ lastId' = lastId + 1
          /\ clusters' = [clusters EXCEPT ![NameOf[c]] = lastId']
          /\ GotCluster(c, lastId')
     ELSE /\ IF backend = "postgres" THEN GotCluster(c, id) ELSE Goto(c, "retry")
          /\ UNCHANGED <<lastId, clusters>>
  /\ UNCHANGED <<backend, tables, registry, rows, errored, removerVars, histVars>>

\* The SELECT after a failed INSERT
RetryCluster(c) ==
  LET id == clusters[NameOf[c]] IN
  /\ pc[c] = "retry"
  /\ IF id # 0 THEN GotCluster(c, id) ELSE CallIsOver(c) /\ UNCHANGED known
  /\ UNCHANGED <<dbVars, removerVars, histVars>>

\* validateCategoryConsistency: a KPI not in the registry is skipped.
ChangedCategory(j) ==
  \E k \in DOMAIN j : registry[k] # Uncategorized /\ registry[k] # j[k]

ValidateCategories(c) ==
  /\ pc[c] = "validate"
  /\ IF ChangedCategory(job[c])
     THEN CallIsOver(c) /\ UNCHANGED known
     ELSE Goto(c, "query")
  /\ UNCHANGED <<dbVars, removerVars, histVars>>

\* Prometheus fails: the error counter goes up, unless that fails too.
PromFails(c, k) ==
  /\ pc[c] = "query" /\ k \in todo[c]
  /\ todo' = [todo EXCEPT ![c] = @ \ {k}]
  /\ errored' \in {errored \cup {k}, errored}
  /\ UNCHANGED <<backend, clusters, lastId, tables, registry, rows, pc, job, clusterId,
                 kpi, known, calls, removerVars, histVars>>

\* No data, or nothing but NaN: a success that stores nothing.
EmptyResult(c, k) ==
  /\ pc[c] = "query" /\ k \in todo[c]
  /\ todo' = [todo EXCEPT ![c] = @ \ {k}]
  /\ UNCHANGED <<dbVars, pc, job, clusterId, kpi, known, calls, removerVars, histVars>>

\* storeQueryResults without its test for a KPI without category
GotResultAlwaysEnsures(c, k) ==
  /\ pc[c] = "query" /\ k \in todo[c]
  /\ todo' = [todo EXCEPT ![c] = @ \ {k}]
  /\ kpi' = [kpi EXCEPT ![c] = k]
  /\ pc' = [pc EXCEPT ![c] = "ensure"]
  /\ UNCHANGED <<dbVars, job, clusterId, known, calls, removerVars, histVars>>

\* Data to store: storeQueryResults starts.
GotResult(c, k) ==
  /\ pc[c] = "query" /\ k \in todo[c]
  /\ todo' = [todo EXCEPT ![c] = @ \ {k}]
  /\ kpi' = [kpi EXCEPT ![c] = k]
  /\ pc' = [pc EXCEPT ![c] = IF job[c][k] = Uncategorized THEN "store" ELSE "ensure"]
  /\ UNCHANGED <<dbVars, job, clusterId, known, calls, removerVars, histVars>>

\* The table of the KPI at hand
Target(c) == job[c][kpi[c]]

\* EnsureCategoryTable with the registration inside the test of the cache
CreateTableOnly(c) ==
  /\ pc[c] = "ensure"
  /\ tables' = tables \cup {Target(c)}
  /\ known' = [known EXCEPT ![c] = @ \cup {Target(c)}]
  /\ pc' = [pc EXCEPT ![c] = IF Target(c) \in known[c] THEN "store" ELSE "register"]
  /\ UNCHANGED <<backend, clusters, lastId, registry, rows, errored, job, clusterId, todo,
                 kpi, calls, removerVars, histVars>>

\* EnsureCategoryTable: CREATE TABLE IF NOT EXISTS, skipped when it is known.
CreateTable(c) ==
  /\ pc[c] = "ensure"
  /\ tables' = IF Target(c) \in known[c] THEN tables ELSE tables \cup {Target(c)}
  /\ known' = [known EXCEPT ![c] = @ \cup {Target(c)}]
  /\ pc' = [pc EXCEPT ![c] = "register"]
  /\ UNCHANGED <<backend, clusters, lastId, registry, rows, errored, job, clusterId, todo,
                 kpi, calls, removerVars, histVars>>

\* An upsert that overwrites the category of a registered KPI
RegisterOver(c) ==
  /\ pc[c] = "register"
  /\ registry' = [registry EXCEPT ![kpi[c]] = Target(c)]
  /\ unlisted' = unlisted \ {kpi[c]}
  /\ Goto(c, "store")
  /\ UNCHANGED <<backend, clusters, lastId, tables, rows, errored, removerVars, removed>>

\* EnsureCategoryTable: the registry keeps the category it has; the collector
\* goes on with its own.
Register(c) ==
  /\ pc[c] = "register"
  /\ registry' = [registry EXCEPT ![kpi[c]] = IF @ = Uncategorized THEN Target(c) ELSE @]
  /\ unlisted' = unlisted \ {kpi[c]}
  /\ Goto(c, "store")
  /\ UNCHANGED <<backend, clusters, lastId, tables, rows, errored, removerVars, removed>>

\* REFERENCES clusters(id): PostgreSQL checks it, SQLite (foreign_keys off) not.
Live(id) == \E n \in Names : clusters[n] = id
ReferenceHolds(id) == backend = "sqlite" \/ Live(id)

\* storeVectorResults, storeMatrixResults: one transaction
StoreRows(c) ==
  /\ pc[c] = "store"
  /\ ReferenceHolds(clusterId[c])
  /\ rows' = rows \cup {[table |-> Target(c), kpi |-> kpi[c], cluster |-> clusterId[c]]}
  /\ QueryIsOver(c)
  /\ UNCHANGED <<backend, clusters, lastId, tables, registry, errored, known, removerVars,
                 histVars>>

Setup == {"insert", "retry", "validate"}
Storing == {"ensure", "register", "store"}

\* EnsureCategoryTable with the table cached before it is created
StatementFailsCached(c) ==
  \/ /\ pc[c] \in Setup
     /\ CallIsOver(c)
     /\ UNCHANGED <<dbVars, known, removerVars, histVars>>
  \/ /\ pc[c] \in Storing
     /\ QueryIsOver(c)
     /\ known' = [known EXCEPT ![c] = @ \cup ({Target(c)} \cap Categories)]
     /\ UNCHANGED <<dbVars, removerVars, histVars>>

\* A statement fails, or the result has a type that is not stored: during the
\* setup the call fails, later only the query, whose transaction is rolled back.
StatementFails(c) ==
  \/ /\ pc[c] \in Setup
     /\ CallIsOver(c)
     /\ UNCHANGED <<dbVars, known, removerVars, histVars>>
  \/ /\ pc[c] \in Storing
     /\ QueryIsOver(c)
     /\ UNCHANGED <<dbVars, known, removerVars, histVars>>

RunQueriesReturns(c) ==
  /\ pc[c] = "query" /\ todo[c] = {}
  /\ CallIsOver(c)
  /\ UNCHANGED <<dbVars, known, removerVars, histVars>>

\* The process is killed, or ends between two calls; the next one knows no table.
ProcessEnds(c) ==
  /\ pc[c] # "idle" \/ known[c] # {}
  /\ CallIsOver(c)
  /\ known' = [known EXCEPT ![c] = {}]
  /\ UNCHANGED <<dbVars, removerVars, histVars>>

-----------------------------------------------------------------------------
(***************************************************************************)
(* The db remove commands.                                                 *)
(***************************************************************************)
RemoverRests ==
  /\ remover' = "idle"
  /\ victim' = 0
  /\ scope' = {}
  /\ whole' = FALSE
  /\ targets' = {}
  /\ UNCHANGED removals

CountRemoval == removals < MaxRemovals /\ removals' = removals + 1

\* db remove clusters, db remove kpis --cluster-name [--name]: listClusters
\* finds the cluster.
BeginRemoval(n, kpis, all) ==
  /\ remover = "idle" /\ clusters[n] # 0
  /\ CountRemoval
  /\ remover' = "list"
  /\ victim' = clusters[n]
  /\ scope' = kpis
  /\ whole' = all
  /\ UNCHANGED <<dbVars, callVars, targets, histVars>>

RegisteredUnder(category) == {k \in Kpis : registry[k] = category}

\* allCategoryTables: the default table and every table of the registry
ListTables ==
  /\ remover = "list"
  /\ remover' = "delete"
  /\ targets' = {Uncategorized} \cup {cat \in Categories : RegisteredUnder(cat) # {}}
  /\ UNCHANGED <<dbVars, callVars, victim, scope, whole, removals, histVars>>

\* One turn of the loop of deleteClusterMetrics; the tables' order is left open.
DeleteFrom(t) ==
  /\ remover = "delete" /\ t \in targets
  /\ rows' = {r \in rows : ~(r.table = t /\ r.cluster = victim /\ r.kpi \in scope)}
  /\ IF targets # {t}
     THEN targets' = targets \ {t} /\ UNCHANGED <<remover, victim, scope, whole, removals>>
     ELSE IF whole
     THEN /\ remover' = "drop" /\ targets' = {}
          /\ UNCHANGED <<victim, scope, whole, removals>>
     ELSE RemoverRests
  /\ UNCHANGED <<backend, clusters, lastId, tables, registry, errored, callVars, histVars>>

\* runRemoveClusters: DELETE FROM clusters, which a foreign key may refuse
DropCluster ==
  /\ remover = "drop"
  /\ backend = "sqlite" \/ \A r \in rows : r.cluster # victim
  /\ clusters' = [n \in Names |-> IF clusters[n] = victim THEN 0 ELSE clusters[n]]
  /\ removed' = removed \cup {victim}
  /\ RemoverRests
  /\ UNCHANGED <<backend, lastId, tables, registry, rows, errored, callVars, unlisted>>

\* db remove kpis --category: validateCategory, then the rows
DeleteCategoryRows(category) ==
  /\ remover = "idle" /\ RegisteredUnder(category) # {}
  /\ CountRemoval
  /\ rows' = {r \in rows : r.table # category}
  /\ remover' = "registry"
  /\ targets' = {category}
  /\ UNCHANGED <<backend, clusters, lastId, tables, registry, errored, callVars, victim,
                 scope, whole, histVars>>

\* and then, in a statement of its own, the registry
DeleteCategoryRegistry ==
  LET gone == {k \in Kpis : registry[k] \in targets} IN
  /\ remover = "registry"
  /\ registry' = [k \in Kpis |-> IF k \in gone THEN Uncategorized ELSE registry[k]]
  /\ unlisted' = unlisted \cup gone
  /\ RemoverRests
  /\ UNCHANGED <<backend, clusters, lastId, tables, rows, errored, callVars, removed>>

\* db remove errors --name, --all
RemoveErrors(kpis) ==
  /\ remover = "idle" /\ errored \cap kpis # {}
  /\ CountRemoval
  /\ errored' = errored \ kpis
  /\ UNCHANGED <<backend, clusters, lastId, tables, registry, rows, callVars, remover,
                 victim, scope, whole, targets, histVars>>

\* A statement of the removal fails, or the command is interrupted: what it has
\* done so far stays.
RemovalFails ==
  /\ remover # "idle"
  /\ RemoverRests
  /\ UNCHANGED <<dbVars, callVars, histVars>>

\* Nobody uses the database.
Rest ==
  /\ \A c \in Collectors : pc[c] = "idle"
  /\ remover = "idle"
  /\ UNCHANGED vars

-----------------------------------------------------------------------------
ClusterStep(c) == InsertCluster(c) \/ RetryCluster(c)

QueryStep(c) ==
  \E k \in Kpis : PromFails(c, k) \/ EmptyResult(c, k) \/ GotResult(c, k)

StoreStep(c) == CreateTable(c) \/ Register(c) \/ StoreRows(c)

\* A KPI, or all of them
Scopes == {Kpis} \cup {{k} : k \in Kpis}

RemoverStep ==
  \/ \E n \in Names, kpis \in Scopes : BeginRemoval(n, kpis, FALSE)
  \/ \E n \in Names : BeginRemoval(n, Kpis, TRUE)
  \/ ListTables
  \/ \E t \in Tables : DeleteFrom(t)
  \/ DropCluster
  \/ \E category \in Categories : DeleteCategoryRows(category)
  \/ DeleteCategoryRegistry
  \/ \E kpis \in Scopes : RemoveErrors(kpis)
  \/ RemovalFails

Next ==
  \/ \E c \in Collectors, j \in Jobs : BeginRunQueries(c, j)
  \/ \E c \in Collectors : ClusterStep(c)
  \/ \E c \in Collectors : ValidateCategories(c)
  \/ \E c \in Collectors : QueryStep(c)
  \/ \E c \in Collectors : StoreStep(c)
  \/ \E c \in Collectors : StatementFails(c)
  \/ \E c \in Collectors : RunQueriesReturns(c)
  \/ \E c \in Collectors : ProcessEnds(c)
  \/ RemoverStep
  \/ Rest

Spec == Init /\ [][Next]_vars

\* The database as its readers see it: all the points of a KPI and a cluster in
\* a table are one.
Store == INSTANCE KpiStore WITH
  Points <- {1},
  rows <- {[table |-> r.table, kpi |-> r.kpi, cluster |-> r.cluster, point |-> 1] : r \in rows}

-----------------------------------------------------------------------------
(***************************************************************************)
(* Properties                                                              *)
(***************************************************************************)

\* db show never meets a registered table that does not exist, and no collector
\* inserts into one, whatever failed before and whoever removed what.
TablesExist ==
  /\ \A k \in Kpis : registry[k] \in tables
  /\ \A c \in Collectors : pc[c] = "store" => Target(c) \in tables

\* KPIs to which every KPI file that has them gives the same category
Steady == {k \in Kpis : \A i, j \in Jobs :
             k \in DOMAIN i \cap DOMAIN j => i[k] = j[k]}

\* db show kpis --name looks for a KPI in the table the registry names.  It
\* finds every row of a steady KPI there, unless db remove kpis --category took
\* the KPI out of the registry and it was not stored again since.
SteadyFoundByName ==
  \A r \in rows : r.kpi \in Steady => registry[r.kpi] = r.table \/ r.kpi \in unlisted

\* However collectors with different KPI files race, a registered KPI keeps its
\* category until db remove kpis --category takes it out.
CategoryIsKept ==
  [][\A k \in Kpis : registry[k] # Uncategorized =>
       registry'[k] = registry[k] \/ (registry'[k] = Uncategorized /\ remover = "registry")]_vars

\* Collectors that started together for the same new cluster store their rows
\* under one id, unless that cluster was removed in between.
OneIdPerCluster ==
  \A c, d \in Collectors :
    /\ clusterId[c] \notin {0} \cup removed
    /\ clusterId[d] \notin {0} \cup removed
    /\ NameOf[c] = NameOf[d]
    => clusterId[c] = clusterId[d]

\* However the statements of collectors and of db remove interleave and fail, a
\* reader sees only what KpiStore allows: rows and registry entries in tables
\* that exist, rows under ids that were handed out and are never handed out
\* again, KPIs that move to another category only by way of the registry's
\* removal.
ImplementsStore == Store!StoreSpec

\* The documentation on db remove clusters: all metrics of the cluster go.
RemovedClusterLeavesNothing == \A r \in rows : r.cluster \notin removed

==============================================================================
