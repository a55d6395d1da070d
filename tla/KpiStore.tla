------------------------------ MODULE KpiStore ------------------------------
(***************************************************************************)
(* What a reader of the metrics database may rely on, whoever writes to it *)
(* and in whatever order: the abstract specification that MetricStore      *)
(* implements and that DbShow reads.  Each action is what one SQL          *)
(* statement does to the contents.                                         *)
(***************************************************************************)
EXTENDS Integers

CONSTANTS
  Kpis,
  Categories,
  Uncategorized,     \* the empty category, whose table is query_results
  Names,             \* cluster names
  Points,            \* what tells the rows of a KPI and a cluster apart
  MaxClusters        \* bound: cluster ids handed out

ASSUME KpiStoreAssumption == MaxClusters \in Nat

Ids == 1 .. MaxClusters
Tables == Categories \cup {Uncategorized}
Rows == [table : Tables, kpi : Kpis, cluster : Ids, point : Points]

VARIABLES
  clusters,          \* the id of each name, 0 when it has none
  lastId,            \* the last id handed out
  tables,            \* the tables that exist
  registry,          \* the category of each KPI registered
  rows,              \* rows stored
  errored            \* the KPIs with a count in query_errors

storeVars == <<clusters, lastId, tables, registry, rows, errored>>

StoreTypeOK ==
  /\ clusters \in [Names -> {0} \cup Ids]
  /\ lastId \in 0 .. MaxClusters
  /\ tables \in SUBSET Tables
  /\ registry \in [Kpis -> Tables]
  /\ rows \in SUBSET Rows
  /\ errored \in SUBSET Kpis

\* A database as InitDB leaves it
StoreInit ==
  /\ clusters = [n \in Names |-> 0]
  /\ lastId = 0
  /\ tables = {Uncategorized}
  /\ registry = [k \in Kpis |-> Uncategorized]
  /\ rows = {}
  /\ errored = {}

-----------------------------------------------------------------------------
\* A cluster is inserted; an id is never handed out twice.
AddCluster(n) ==
  /\ clusters[n] = 0 /\ lastId < MaxClusters
  /\ lastId' = lastId + 1
  /\ clusters' = [clusters EXCEPT ![n] = lastId']
  /\ UNCHANGED <<tables, registry, rows, errored>>

AddTable(t) ==
  /\ tables' = tables \cup {t}
  /\ UNCHANGED <<clusters, lastId, registry, rows, errored>>

\* A KPI is registered under a category whose table exists, once.
AddToRegistry(k, t) ==
  /\ registry[k] = Uncategorized /\ t \in tables
  /\ registry' = [registry EXCEPT ![k] = t]
  /\ UNCHANGED <<clusters, lastId, tables, rows, errored>>

\* Points of a KPI are stored, all or none, under an id that was handed out; its
\* cluster may be gone by now, and the registry may name another table.
AddRows(t, k, id, points) ==
  /\ t \in tables /\ id <= lastId
  /\ rows' = rows \cup {[table |-> t, kpi |-> k, cluster |-> id, point |-> p] : p \in points}
  /\ UNCHANGED <<clusters, lastId, tables, registry, errored>>

RemoveRows(t, kpis, ids) ==
  /\ rows' = {r \in rows : ~(r.table = t /\ r.kpi \in kpis /\ r.cluster \in ids)}
  /\ UNCHANGED <<clusters, lastId, tables, registry, errored>>

\* A cluster goes, whether or not rows still refer to it.
RemoveCluster(id) ==
  /\ clusters' = [n \in Names |-> IF clusters[n] = id THEN 0 ELSE clusters[n]]
  /\ UNCHANGED <<lastId, tables, registry, rows, errored>>

\* A category goes from the registry; its table stays.
RemoveFromRegistry(t) ==
  /\ registry' = [k \in Kpis |-> IF registry[k] = t THEN Uncategorized ELSE registry[k]]
  /\ UNCHANGED <<clusters, lastId, tables, rows, errored>>

AddError(k) ==
  /\ errored' = errored \cup {k}
  /\ UNCHANGED <<clusters, lastId, tables, registry, rows>>

RemoveErrors(kpis) ==
  /\ errored' = errored \ kpis
  /\ UNCHANGED <<clusters, lastId, tables, registry, rows>>

-----------------------------------------------------------------------------
KpiChoices == {Kpis} \cup {{k} : k \in Kpis}

\* The steps of a writer, storing sets of points out of some choices
Write(pointChoices) ==
  \/ \E n \in Names : AddCluster(n)
  \/ \E t \in Categories : AddTable(t)
  \/ \E k \in Kpis, t \in Categories : AddToRegistry(k, t)
  \/ \E t \in Tables, k \in Kpis, id \in Ids, points \in pointChoices : AddRows(t, k, id, points)
  \/ \E k \in Kpis : AddError(k)

\* The steps of db remove
Remove ==
  \/ \E t \in Tables, kpis \in KpiChoices, id \in Ids : RemoveRows(t, kpis, {id})
  \/ \E t \in Categories : RemoveRows(t, Kpis, Ids)
  \/ \E id \in Ids : RemoveCluster(id)
  \/ \E t \in Categories : RemoveFromRegistry(t)
  \/ \E kpis \in KpiChoices : RemoveErrors(kpis)

StoreNext == Write(SUBSET Points) \/ Remove

StoreSpec == StoreInit /\ [][StoreNext]_storeVars
=============================================================================
