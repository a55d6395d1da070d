-------------------------- MODULE MetricStoreProofs --------------------------
(***************************************************************************)
(* Proofs about MetricStore, for every set of collectors, KPIs, categories *)
(* and KPI files, on either database.                                      *)
(***************************************************************************)
EXTENDS MetricStore, TLAPS

\* A collector that stores does so for a KPI of its file, under the cluster id it
\* was given; the table it may have to create is never the default one.
CallOK ==
  \A c \in Collectors :
    /\ todo[c] \subseteq DOMAIN job[c]
    /\ todo[c] # {} => job[c] \in Jobs
    /\ pc[c] \in Storing => job[c] \in Jobs /\ kpi[c] \in DOMAIN job[c]
    /\ pc[c] \in {"ensure", "register"} => Target(c) \in Categories
    /\ pc[c] \in Storing \cup {"validate", "query"} => clusterId[c] # 0

\* A removal knows what it removes: a cluster and some KPIs, or a category.
RemoverOK ==
  /\ remover \in {"list", "delete", "drop"} => victim \in Ids /\ scope \in Scopes
  /\ remover = "registry" => \E t \in Categories : targets = {t}

Typed == TypeOK /\ CallOK /\ RemoverOK

LEMMA JobsGiveTables ==
  ASSUME NEW j \in Jobs, NEW k \in DOMAIN j
  PROVE  k \in Kpis /\ j[k] \in Tables
BY StoreAssumption DEF Tables

LEMMA TypedInit == Init => Typed
<1> SUFFICES ASSUME Init
             PROVE  Typed
  OBVIOUS
<1>1. /\ clusters \in [Names -> {0} \cup Ids] /\ clusterId \in [Collectors -> {0} \cup Ids]
      /\ registry \in [Kpis -> Categories \cup {Uncategorized}]
  BY DEF Init
<1>2. /\ pc = [c \in Collectors |-> "idle"] /\ todo \in [Collectors -> SUBSET Kpis]
      /\ job \in [Collectors -> Jobs \cup {<<>>}]
      /\ kpi \in [Collectors -> Kpis \cup {NoKpi}]
      /\ known \in [Collectors -> SUBSET Categories]
  BY Zenon DEF Init
<1>3. TypeOK
  <2>1. 0 \in 0 .. MaxClusters /\ 0 \in 0 .. MaxCalls /\ 0 \in 0 .. MaxRemovals
    BY StoreAssumption
  <2>2. /\ backend \in {"sqlite", "postgres"} /\ lastId \in 0 .. MaxClusters
        /\ tables \in SUBSET Tables /\ rows \in SUBSET Rows /\ errored \in SUBSET Kpis
        /\ remover = "idle" /\ victim = 0 /\ scope \in SUBSET Kpis /\ whole \in BOOLEAN
        /\ targets \in SUBSET Tables /\ calls \in 0 .. MaxCalls
        /\ removals \in 0 .. MaxRemovals /\ unlisted \in SUBSET Kpis
        /\ removed \in SUBSET Ids
    BY <2>1, StoreAssumption DEF Init, Tables
  <2>3. pc \in [Collectors -> {"idle", "insert", "retry", "validate", "query",
                              "ensure", "register", "store"}]
    BY <1>2
  <2>4. QED
    BY <1>1, <1>2, <2>2, <2>3, Zenon DEF TypeOK
<1>4. CallOK /\ RemoverOK
  BY DEF Init, CallOK, RemoverOK, Storing
<1>5. QED
  BY <1>3, <1>4 DEF Typed

LEMMA TypedStep ==
  ASSUME Typed, [Next]_vars
  PROVE  Typed'
<1> USE StoreAssumption
    DEF Typed, TypeOK, CallOK, RemoverOK, Storing, Setup, Target, dbVars, callVars, removerVars, histVars
<1>1. ASSUME NEW c \in Collectors, NEW j \in Jobs, BeginRunQueries(c, j)
      PROVE  Typed'
  BY <1>1 DEF BeginRunQueries
<1>2. ASSUME NEW c \in Collectors, InsertCluster(c)
      PROVE  Typed'
  <2>1. CASE clusters[NameOf[c]] = 0
    <3>1. lastId' \in Ids /\ lastId' # 0 /\ lastId' \in 0 .. MaxClusters
      BY <1>2, <2>1 DEF InsertCluster, Ids
    <3>2. /\ clusters' = [clusters EXCEPT ![NameOf[c]] = lastId']
          /\ pc' = [pc EXCEPT ![c] = "validate"]
          /\ clusterId' = [clusterId EXCEPT ![c] = lastId']
          /\ UNCHANGED <<backend, tables, registry, rows, errored, job, todo, kpi, known,
                         calls, removerVars, histVars>>
      BY <1>2, <2>1 DEF InsertCluster, GotCluster
    <3>3. QED
      BY <3>1, <3>2
  <2>2. CASE clusters[NameOf[c]] # 0
    <3>1. clusters[NameOf[c]] \in Ids
      BY <2>2
    <3>2. UNCHANGED <<dbVars, job, todo, kpi, known, calls, removerVars, histVars>>
      BY <1>2, <2>2 DEF InsertCluster, GotCluster, Goto
    <3>3. CASE backend = "postgres"
      BY <1>2, <2>2, <3>1, <3>2, <3>3 DEF InsertCluster, GotCluster
    <3>4. CASE backend # "postgres"
      BY <1>2, <2>2, <3>1, <3>2, <3>4 DEF InsertCluster, Goto
    <3>5. QED
      BY <3>3, <3>4
  <2>3. QED
    BY <2>1, <2>2
<1>3. ASSUME NEW c \in Collectors, RetryCluster(c)
      PROVE  Typed'
  BY <1>3 DEF RetryCluster, GotCluster, CallIsOver
<1>4. ASSUME NEW c \in Collectors, ValidateCategories(c)
      PROVE  Typed'
  BY <1>4 DEF ValidateCategories, Goto, CallIsOver
<1>5. ASSUME NEW c \in Collectors, NEW k \in Kpis, PromFails(c, k) \/ EmptyResult(c, k)
      PROVE  Typed'
  BY <1>5 DEF PromFails, EmptyResult
<1>6. ASSUME NEW c \in Collectors, NEW k \in Kpis, GotResult(c, k)
      PROVE  Typed'
  BY <1>6, JobsGiveTables DEF GotResult, Tables
<1>7. ASSUME NEW c \in Collectors, CreateTable(c)
      PROVE  Typed'
  BY <1>7 DEF CreateTable, Tables
<1>8. ASSUME NEW c \in Collectors, Register(c)
      PROVE  Typed'
  BY <1>8 DEF Register, Goto
<1>9. ASSUME NEW c \in Collectors, StoreRows(c)
      PROVE  Typed'
  BY <1>9, JobsGiveTables DEF StoreRows, QueryIsOver, Rows
<1>10. ASSUME NEW c \in Collectors, StatementFails(c)
       PROVE  Typed'
  BY <1>10 DEF StatementFails, CallIsOver, QueryIsOver
<1>11. ASSUME NEW c \in Collectors, RunQueriesReturns(c) \/ ProcessEnds(c)
       PROVE  Typed'
  BY <1>11 DEF RunQueriesReturns, ProcessEnds, CallIsOver
<1>12. ASSUME NEW n \in Names, NEW kpis \in Scopes, NEW all \in BOOLEAN,
              BeginRemoval(n, kpis, all)
       PROVE  Typed'
  BY <1>12 DEF BeginRemoval, CountRemoval, Scopes
<1>13. CASE ListTables
  BY <1>13 DEF ListTables, Tables
<1>14. ASSUME NEW t \in Tables, DeleteFrom(t)
       PROVE  Typed'
  BY <1>14 DEF DeleteFrom, RemoverRests
<1>15. CASE DropCluster
  BY <1>15 DEF DropCluster, RemoverRests
<1>16. ASSUME NEW category \in Categories, DeleteCategoryRows(category)
       PROVE  Typed'
  BY <1>16 DEF DeleteCategoryRows, CountRemoval, Tables
<1>17. CASE DeleteCategoryRegistry
  BY <1>17 DEF DeleteCategoryRegistry, RemoverRests
<1>18. ASSUME NEW kpis \in Scopes, RemoveErrors(kpis)
       PROVE  Typed'
  BY <1>18 DEF RemoveErrors, CountRemoval, Scopes
<1>19. CASE RemovalFails
  BY <1>19 DEF RemovalFails, RemoverRests
<1>20. CASE Rest \/ UNCHANGED vars
  BY <1>20 DEF Rest, vars
<1>21. QED
  BY <1>1, <1>2, <1>3, <1>4, <1>5, <1>6, <1>7, <1>8, <1>9, <1>10, <1>11, <1>12, <1>13,
     <1>14, <1>15, <1>16, <1>17, <1>18, <1>19, <1>20
     DEF Next, ClusterStep, QueryStep, StoreStep, RemoverStep, Scopes

THEOREM TypedAlways == Spec => []Typed
BY TypedInit, TypedStep, PTL DEF Spec

\* Type correctness of the database and of its users.
THEOREM TypeCorrect == Spec => []TypeOK
<1>1. Typed => TypeOK
  BY DEF Typed
<1>2. QED
  BY <1>1, TypedAlways, PTL

-----------------------------------------------------------------------------
\* Tables are never dropped: what a collector knows to exist does, and so does
\* the table of every registration it has made or is about to make.
TablesOK ==
  /\ Uncategorized \in tables
  /\ \A c \in Collectors : known[c] \subseteq tables
  /\ \A c \in Collectors : pc[c] = "register" => Target(c) \in tables
  /\ TablesExist

LEMMA TablesInit == Init => TablesOK
BY DEF Init, TablesOK, TablesExist

LEMMA TablesStep ==
  ASSUME Typed, TablesOK, [Next]_vars
  PROVE  TablesOK'
<1> USE DEF Typed, TypeOK, TablesOK, TablesExist, Target, dbVars, callVars, removerVars, histVars
<1>1. ASSUME NEW c \in Collectors, NEW j \in Jobs, BeginRunQueries(c, j)
      PROVE  TablesOK'
  BY <1>1 DEF BeginRunQueries
<1>2. ASSUME NEW c \in Collectors, InsertCluster(c)
      PROVE  TablesOK'
  BY <1>2 DEF InsertCluster, GotCluster, Goto
<1>3. ASSUME NEW c \in Collectors, RetryCluster(c)
      PROVE  TablesOK'
  BY <1>3 DEF RetryCluster, GotCluster, CallIsOver
<1>4. ASSUME NEW c \in Collectors, ValidateCategories(c)
      PROVE  TablesOK'
  BY <1>4 DEF ValidateCategories, Goto, CallIsOver
<1>5. ASSUME NEW c \in Collectors, NEW k \in Kpis, PromFails(c, k) \/ EmptyResult(c, k)
      PROVE  TablesOK'
  BY <1>5 DEF PromFails, EmptyResult
<1>6. ASSUME NEW c \in Collectors, NEW k \in Kpis, GotResult(c, k)
      PROVE  TablesOK'
  BY <1>6 DEF GotResult
<1>7. ASSUME NEW c \in Collectors, CreateTable(c)
      PROVE  TablesOK'
  BY <1>7 DEF CreateTable
<1>8. ASSUME NEW c \in Collectors, Register(c)
      PROVE  TablesOK'
  BY <1>8 DEF Register, Goto, CallOK, Storing
<1>9. ASSUME NEW c \in Collectors, StoreRows(c)
      PROVE  TablesOK'
  BY <1>9 DEF StoreRows, QueryIsOver
<1>10. ASSUME NEW c \in Collectors, StatementFails(c)
       PROVE  TablesOK'
  BY <1>10 DEF StatementFails, CallIsOver, QueryIsOver
<1>11. ASSUME NEW c \in Collectors, RunQueriesReturns(c) \/ ProcessEnds(c)
       PROVE  TablesOK'
  BY <1>11 DEF RunQueriesReturns, ProcessEnds, CallIsOver
<1>12. CASE DeleteCategoryRegistry
  BY <1>12 DEF DeleteCategoryRegistry
<1>13. CASE UNCHANGED <<tables, registry, callVars>>
  BY <1>13
<1>14. CASE RemoverStep
  BY <1>12, <1>13, <1>14
     DEF RemoverStep, BeginRemoval, ListTables, DeleteFrom, DropCluster, DeleteCategoryRows,
         RemoveErrors, RemovalFails
<1>15. CASE Rest \/ UNCHANGED vars
  BY <1>13, <1>15 DEF Rest, vars
<1>16. QED
  BY <1>1, <1>2, <1>3, <1>4, <1>5, <1>6, <1>7, <1>8, <1>9, <1>10, <1>11, <1>14, <1>15
     DEF Next, ClusterStep, QueryStep, StoreStep

\* db show never meets a registered table that does not exist, and no collector
\* inserts into one.
THEOREM TablesAlwaysExist == Spec => []TablesExist
<1>1. TablesOK => TablesExist
  BY DEF TablesOK
<1>2. QED
  BY <1>1, TablesInit, TablesStep, TypedAlways, PTL DEF Spec

-----------------------------------------------------------------------------
\* Ids are handed out once: all those about are at most the last, and a call
\* whose cluster was not removed has the id its name still has.
IdsOK ==
  /\ \A n \in Names : clusters[n] <= lastId
  /\ \A c \in Collectors : clusterId[c] <= lastId
  /\ victim <= lastId
  /\ \A c \in Collectors :
       clusterId[c] \notin {0} \cup removed => clusters[NameOf[c]] = clusterId[c]

LEMMA IdsInit == Init => IdsOK
BY StoreAssumption DEF Init, IdsOK

LEMMA IdsStep ==
  ASSUME Typed, IdsOK, [Next]_vars
  PROVE  IdsOK'
<1> USE StoreAssumption
    DEF Typed, TypeOK, IdsOK, Ids, dbVars, callVars, removerVars, histVars
<1>1. CASE UNCHANGED <<clusters, lastId, clusterId, victim, removed>>
  BY <1>1
<1>2. ASSUME NEW c \in Collectors, NEW j \in Jobs, BeginRunQueries(c, j)
      PROVE  IdsOK'
  BY <1>2 DEF BeginRunQueries
<1>3. ASSUME NEW c \in Collectors, InsertCluster(c)
      PROVE  IdsOK'
  <2>1. CASE clusters[NameOf[c]] = 0
    BY <1>3, <2>1 DEF InsertCluster, GotCluster
  <2>2. CASE clusters[NameOf[c]] # 0
    BY <1>3, <2>2 DEF InsertCluster, GotCluster, Goto
  <2>3. QED
    BY <2>1, <2>2
<1>4. ASSUME NEW c \in Collectors, RetryCluster(c)
      PROVE  IdsOK'
  BY <1>4 DEF RetryCluster, GotCluster, CallIsOver
<1>5. ASSUME NEW c \in Collectors, CallIsOver(c), UNCHANGED <<dbVars, removerVars, histVars>>
      PROVE  IdsOK'
  BY <1>5 DEF CallIsOver
<1>6. ASSUME NEW c \in Collectors,
             ValidateCategories(c) \/ StatementFails(c) \/ RunQueriesReturns(c) \/ ProcessEnds(c)
      PROVE  IdsOK'
  BY <1>1, <1>5, <1>6
     DEF ValidateCategories, StatementFails, RunQueriesReturns, ProcessEnds, Goto, QueryIsOver
<1>7. ASSUME NEW c \in Collectors, QueryStep(c) \/ StoreStep(c)
      PROVE  IdsOK'
  BY <1>1, <1>7
     DEF QueryStep, StoreStep, PromFails, EmptyResult, GotResult, CreateTable, Register,
         StoreRows, Goto, QueryIsOver
<1>8. ASSUME NEW n \in Names, NEW kpis \in Scopes, NEW all \in BOOLEAN,
             BeginRemoval(n, kpis, all)
      PROVE  IdsOK'
  BY <1>8 DEF BeginRemoval
<1>9. CASE DropCluster
  BY <1>9 DEF DropCluster, RemoverRests
<1>10. CASE RemovalFails \/ DeleteCategoryRegistry
  BY <1>10 DEF RemovalFails, DeleteCategoryRegistry, RemoverRests
<1>11. ASSUME NEW t \in Tables, DeleteFrom(t)
       PROVE  IdsOK'
  BY <1>11 DEF DeleteFrom, RemoverRests
<1>12. CASE RemoverStep
  BY <1>1, <1>8, <1>9, <1>10, <1>11, <1>12
     DEF RemoverStep, ListTables, DeleteCategoryRows, RemoveErrors, Scopes
<1>13. CASE Rest \/ UNCHANGED vars
  BY <1>1, <1>13 DEF Rest, vars
<1>14. QED
  BY <1>2, <1>3, <1>4, <1>6, <1>7, <1>12, <1>13 DEF Next, ClusterStep

THEOREM IdsAlwaysOK == Spec => []IdsOK
BY IdsInit, IdsStep, TypedAlways, PTL DEF Spec

\* Collectors that race for a new cluster agree on its id.
THEOREM ClustersHaveOneId == Spec => []OneIdPerCluster
<1>1. IdsOK => OneIdPerCluster
  BY DEF IdsOK, OneIdPerCluster
<1>2. QED
  BY <1>1, IdsAlwaysOK, PTL

-----------------------------------------------------------------------------
\* Only a registration and the second statement of a removal touch the registry.
LEMMA RegistrySteps ==
  ASSUME [Next]_vars
  PROVE  \/ UNCHANGED <<registry, unlisted>>
         \/ \E c \in Collectors : Register(c)
         \/ DeleteCategoryRegistry
<1> USE DEF dbVars, histVars, removerVars, callVars
<1>1. ASSUME NEW c \in Collectors, ClusterStep(c) \/ ValidateCategories(c) \/ QueryStep(c)
      PROVE  UNCHANGED <<registry, unlisted>>
  BY <1>1 DEF ClusterStep, InsertCluster, RetryCluster, ValidateCategories, QueryStep,
              PromFails, EmptyResult, GotResult
<1>2. ASSUME NEW c \in Collectors, CreateTable(c) \/ StoreRows(c) \/ StatementFails(c)
      PROVE  UNCHANGED <<registry, unlisted>>
  BY <1>2 DEF CreateTable, StoreRows, StatementFails
<1>3. ASSUME NEW c \in Collectors, RunQueriesReturns(c) \/ ProcessEnds(c)
      PROVE  UNCHANGED <<registry, unlisted>>
  BY <1>3 DEF RunQueriesReturns, ProcessEnds
<1>4. CASE RemoverStep
  BY <1>4 DEF RemoverStep, BeginRemoval, ListTables, DeleteFrom, DropCluster,
              DeleteCategoryRows, RemoveErrors, RemovalFails
<1>5. QED
  BY <1>1, <1>2, <1>3, <1>4 DEF Next, StoreStep, BeginRunQueries, Rest, vars

\* A registered KPI keeps its category, whoever races to register it.
THEOREM CategoryAlwaysKept == Spec => CategoryIsKept
<1>1. ASSUME Typed, [Next]_vars
      PROVE  [\A k \in Kpis : registry[k] # Uncategorized =>
                registry'[k] = registry[k] \/ (registry'[k] = Uncategorized /\ remover = "registry")]_vars
  <2> SUFFICES ASSUME NEW k \in Kpis, registry[k] # Uncategorized
               PROVE  registry'[k] = registry[k] \/ (registry'[k] = Uncategorized /\ remover = "registry")
    OBVIOUS
  <2>1. ASSUME NEW c \in Collectors, Register(c)
        PROVE  registry'[k] = registry[k]
    BY <1>1, <2>1 DEF Typed, TypeOK, Register
  <2>2. CASE DeleteCategoryRegistry
    BY <1>1, <2>2 DEF DeleteCategoryRegistry
  <2>3. QED
    BY <1>1, <2>1, <2>2, RegistrySteps
<1>2. QED
  BY <1>1, TypedAlways, PTL DEF Spec, CategoryIsKept

-----------------------------------------------------------------------------
\* A steady KPI has one category in all files: its rows are in that table, the
\* registry names no other one, and a collector stores only after the
\* registration, unless a removal undid it since.
SteadyOK ==
  /\ \A k \in Steady, j \in Jobs : k \in DOMAIN j => registry[k] \in {Uncategorized, j[k]}
  /\ \A r \in rows, j \in Jobs : r.kpi \in Steady \cap DOMAIN j => r.table = j[r.kpi]
  /\ \A c \in Collectors :
       pc[c] = "store" /\ kpi[c] \in Steady =>
         registry[kpi[c]] = Target(c) \/ kpi[c] \in unlisted
  /\ SteadyFoundByName

LEMMA SteadyInit == Init => SteadyOK
BY DEF Init, SteadyOK, SteadyFoundByName, Steady

LEMMA SteadyStep ==
  ASSUME Typed, SteadyOK, [Next]_vars
  PROVE  SteadyOK'
<1> USE DEF Typed, TypeOK, SteadyOK, SteadyFoundByName, Target,
            dbVars, callVars, removerVars, histVars
<1>1. ASSUME UNCHANGED <<registry, unlisted>>, rows' \subseteq rows,
             \A c \in Collectors : pc'[c] = "store" =>
               /\ pc[c] = "store"
               /\ kpi'[c] = kpi[c] /\ job'[c] = job[c]
      PROVE  SteadyOK'
  BY <1>1
<1>2. ASSUME NEW c \in Collectors, NEW k \in Kpis, GotResult(c, k)
      PROVE  SteadyOK'
  <2>1. job[c] \in Jobs /\ k \in DOMAIN job[c]
    BY <1>2 DEF GotResult, CallOK
  <2>2. k \in Steady /\ job[c][k] = Uncategorized => registry[k] = Uncategorized
    BY <2>1
  <2>3. QED
    BY <1>2, <2>1, <2>2 DEF GotResult
<1>3. ASSUME NEW c \in Collectors, Register(c)
      PROVE  SteadyOK'
  <2>1. job[c] \in Jobs /\ kpi[c] \in DOMAIN job[c] /\ kpi[c] \in Kpis
    BY <1>3, StoreAssumption DEF Register, CallOK, Storing
  <2>2. \A d \in Collectors : job[d] \in Jobs /\ kpi[d] = kpi[c] /\ kpi[d] \in DOMAIN job[d]
          /\ kpi[c] \in Steady => Target(d) = Target(c)
    BY <2>1 DEF Steady
  <2>3. kpi[c] \in Steady => registry'[kpi[c]] = Target(c)
    BY <1>3, <2>1 DEF Register
  <2>4. \A j \in Jobs : kpi[c] \in Steady \cap DOMAIN j => j[kpi[c]] = Target(c)
    BY <2>1 DEF Steady
  <2>5. \A k \in Kpis : k # kpi[c] =>
          registry'[k] = registry[k] /\ (k \in unlisted' <=> k \in unlisted)
    BY <1>3 DEF Register
  <2>6. /\ UNCHANGED <<rows, kpi, job>>
        /\ \A d \in Collectors : pc'[d] = "store" => d = c \/ pc[d] = "store"
    BY <1>3 DEF Register, Goto
  <2>7. \A d \in Collectors : pc'[d] = "store" => job[d] \in Jobs /\ kpi[d] \in DOMAIN job[d]
                                                /\ kpi[d] \in Kpis
    BY <2>1, <2>6, StoreAssumption DEF CallOK, Storing
  <2>8. \A k \in Steady, j \in Jobs : k \in DOMAIN j => registry'[k] \in {Uncategorized, j[k]}
    BY <2>3, <2>4, <2>5 DEF Steady
  <2>9. \A d \in Collectors : pc'[d] = "store" /\ kpi[d] \in Steady =>
          registry'[kpi[d]] = Target(d) \/ kpi[d] \in unlisted'
    BY <2>2, <2>3, <2>5, <2>6, <2>7
  <2>10. \A r \in rows : r.kpi \in Steady => registry'[r.kpi] = r.table \/ r.kpi \in unlisted'
    BY <2>1, <2>3, <2>5 DEF Rows
  <2>11. QED
    BY <2>6, <2>8, <2>9, <2>10
<1>4. ASSUME NEW c \in Collectors, StoreRows(c)
      PROVE  SteadyOK'
  <2>1. job[c] \in Jobs /\ kpi[c] \in DOMAIN job[c]
    BY <1>4 DEF StoreRows, CallOK, Storing
  <2>2. \A j \in Jobs : kpi[c] \in Steady \cap DOMAIN j => j[kpi[c]] = Target(c)
    BY <2>1 DEF Steady
  <2>3. rows' = rows \cup {[table |-> Target(c), kpi |-> kpi[c], cluster |-> clusterId[c]]}
    BY <1>4 DEF StoreRows
  <2>4. UNCHANGED <<registry, unlisted, job>>
    BY <1>4 DEF StoreRows, QueryIsOver
  <2>5. \A d \in Collectors : pc'[d] = "store" => pc[d] = "store" /\ kpi'[d] = kpi[d]
    BY <1>4 DEF StoreRows, QueryIsOver
  <2>6. kpi[c] \in Steady => registry[kpi[c]] = Target(c) \/ kpi[c] \in unlisted
    BY <1>4 DEF StoreRows
  <2>7. QED
    BY <2>2, <2>3, <2>4, <2>5, <2>6
<1>5. CASE DeleteCategoryRegistry
  <2>1. UNCHANGED <<rows, pc, kpi, job>>
    BY <1>5 DEF DeleteCategoryRegistry
  <2>2. \A k \in Kpis : \/ registry'[k] = Uncategorized /\ k \in unlisted'
                        \/ registry'[k] = registry[k] /\ (k \in unlisted' <=> k \in unlisted)
    BY <1>5 DEF DeleteCategoryRegistry
  <2>3. \A c \in Collectors : pc[c] = "store" => kpi[c] \in Kpis
    BY StoreAssumption DEF CallOK, Storing
  <2>4. \A k \in Steady : k \in Kpis
    BY DEF Steady
  <2>5. QED
    BY <2>1, <2>2, <2>3, <2>4
<1>6. ASSUME NEW c \in Collectors, NEW j \in Jobs, BeginRunQueries(c, j)
      PROVE  SteadyOK'
  BY <1>1, <1>6 DEF BeginRunQueries
<1>7. ASSUME NEW c \in Collectors, ClusterStep(c)
      PROVE  SteadyOK'
  BY <1>1, <1>7 DEF ClusterStep, InsertCluster, RetryCluster, GotCluster, Goto, CallIsOver
<1>8. ASSUME NEW c \in Collectors, ValidateCategories(c)
      PROVE  SteadyOK'
  BY <1>1, <1>8 DEF ValidateCategories, Goto, CallIsOver
<1>9. ASSUME NEW c \in Collectors, NEW k \in Kpis, PromFails(c, k) \/ EmptyResult(c, k)
      PROVE  SteadyOK'
  BY <1>1, <1>9 DEF PromFails, EmptyResult
<1>10. ASSUME NEW c \in Collectors, CreateTable(c)
       PROVE  SteadyOK'
  BY <1>1, <1>10 DEF CreateTable
<1>11. ASSUME NEW c \in Collectors, StatementFails(c)
       PROVE  SteadyOK'
  BY <1>1, <1>11 DEF StatementFails, CallIsOver, QueryIsOver
<1>12. ASSUME NEW c \in Collectors, RunQueriesReturns(c) \/ ProcessEnds(c)
       PROVE  SteadyOK'
  BY <1>1, <1>12 DEF RunQueriesReturns, ProcessEnds, CallIsOver
<1>13. CASE RemoverStep
  BY <1>1, <1>5, <1>13
     DEF RemoverStep, BeginRemoval, ListTables, DeleteFrom, DropCluster, DeleteCategoryRows,
         RemoveErrors, RemovalFails
<1>14. CASE Rest \/ UNCHANGED vars
  BY <1>1, <1>14 DEF Rest, vars
<1>15. QED
  BY <1>2, <1>3, <1>4, <1>6, <1>7, <1>8, <1>9, <1>10, <1>11, <1>12, <1>13, <1>14
     DEF Next, QueryStep, StoreStep

\* db show kpis --name finds every row of a KPI whose category never changes.
THEOREM SteadyAlwaysFound == Spec => []SteadyFoundByName
<1>1. SteadyOK => SteadyFoundByName
  BY DEF SteadyOK
<1>2. QED
  BY <1>1, SteadyInit, SteadyStep, TypedAlways, PTL DEF Spec

-----------------------------------------------------------------------------
\* MetricStore implements KpiStore: every SQL statement that changes the contents
\* is one of its actions, all others are invisible to a reader.

Shown(r) == [table |-> r.table, kpi |-> r.kpi, cluster |-> r.cluster, point |-> 1]

LEMMA StoreStarts == Init => Store!StoreInit
BY DEF Init, Store!StoreInit

LEMMA StoreKept ==
  UNCHANGED <<clusters, lastId, tables, registry, rows, errored>> => UNCHANGED Store!storeVars
BY DEF Store!storeVars

\* Rows removed are removed from sight, and no other ones.
LEMMA RowsRemoved ==
  ASSUME NEW t \in Tables, NEW kpis \in Scopes, NEW ids \in SUBSET Ids,
         rows \in SUBSET Rows,
         rows' = {r \in rows : ~(r.table = t /\ r.kpi \in kpis /\ r.cluster \in ids)},
         UNCHANGED <<clusters, lastId, tables, registry, errored>>
  PROVE  Store!RemoveRows(t, kpis, ids)
<1>1. {Shown(r) : r \in rows'}
        = {s \in {Shown(r) : r \in rows} : ~(s.table = t /\ s.kpi \in kpis /\ s.cluster \in ids)}
  BY DEF Shown
<1>2. QED
  BY <1>1 DEF Store!RemoveRows, Shown

LEMMA VictimRemoved ==
  ASSUME NEW t \in Tables, NEW kpis \in Scopes, NEW id \in Ids,
         rows \in SUBSET Rows,
         rows' = {r \in rows : ~(r.table = t /\ r.kpi \in kpis /\ r.cluster = id)},
         UNCHANGED <<clusters, lastId, tables, registry, errored>>
  PROVE  Store!StoreNext
<1>1. {Shown(r) : r \in rows'}
        = {s \in {Shown(r) : r \in rows} :
             ~(s.table = t /\ s.kpi \in kpis /\ s.cluster \in {id})}
  BY DEF Shown
<1>2. Store!RemoveRows(t, kpis, {id})
  BY <1>1 DEF Store!RemoveRows, Shown
<1>3. t \in Store!Tables /\ kpis \in Store!KpiChoices /\ id \in Store!Ids
  BY DEF Store!Tables, Store!Ids, Store!KpiChoices, Tables, Ids, Scopes
<1>4. Store!Remove
  BY <1>2, <1>3 DEF Store!Remove
<1>5. QED
  BY <1>4 DEF Store!StoreNext

LEMMA StoreStep1 ==
  ASSUME Typed, TablesOK, IdsOK, [Next]_vars
  PROVE  [Store!StoreNext]_(Store!storeVars)
<1> USE StoreAssumption
    DEF Typed, TypeOK, dbVars, callVars, removerVars, histVars
<1> DEFINE Goal == [Store!StoreNext]_(Store!storeVars)
<1>1. CASE UNCHANGED <<clusters, lastId, tables, registry, rows, errored>>
  BY <1>1, StoreKept
<1>2. ASSUME NEW c \in Collectors, ClusterStep(c)
      PROVE  Goal
  <2>1. CASE InsertCluster(c) /\ clusters[NameOf[c]] = 0
    <3>1. Store!AddCluster(NameOf[c])
      BY <2>1 DEF InsertCluster, Store!AddCluster
    <3>2. QED
      BY <3>1 DEF Store!StoreNext, Store!Write
  <2>2. CASE ~(InsertCluster(c) /\ clusters[NameOf[c]] = 0)
    BY <1>1, <1>2, <2>2 DEF ClusterStep, InsertCluster, RetryCluster
  <2>3. QED
    BY <2>1, <2>2
<1>3. ASSUME NEW c \in Collectors, NEW k \in Kpis, PromFails(c, k)
      PROVE  Goal
  <2>1. CASE errored' = errored \cup {k}
    <3>1. Store!AddError(k)
      BY <1>3, <2>1 DEF PromFails, Store!AddError
    <3>2. QED
      BY <3>1 DEF Store!StoreNext, Store!Write
  <2>2. CASE errored' = errored
    BY <1>1, <1>3, <2>2 DEF PromFails
  <2>3. QED
    BY <1>3, <2>1, <2>2 DEF PromFails
<1>4. ASSUME NEW c \in Collectors, CreateTable(c)
      PROVE  Goal
  <2>1. Target(c) \in Categories
    BY <1>4 DEF CreateTable, CallOK
  <2>2. CASE Target(c) \in known[c]
    BY <1>1, <1>4, <2>2 DEF CreateTable
  <2>3. CASE Target(c) \notin known[c]
    <3>1. Store!AddTable(Target(c))
      BY <1>4, <2>3 DEF CreateTable, Store!AddTable
    <3>2. QED
      BY <2>1, <3>1 DEF Store!StoreNext, Store!Write
  <2>4. QED
    BY <2>2, <2>3
<1>5. ASSUME NEW c \in Collectors, Register(c)
      PROVE  Goal
  <2>1. Target(c) \in Categories /\ Target(c) \in tables /\ kpi[c] \in Kpis
    BY <1>5 DEF Register, CallOK, Storing, TablesOK
  <2>2. CASE registry[kpi[c]] = Uncategorized
    <3>1. Store!AddToRegistry(kpi[c], Target(c))
      BY <1>5, <2>1, <2>2 DEF Register, Store!AddToRegistry
    <3>2. QED
      BY <2>1, <3>1 DEF Store!StoreNext, Store!Write
  <2>3. CASE registry[kpi[c]] # Uncategorized
    <3>1. registry' = registry
      BY <1>5, <2>1, <2>3 DEF Register
    <3>2. QED
      BY <1>1, <1>5, <3>1 DEF Register
  <2>4. QED
    BY <2>2, <2>3
<1>6. ASSUME NEW c \in Collectors, StoreRows(c)
      PROVE  Goal
  <2>1. Target(c) \in tables /\ Target(c) \in Tables /\ kpi[c] \in Kpis
    BY <1>6, JobsGiveTables DEF StoreRows, CallOK, Storing, TablesOK, TablesExist, Target
  <2>2. clusterId[c] \in Ids /\ clusterId[c] <= lastId
    BY <1>6 DEF StoreRows, CallOK, Storing, IdsOK
  <2>3. rows' = rows \cup {[table |-> Target(c), kpi |-> kpi[c], cluster |-> clusterId[c]]}
    BY <1>6 DEF StoreRows
  <2>4. {Shown(r) : r \in rows'} = {Shown(r) : r \in rows}
          \cup {[table |-> Target(c), kpi |-> kpi[c], cluster |-> clusterId[c], point |-> p] : p \in {1}}
    <3> DEFINE row == [table |-> Target(c), kpi |-> kpi[c], cluster |-> clusterId[c]]
    <3>1. Shown(row) = [table |-> Target(c), kpi |-> kpi[c], cluster |-> clusterId[c], point |-> 1]
      BY DEF Shown
    <3>2. {[table |-> Target(c), kpi |-> kpi[c], cluster |-> clusterId[c], point |-> p] : p \in {1}}
            = {Shown(row)}
      BY <3>1
    <3>3. rows' = rows \cup {row}
      BY <2>3
    <3> HIDE DEF row
    <3>4. {Shown(r) : r \in rows \cup {row}} = {Shown(r) : r \in rows} \cup {Shown(row)}
      OBVIOUS
    <3>5. QED
      BY <3>2, <3>3, <3>4
  <2>5. Store!AddRows(Target(c), kpi[c], clusterId[c], {1})
    BY <1>6, <2>1, <2>2, <2>4 DEF StoreRows, Store!AddRows, Shown
  <2>6. {1} \in SUBSET {1}
    OBVIOUS
  <2>7. QED
    BY <2>1, <2>2, <2>5, <2>6 DEF Store!StoreNext, Store!Write, Store!Tables, Store!Ids, Tables, Ids
<1>7. ASSUME NEW t \in Tables, DeleteFrom(t)
      PROVE  Goal
  <2>1. scope \in Scopes /\ victim \in Ids
    BY <1>7 DEF DeleteFrom, RemoverOK
  <2>2. rows' = {r \in rows : ~(r.table = t /\ r.kpi \in scope /\ r.cluster = victim)}
    BY <1>7 DEF DeleteFrom
  <2>3. UNCHANGED <<clusters, lastId, tables, registry, errored>>
    BY <1>7 DEF DeleteFrom
  <2>4. QED
    BY <2>1, <2>2, <2>3, VictimRemoved
<1>8. CASE DropCluster
  <2>1. victim \in Ids
    BY <1>8 DEF DropCluster, RemoverOK
  <2>2. Store!RemoveCluster(victim)
    BY <1>8 DEF DropCluster, Store!RemoveCluster
  <2>3. QED
    BY <2>1, <2>2 DEF Store!StoreNext, Store!Remove, Store!Ids, Ids
<1>9. ASSUME NEW category \in Categories, DeleteCategoryRows(category)
      PROVE  Goal
  <2>1. rows' = {r \in rows : ~(r.table = category /\ r.kpi \in Kpis /\ r.cluster \in Ids)}
    BY <1>9 DEF DeleteCategoryRows, Rows
  <2>2. category \in Tables /\ Kpis \in Scopes
    BY DEF Tables, Scopes
  <2>3. Store!RemoveRows(category, Kpis, Ids)
    BY <1>9, <2>1, <2>2, RowsRemoved DEF DeleteCategoryRows
  <2>4. QED
    BY <2>3 DEF Store!StoreNext, Store!Remove, Store!Ids, Ids
<1>10. CASE DeleteCategoryRegistry
  <2>1. PICK t \in Categories : targets = {t}
    BY <1>10 DEF DeleteCategoryRegistry, RemoverOK
  <2>2. Store!RemoveFromRegistry(t)
    BY <1>10, <2>1 DEF DeleteCategoryRegistry, Store!RemoveFromRegistry
  <2>3. QED
    BY <2>2 DEF Store!StoreNext, Store!Remove
<1>11. ASSUME NEW kpis \in Scopes, RemoveErrors(kpis)
       PROVE  Goal
  <2>1. Store!RemoveErrors(kpis)
    BY <1>11 DEF RemoveErrors, Store!RemoveErrors
  <2>2. QED
    BY <2>1 DEF Store!StoreNext, Store!Remove, Store!KpiChoices, Scopes
<1>12. CASE RemoverStep
  BY <1>1, <1>7, <1>8, <1>9, <1>10, <1>11, <1>12
     DEF RemoverStep, BeginRemoval, ListTables, RemovalFails
<1>13. ASSUME NEW c \in Collectors, QueryStep(c) \/ StoreStep(c)
       PROVE  Goal
  BY <1>1, <1>3, <1>4, <1>5, <1>6, <1>13
     DEF QueryStep, StoreStep, EmptyResult, GotResult
<1>14. ASSUME NEW c \in Collectors,
              ValidateCategories(c) \/ StatementFails(c) \/ RunQueriesReturns(c) \/ ProcessEnds(c)
       PROVE  Goal
  BY <1>1, <1>14 DEF ValidateCategories, StatementFails, RunQueriesReturns, ProcessEnds
<1>15. ASSUME NEW c \in Collectors, NEW j \in Jobs, BeginRunQueries(c, j)
       PROVE  Goal
  BY <1>1, <1>15 DEF BeginRunQueries
<1>16. CASE Rest \/ UNCHANGED vars
  BY <1>1, <1>16 DEF Rest, vars
<1>17. QED
  BY <1>2, <1>12, <1>13, <1>14, <1>15, <1>16 DEF Next

\* Whoever writes and fails in whatever order, a reader of the database sees what
\* KpiStore allows.
THEOREM StoreImplemented == Spec => ImplementsStore
<1>1. Spec => [](Typed /\ TablesOK /\ IdsOK)
  BY TablesInit, TablesStep, TypedAlways, IdsAlwaysOK, PTL DEF Spec
<1>2. QED
  BY <1>1, StoreStarts, StoreStep1, PTL DEF Spec, ImplementsStore, Store!StoreSpec

=============================================================================
