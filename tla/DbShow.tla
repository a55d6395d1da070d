------------------------------- MODULE DbShow -------------------------------
(***************************************************************************)
(* One db show command (commands/db_show.go) that reads the database one   *)
(* SQL statement at a time while others write to it and remove from it, as *)
(* KpiStore allows.  Times are in half seconds: samples have fractions of  *)
(* a second, the filters' bounds do not.                                   *)
(***************************************************************************)
EXTENDS KpiStore, Chart, FiniteSets

CONSTANTS
  Absent,            \* a flag that is not given
  TimeOf,            \* timestamp_value of each point
  LabelsOf,          \* metric_labels of each point: a function
  Now,               \* the time of the command
  Stores,            \* contents of the database before it
  Commands,          \* command lines
  MaxChanges         \* bound: changes of the database during the command

\* A reader finds a database that its writers can have left behind.
PossibleStore(s) ==
  /\ s.clusters \in [Names -> {0} \cup 1 .. s.lastId] /\ s.lastId \in 0 .. MaxClusters
  /\ \A n, m \in Names : s.clusters[n] = s.clusters[m] => n = m \/ s.clusters[n] = 0
  /\ s.tables \in SUBSET Tables /\ Uncategorized \in s.tables
  /\ s.registry \in [Kpis -> s.tables]
  /\ s.rows \in SUBSET [table : s.tables, kpi : Kpis, cluster : 1 .. s.lastId, point : Points]
  /\ s.errored \in SUBSET Kpis

\* --name and --category are flags of db show kpis.
PossibleCommand(c) ==
  /\ c.show \in {"kpis", "clusters", "categories", "errors"} /\ c.limit \in Int
  /\ c.name \in Kpis \cup {Absent} /\ c.category \in Categories \cup {Absent}
  /\ c.cluster \in Names \cup {Absent}
  /\ c.show # "kpis" => c.name = Absent /\ c.category = Absent
  /\ \A t \in {c.since, c.until} : t # Absent => t.isDuration \in BOOLEAN /\ t.value \in Int

ASSUME ShowAssumption ==
  /\ IsFiniteSet(Kpis) /\ IsFiniteSet(Categories) /\ IsFiniteSet(Names) /\ IsFiniteSet(Points)
  /\ Absent \notin Kpis \cup Categories \cup Names
  /\ TimeOf \in [Points -> Nat] /\ Now \in Nat
  /\ \A s \in Stores : PossibleStore(s)
  /\ \A c \in Commands : PossibleCommand(c)
  /\ MaxChanges \in Nat

VARIABLES
  cmd,               \* the command line
  pc,                \* where it is
  targets,           \* tables it has still to query
  found,             \* results so far: records [row, name]
  total,             \* TotalMetrics so far of the clusters it has met, by id
  shown,             \* what it prints
  changes,           \* bound: changes of the database so far
  always,            \* history: what has been in its reach all the time
  ever               \* history: what has been in the database at any time

readVars == <<cmd, pc, targets, found, total, shown>>
histVars == <<changes, always, ever>>
vars == <<storeVars, readVars, histVars>>

-----------------------------------------------------------------------------
(***************************************************************************)
(* Flags: validateShowKPIsCLIFlags, connectToDB, the filters.              *)
(***************************************************************************)
Given(flag) == flag # Absent

Unless(flag, default) == IF Given(flag) THEN flag ELSE default

\* A dimension that is given must be in range and fit the terminal, if any.
DimensionFits(flag, least, terminal) ==
  Given(flag) => /\ flag \in least .. MaxChartDimension
                 /\ cmd.tty # NoTty => flag <= terminal

ValidFlags ==
  LET sized == Given(cmd.width) \/ Given(cmd.height)
  IN /\ ~(Given(cmd.name) /\ Given(cmd.category))
     /\ cmd.format \in {"table", "json", "csv", "chart"}
     /\ cmd.format = "chart" => Given(cmd.name)
     /\ sized => cmd.format = "chart"
     /\ DimensionFits(cmd.width, MinChartWidth, cmd.tty.width)
     /\ DimensionFits(cmd.height, MinChartHeight, cmd.tty.height)
     /\ cmd.interactive => cmd.format = "chart" /\ cmd.tty # NoTty /\ cmd.stdinTty /\ ~sized

\* connectToDB: a flag, then the environment, then SQLite, which must be there
Connects ==
  LET type == Unless(cmd.dbFlag, Unless(cmd.dbEnv, "sqlite"))
  IN (type = "postgres" /\ cmd.url) \/ (type = "sqlite" /\ cmd.dbFile)

\* parseTimeFilter: a duration back from now, or a time as it is
TimeFilter(t) == IF t.isDuration THEN Now - t.value ELSE t.value

ValidTimeFilter(t) == Given(t) => t.parses /\ (t.isDuration => t.value > 0)

\* parseKPIQueryTimeWindow
ValidWindow ==
  /\ ValidTimeFilter(cmd.since) /\ ValidTimeFilter(cmd.until)
  /\ Given(cmd.since) /\ Given(cmd.until) => TimeFilter(cmd.since) < TimeFilter(cmd.until)

\* parseLabelFilters: a pair has a key and a value; the last with a key counts.
ValidLabels == \A i \in DOMAIN cmd.labels : Len(cmd.labels[i]) = 2

LabelFilters ==
  [key \in {cmd.labels[i][1] : i \in DOMAIN cmd.labels} |->
     cmd.labels[Max({i \in DOMAIN cmd.labels : cmd.labels[i][1] = key})][2]]

-----------------------------------------------------------------------------
(***************************************************************************)
(* What a statement selects.                                               *)
(***************************************************************************)
Registered == {registry[k] : k \in Kpis} \ {Uncategorized}

RowsOf(id) == {r \in rows : r.cluster = id}

\* JOIN clusters: the rows whose cluster is there, with its name
Joined == UNION {{[row |-> r, name |-> n] : r \in RowsOf(clusters[n])} : n \in Names}

\* Truncate(time.Second)
Second(t) == 2 * (t \div 2)

LabelsMatch(point) ==
  \A key \in DOMAIN LabelFilters :
    key \in DOMAIN LabelsOf[point] /\ LabelsOf[point][key] = LabelFilters[key]

\* The WHERE clause with the upper bound left out
MatchesSinceOnly(j) ==
  /\ Given(cmd.name) => j.row.kpi = cmd.name
  /\ Given(cmd.cluster) => j.name = cmd.cluster
  /\ Given(cmd.since) => TimeOf[j.row.point] >= Second(TimeFilter(cmd.since))
  /\ LabelsMatch(j.row.point)

\* The WHERE clause of queryFromTable, and matchesLabelFilters
Matches(j) ==
  /\ Given(cmd.name) => j.row.kpi = cmd.name
  /\ Given(cmd.cluster) => j.name = cmd.cluster
  /\ Given(cmd.since) => TimeOf[j.row.point] >= Second(TimeFilter(cmd.since))
  /\ Given(cmd.until) => TimeOf[j.row.point] <= Second(TimeFilter(cmd.until))
  /\ LabelsMatch(j.row.point)

Selected(t) == {j \in Joined : j.row.table = t /\ Matches(j)}

Time(j) == TimeOf[j.row.point]

\* sortResults; rows of one time come in any order.
ComesBefore(i, j) == IF cmd.sort = "desc" THEN Time(i) > Time(j) ELSE Time(i) < Time(j)

\* queryKPIs that cuts before it sorts
CutUnsorted(results) ==
  IF cmd.limit > 0 /\ Cardinality(results) > cmd.limit THEN kSubset(cmd.limit, results)
  ELSE {results}

\* What is left of the sorted results by --limit, 0 or less being no limit
Cut(results) ==
  IF cmd.limit > 0 /\ Cardinality(results) > cmd.limit
  THEN {s \in kSubset(cmd.limit, results) :
          \A i \in s, j \in results \ s : ~ComesBefore(j, i)}
  ELSE {results}

-----------------------------------------------------------------------------
(***************************************************************************)
(* The command, and what changes beside it.                                *)
(***************************************************************************)

\* What one statement could find if it read all that the command will read
Findable(r) ==
  IF Given(cmd.name) THEN registry[r.kpi] = r.table
  ELSE IF Given(cmd.category) THEN r.table = cmd.category
  ELSE r.table \in {Uncategorized} \cup Registered

InReach == {j \in Joined : Findable(j.row)}

Init ==
  /\ \E s \in Stores :
       /\ clusters = s.clusters /\ lastId = s.lastId /\ tables = s.tables
       /\ registry = s.registry /\ rows = s.rows /\ errored = s.errored
  /\ cmd \in Commands
  /\ pc = "start"
  /\ targets = {}
  /\ found = {}
  /\ total = <<>>
  /\ shown = {}
  /\ changes = 0
  /\ always = InReach
  /\ ever = Joined

Fail == pc' = "failed" /\ UNCHANGED <<targets, found, total, shown>>

Goto(place, tablesToRead) ==
  /\ pc' = place
  /\ targets' = tablesToRead
  /\ UNCHANGED <<found, total, shown>>

Show(result) == pc' = "done" /\ targets' = {} /\ shown' = result

\* Where the command goes to the database first
FirstQuery ==
  IF cmd.show \notin {"kpis", "clusters"} THEN cmd.show
  ELSE IF Given(cmd.category) THEN "category"
  ELSE IF Given(cmd.name) THEN "lookup"
  ELSE "list"

\* The command up to its first query.  The checks of the filters come after
\* validateCategory in the code: which error is printed is not modelled.
Start ==
  /\ pc = "start"
  /\ IF Connects /\ (cmd.show = "kpis" => ValidFlags /\ ValidWindow /\ ValidLabels)
     THEN Goto(FirstQuery, {}) ELSE Fail
  /\ UNCHANGED <<cmd, storeVars, histVars>>

\* queryByCategory without validateCategory
QueryCategoryUnseen ==
  /\ pc = "category"
  /\ Goto("scan", {cmd.category})
  /\ UNCHANGED <<cmd, storeVars, histVars>>

\* validateCategory, queryByCategory
ValidateCategory ==
  /\ pc = "category"
  /\ IF cmd.category \in Registered THEN Goto("scan", {cmd.category}) ELSE Fail
  /\ UNCHANGED <<cmd, storeVars, histVars>>

\* queryByName: the table the registry names, or the default one
LookupKpi ==
  /\ pc = "lookup"
  /\ Goto("scan", {registry[cmd.name]})
  /\ UNCHANGED <<cmd, storeVars, histVars>>

\* allCategoryTables: the default table and every one of the registry
ListTables ==
  /\ pc = "list"
  /\ Goto("scan", {Uncategorized} \cup Registered)
  /\ UNCHANGED <<cmd, storeVars, histVars>>

\* A turn of queryAll's loop, or the one query of the others; sort and cut after
\* the last.  The order of the tables is left open.
QueryTable(t) ==
  /\ pc = "scan" /\ cmd.show = "kpis" /\ t \in targets
  /\ found' = found \cup Selected(t)
  /\ IF targets = {t}
     THEN \E result \in Cut(found') : Show(result)
     ELSE targets' = targets \ {t} /\ UNCHANGED <<pc, shown>>
  /\ UNCHANGED <<cmd, total, storeVars, histVars>>

\* The ids of the clusters listClusters asks for
Asked == {clusters[n] : n \in IF Given(cmd.cluster) THEN {cmd.cluster} ELSE Names} \ {0}

CountIn(t, id) == Cardinality({r \in RowsOf(id) : r.table = t})

\* A turn of listClusters that takes the last table's count for the total
CountTableAnew(t) ==
  /\ pc = "scan" /\ cmd.show = "clusters" /\ t \in targets
  /\ total' = [id \in DOMAIN total \cup Asked |->
                 IF id \in Asked THEN CountIn(t, id) ELSE total[id]]
  /\ IF targets = {t} THEN Show(total')
     ELSE targets' = targets \ {t} /\ UNCHANGED <<pc, shown>>
  /\ UNCHANGED <<cmd, found, storeVars, histVars>>

\* A turn of listClusters' loop: LEFT JOIN counts the clusters without rows too,
\* and a cluster met before keeps its place when it has gone since.
CountTable(t) ==
  /\ pc = "scan" /\ cmd.show = "clusters" /\ t \in targets
  /\ total' = [id \in DOMAIN total \cup Asked |->
                 (IF id \in DOMAIN total THEN total[id] ELSE 0)
                   + (IF id \in Asked THEN CountIn(t, id) ELSE 0)]
  /\ IF targets = {t} THEN Show(total')
     ELSE targets' = targets \ {t} /\ UNCHANGED <<pc, shown>>
  /\ UNCHANGED <<cmd, found, storeVars, histVars>>

\* db show categories: each with its number of KPIs, in one statement
ShowCategories ==
  /\ pc = "categories"
  /\ Show([t \in Registered |-> Cardinality({k \in Kpis : registry[k] = t})])
  /\ UNCHANGED <<cmd, found, total, storeVars, histVars>>

\* db show errors
ShowErrors ==
  /\ pc = "errors"
  /\ Show(errored)
  /\ UNCHANGED <<cmd, found, total, storeVars, histVars>>

Ended == pc \in {"done", "failed"}

\* A statement fails: nothing is printed, whatever was found.
StatementFails ==
  /\ pc # "start" /\ ~Ended
  /\ Fail
  /\ UNCHANGED <<cmd, storeVars, histVars>>

\* A collector or db remove executes a statement between two of the command's.
Interfere ==
  /\ pc # "start" /\ ~Ended
  /\ changes < MaxChanges /\ changes' = changes + 1
  /\ Write({{p} : p \in Points}) \/ Remove
  /\ storeVars' # storeVars
  /\ UNCHANGED readVars
  /\ always' = always \cap InReach'
  /\ ever' = ever \cup Joined'

Terminated == Ended /\ UNCHANGED vars

Next ==
  \/ Start
  \/ ValidateCategory
  \/ LookupKpi
  \/ ListTables
  \/ \E t \in Tables : QueryTable(t)
  \/ \E t \in Tables : CountTable(t)
  \/ ShowCategories
  \/ ShowErrors
  \/ StatementFails
  \/ Interfere
  \/ Terminated

Spec == Init /\ [][Next]_vars

-----------------------------------------------------------------------------
(***************************************************************************)
(* Properties                                                              *)
(***************************************************************************)
TypeOK ==
  /\ StoreTypeOK
  /\ cmd \in Commands
  /\ pc \in {"start", "category", "lookup", "list", "scan", "categories", "errors", "done",
             "failed"}
  /\ targets \in SUBSET tables
  /\ found \in SUBSET [row : Rows, name : Names]
  /\ DOMAIN total \subseteq Ids
  /\ changes \in 0 .. MaxChanges
  /\ always \subseteq ever /\ ever \in SUBSET [row : Rows, name : Names]

ShowsKpis == pc = "done" /\ cmd.show = "kpis"

\* What the user asked for, within the second that the bounds are cut to: a
\* sample from since on and at least a second before until
Wanted(j) ==
  /\ Given(cmd.name) => j.row.kpi = cmd.name
  /\ Given(cmd.cluster) => j.name = cmd.cluster
  /\ Given(cmd.since) => Time(j) >= TimeFilter(cmd.since)
  /\ Given(cmd.until) => Time(j) <= TimeFilter(cmd.until) - 1
  /\ LabelsMatch(j.row.point)

\* db show kpis shows every row asked for that was in its reach all the time,
\* whatever was written and removed between its statements, except those that
\* the limit cuts off behind the rows it shows.
NothingMissed ==
  ShowsKpis => \A j \in always :
    Wanted(j) => \/ j \in shown
                 \/ /\ Cardinality(shown) = cmd.limit
                    /\ \A s \in shown : ~ComesBefore(j, s)

\* It shows only rows that were in the database, with the name their cluster had
\* then, less than a second before since at the earliest and not after until.
ShownIsSound ==
  ShowsKpis =>
    /\ shown \subseteq ever
    /\ cmd.limit > 0 => Cardinality(shown) <= cmd.limit
    /\ \A j \in shown :
         /\ Given(cmd.since) => Time(j) > TimeFilter(cmd.since) - 2
         /\ Given(cmd.until) => Time(j) <= TimeFilter(cmd.until)
         /\ Given(cmd.cluster) => j.name = cmd.cluster
         /\ LabelsMatch(j.row.point)

\* db show clusters counts, for every cluster it lists, all rows that were there
\* all the time and none that never was, each row once; it lists every cluster
\* asked for that had a row all the time.
TotalsWithin ==
  pc = "done" /\ cmd.show = "clusters" =>
    /\ \A id \in DOMAIN shown :
         /\ Cardinality({j \in always : j.row.cluster = id}) <= shown[id]
         /\ shown[id] <= Cardinality({j \in ever : j.row.cluster = id})
    /\ \A j \in always :
         (Given(cmd.cluster) => j.name = cmd.cluster) => j.row.cluster \in DOMAIN shown

=============================================================================
