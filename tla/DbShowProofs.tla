----------------------------- MODULE DbShowProofs -----------------------------
(***************************************************************************)
(* Proofs about DbShow: what one db show command finds while others change *)
(* the database between its statements, for every database, every command  *)
(* line and every number of changes.                                       *)
(***************************************************************************)
EXTENDS DbShow, KpiStoreProofs, FiniteSetTheorems

Hits == [row : Rows, name : Names]

\* Where the command is: its statements are those its flags call for.
PlaceOK ==
  /\ pc = "category" => cmd.show = "kpis" /\ cmd.category \in Categories /\ ~Given(cmd.name)
  /\ pc = "lookup" => cmd.show = "kpis" /\ cmd.name \in Kpis
  /\ pc = "list" => /\ cmd.show \in {"kpis", "clusters"}
                    /\ ~Given(cmd.name) /\ ~Given(cmd.category)
  /\ pc \in {"categories", "errors"} => cmd.show = pc
  /\ pc \in {"category", "lookup", "list"} => found = {} /\ total = <<>>
  /\ pc = "start" => found = {} /\ total = <<>> /\ targets = {}

\* The histories bound what is there: what was there all the time is in reach
\* now, and what is there now was there at some time.
HistoryOK ==
  /\ always \subseteq InReach
  /\ Joined \subseteq ever

\* What has been found is what its filters select, and of what was there all the
\* time only tables that have still to be read keep something from it.
FoundOK ==
  /\ \A j \in found : j \in ever /\ Matches(j)
  /\ pc = "scan" /\ cmd.show = "kpis" =>
       \A j \in always : Wanted(j) => j \in found \/ j.row.table \in targets

AsksFor(n) == Given(cmd.cluster) => n = cmd.cluster

\* Of the hits, those of a cluster in tables that have been read
Read(hits, id) == {j \in hits : j.row.cluster = id /\ j.row.table \notin targets}

\* Counts lie between what was there all the time and what was there at any time,
\* in the tables that have been read; the clusters that count are those asked for.
CountOK ==
  pc = "scan" /\ cmd.show = "clusters" =>
    /\ total \in [DOMAIN total -> Nat]
    /\ \A id \in DOMAIN total : /\ Cardinality(Read(always, id)) <= total[id]
                                /\ total[id] <= Cardinality(Read(ever, id))
    /\ \A j \in always : j.row.cluster \in DOMAIN total => AsksFor(j.name)
    /\ \A j \in always : AsksFor(j.name) =>
         j.row.cluster \in DOMAIN total \/ j.row.table \in targets

ShowInv ==
  /\ TypeOK /\ StoreInv /\ PlaceOK /\ HistoryOK /\ FoundOK /\ CountOK
  /\ NothingMissed /\ ShownIsSound /\ TotalsWithin

-----------------------------------------------------------------------------
(***************************************************************************)
(* The sets are finite.                                                    *)
(***************************************************************************)
LEMMA RowsFinite == IsFiniteSet(Rows)
<1> DEFINE pairs == (Tables \X Kpis) \X (Ids \X Points)
           f == [r \in Rows |-> <<<<r.table, r.kpi>>, <<r.cluster, r.point>>>>]
<1>1. IsFiniteSet(Tables)
  BY FS_Union, FS_Singleton, ShowAssumption DEF Tables
<1>2. IsFiniteSet(Ids)
  BY FS_Interval, KpiStoreAssumption DEF Ids
<1>3. IsFiniteSet(Tables \X Kpis) /\ IsFiniteSet(Ids \X Points)
  BY <1>1, <1>2, FS_Product, ShowAssumption
<1>4. IsFiniteSet(pairs)
  BY <1>3, FS_Product
<1>5. f \in Injection(Rows, pairs)
  <2>1. ASSUME NEW r \in Rows
        PROVE  /\ r.table \in Tables /\ r.kpi \in Kpis /\ r.cluster \in Ids /\ r.point \in Points
               /\ r = [table |-> r.table, kpi |-> r.kpi, cluster |-> r.cluster, point |-> r.point]
    BY DEF Rows
  <2>2. f \in [Rows -> pairs]
    BY <2>1
  <2>3. ASSUME NEW r \in Rows, NEW q \in Rows, f[r] = f[q]
        PROVE  r = q
    <3>1. r.table = q.table /\ r.kpi = q.kpi /\ r.cluster = q.cluster /\ r.point = q.point
      BY <2>3
    <3>2. QED
      BY <2>1, <3>1
  <2>4. QED
    BY <2>2, <2>3 DEF Injection, IsInjective
<1> HIDE DEF pairs, f
<1>6. QED
  BY <1>4, <1>5, FS_Injection

LEMMA HitsFinite == IsFiniteSet(Hits)
<1> DEFINE f == [j \in Hits |-> <<j.row, j.name>>]
<1>1. IsFiniteSet(Rows \X Names)
  BY RowsFinite, FS_Product, ShowAssumption
<1>2. f \in Injection(Hits, Rows \X Names)
  BY DEF Injection, IsInjective, Hits
<1> HIDE DEF f
<1>3. QED
  BY <1>1, <1>2, FS_Injection

LEMMA HitCounts ==
  ASSUME NEW S \in SUBSET Hits, NEW T \in SUBSET S
  PROVE  /\ IsFiniteSet(T) /\ Cardinality(T) \in Nat
         /\ IsFiniteSet(S) /\ Cardinality(S) \in Nat
         /\ Cardinality(T) <= Cardinality(S)
<1>1. IsFiniteSet(S)
  BY HitsFinite, FS_Subset
<1>2. QED
  BY <1>1, FS_Subset, FS_CardinalityType

-----------------------------------------------------------------------------
(***************************************************************************)
(* What a statement selects, and when the filters leave a wanted hit.      *)
(***************************************************************************)
LEMMA JoinedMeaning ==
  StoreTypeOK =>
    /\ Joined \subseteq Hits
    /\ \A j : j \in Joined <=> /\ j \in Hits /\ j.row \in rows
                               /\ clusters[j.name] = j.row.cluster
<1> SUFFICES ASSUME StoreTypeOK
             PROVE  \A j : j \in Joined <=> /\ j \in Hits /\ j.row \in rows
                                            /\ clusters[j.name] = j.row.cluster
  OBVIOUS
<1>1. ASSUME NEW j \in Joined
      PROVE  j \in Hits /\ j.row \in rows /\ clusters[j.name] = j.row.cluster
  <2>1. PICK n \in Names : \E r \in RowsOf(clusters[n]) : j = [row |-> r, name |-> n]
    BY DEF Joined
  <2>2. PICK r \in RowsOf(clusters[n]) : j = [row |-> r, name |-> n]
    BY <2>1
  <2>3. r \in rows /\ r \in Rows /\ r.cluster = clusters[n]
    BY DEF RowsOf, StoreTypeOK
  <2>4. QED
    BY <2>2, <2>3 DEF Hits
<1>2. ASSUME NEW j \in Hits, j.row \in rows, clusters[j.name] = j.row.cluster
      PROVE  j \in Joined
  <2>1. j = [row |-> j.row, name |-> j.name] /\ j.name \in Names
    BY DEF Hits
  <2>2. j.row \in RowsOf(clusters[j.name])
    BY <1>2 DEF RowsOf
  <2>3. QED
    BY <2>1, <2>2 DEF Joined
<1>3. QED
  BY <1>1, <1>2

LEMMA TimesTyped ==
  ASSUME NEW j \in Hits
  PROVE  Time(j) \in Nat /\ TimeOf[j.row.point] = Time(j)
BY ShowAssumption DEF Time, Hits, Rows

LEMMA SecondCuts == \A t \in Int : Second(t) \in Int /\ Second(t) <= t /\ t - 1 <= Second(t)
BY DEF Second

LEMMA FilterTyped ==
  ASSUME cmd \in Commands
  PROVE  /\ Given(cmd.since) => TimeFilter(cmd.since) \in Int
         /\ Given(cmd.until) => TimeFilter(cmd.until) \in Int
<1>1. \A t \in {cmd.since, cmd.until} : Given(t) => t.value \in Int
  BY ShowAssumption DEF PossibleCommand, Given
<1>2. QED
  BY <1>1, ShowAssumption DEF TimeFilter

\* The bounds are cut to the second, which never loses what is wanted, and lets
\* through less than a second before since.
LEMMA FiltersSound ==
  ASSUME cmd \in Commands, NEW j \in Hits
  PROVE  /\ Wanted(j) => Matches(j)
         /\ Matches(j) => /\ Given(cmd.since) => Time(j) > TimeFilter(cmd.since) - 2
                          /\ Given(cmd.until) => Time(j) <= TimeFilter(cmd.until)
                          /\ Given(cmd.cluster) => j.name = cmd.cluster
                          /\ LabelsMatch(j.row.point)
<1> DEFINE from == TimeFilter(cmd.since)
           to   == TimeFilter(cmd.until)
<1>1. Time(j) \in Nat /\ TimeOf[j.row.point] = Time(j)
  BY TimesTyped
<1>2. Given(cmd.since) =>
        from \in Int /\ Second(from) \in Int /\ Second(from) <= from /\ from - 1 <= Second(from)
  BY FilterTyped, SecondCuts
<1>3. Given(cmd.until) =>
        to \in Int /\ Second(to) \in Int /\ Second(to) <= to /\ to - 1 <= Second(to)
  BY FilterTyped, SecondCuts
<1> HIDE DEF from, to
<1>4. Wanted(j) => Matches(j)
  BY <1>1, <1>2, <1>3 DEF Wanted, Matches, from, to
<1>5. QED
  BY <1>1, <1>2, <1>3, <1>4 DEF Matches, from, to

-----------------------------------------------------------------------------
(***************************************************************************)
(* What stays as it is when the command line and the database do.          *)
(***************************************************************************)
LEMMA LabelsKept ==
  ASSUME cmd' = cmd
  PROVE  \A p : LabelsMatch(p)' <=> LabelsMatch(p)
<1> DEFINE filters(c) ==
             [key \in {c.labels[i][1] : i \in DOMAIN c.labels} |->
                c.labels[Max({i \in DOMAIN c.labels : c.labels[i][1] = key})][2]]
<1>1. LabelFilters = filters(cmd) /\ LabelFilters' = filters(cmd')
  BY DEF LabelFilters
<1> HIDE DEF filters
<1>2. LabelFilters' = LabelFilters
  BY <1>1
<1>3. QED
  BY <1>2 DEF LabelsMatch

LEMMA CmdKept ==
  ASSUME cmd' = cmd
  PROVE  /\ \A j : Wanted(j)' <=> Wanted(j)
         /\ \A j : Matches(j)' <=> Matches(j)
         /\ \A i, j : ComesBefore(i, j)' <=> ComesBefore(i, j)
         /\ \A n : AsksFor(n)' <=> AsksFor(n)
<1>1. \A j : Wanted(j)' <=> Wanted(j)
  BY LabelsKept DEF Wanted
<1>2. \A j : Matches(j)' <=> Matches(j)
  BY LabelsKept DEF Matches
<1>3. QED
  BY <1>1, <1>2 DEF ComesBefore, AsksFor

LEMMA ReachKept ==
  ASSUME UNCHANGED <<storeVars, cmd>>
  PROVE  Joined' = Joined /\ InReach' = InReach /\ Registered' = Registered
<1>1. Joined' = Joined
  BY DEF Joined, RowsOf, storeVars
<1>2. Registered' = Registered
  BY DEF Registered, storeVars
<1>3. \A r : Findable(r)' <=> Findable(r)
  BY <1>2 DEF Findable, storeVars
<1>4. QED
  BY <1>1, <1>2, <1>3 DEF InReach

\* Of the command, the steps beside Interfere change neither what it was told nor
\* the database and its histories.
LEMMA SurroundingsKept ==
  ASSUME ShowInv, UNCHANGED <<cmd, storeVars, histVars>>
  PROVE  /\ StoreInv' /\ StoreTypeOK' /\ HistoryOK'
         /\ cmd' \in Commands /\ changes' \in 0 .. MaxChanges
         /\ always' \subseteq ever' /\ ever' \in SUBSET Hits
<1>1. StoreInv'
  BY StoreInvKept DEF ShowInv
<1>2. HistoryOK'
  BY ReachKept DEF ShowInv, HistoryOK, histVars
<1>3. QED
  BY <1>1, <1>2 DEF StoreInv, ShowInv, TypeOK, histVars, Hits

-----------------------------------------------------------------------------
(***************************************************************************)
(* The command's steps up to its first table.                              *)
(***************************************************************************)
LEMMA ShowInvInit == Init => ShowInv
<1> SUFFICES ASSUME Init
             PROVE  ShowInv
  OBVIOUS
<1>1. PICK s \in Stores : /\ clusters = s.clusters /\ lastId = s.lastId /\ tables = s.tables
                          /\ registry = s.registry /\ rows = s.rows /\ errored = s.errored
  BY DEF Init
<1>2. PossibleStore(s)
  BY ShowAssumption
<1>3. lastId \in 0 .. MaxClusters /\ 1 .. lastId \subseteq Ids /\ tables \in SUBSET Tables
  BY <1>1, <1>2, KpiStoreAssumption DEF PossibleStore, Ids
<1>4. StoreTypeOK
  <2>1. clusters \in [Names -> {0} \cup Ids] /\ registry \in [Kpis -> Tables]
    BY <1>1, <1>2, <1>3 DEF PossibleStore
  <2>2. rows \in SUBSET Rows
    BY <1>1, <1>2, <1>3 DEF PossibleStore, Rows
  <2>3. QED
    BY <1>1, <1>2, <1>3, <2>1, <2>2 DEF PossibleStore, StoreTypeOK
<1>5. IdsDiffer
  <2>1. \A n \in Names : clusters[n] \in {0} \cup 1 .. lastId
    BY <1>1, <1>2 DEF PossibleStore
  <2>2. \A n \in Names : clusters[n] <= lastId
    BY <1>3, <2>1
  <2>3. QED
    BY <1>1, <1>2, <2>2 DEF PossibleStore, IdsDiffer
<1>6. TablesThere
  BY <1>1, <1>2 DEF PossibleStore, TablesThere
<1>7. Joined \subseteq Hits /\ InReach \subseteq Joined
  BY <1>4, JoinedMeaning DEF InReach
<1>8. TypeOK
  <2>1. always \subseteq ever /\ ever \in SUBSET Hits
    BY <1>7 DEF Init
  <2>2. DOMAIN total \subseteq Ids
    BY DEF Init
  <2>3. QED
    BY <1>4, <2>1, <2>2, ShowAssumption DEF Init, TypeOK, Hits
<1>9. HistoryOK /\ PlaceOK /\ FoundOK /\ CountOK
  BY DEF Init, HistoryOK, PlaceOK, FoundOK, CountOK
<1>10. NothingMissed /\ ShownIsSound /\ TotalsWithin
  BY DEF Init, NothingMissed, ShownIsSound, TotalsWithin, ShowsKpis
<1>11. QED
  BY <1>4, <1>5, <1>6, <1>8, <1>9, <1>10 DEF ShowInv, StoreInv

\* While the command neither reads tables nor has ended, it has found nothing to
\* be judged by.
LEMMA QuietStep ==
  ASSUME ShowInv, UNCHANGED <<cmd, storeVars, histVars, found, total>>,
         pc' \in {"category", "lookup", "list", "categories", "errors", "failed"},
         targets' \in SUBSET tables, PlaceOK'
  PROVE  ShowInv'
<1>1. UNCHANGED <<cmd, storeVars, histVars>>
  OBVIOUS
<1>2. TypeOK'
  BY <1>1, SurroundingsKept DEF ShowInv, TypeOK, storeVars, Hits
<1>3. FoundOK'
  BY CmdKept DEF ShowInv, FoundOK, histVars
<1>4. CountOK' /\ NothingMissed' /\ ShownIsSound' /\ TotalsWithin'
  BY DEF CountOK, NothingMissed, ShownIsSound, TotalsWithin, ShowsKpis
<1>5. QED
  BY <1>1, <1>2, <1>3, <1>4, SurroundingsKept DEF ShowInv

LEMMA FailStep ==
  ASSUME ShowInv, Fail, UNCHANGED <<cmd, storeVars, histVars>>
  PROVE  ShowInv'
<1>1. pc' = "failed" /\ UNCHANGED <<targets, found, total>>
  BY DEF Fail
<1>2. PlaceOK'
  BY <1>1 DEF PlaceOK
<1>3. targets' \in SUBSET tables
  BY <1>1 DEF ShowInv, TypeOK
<1>4. QED
  BY <1>1, <1>2, <1>3, QuietStep

LEMMA StartStep ==
  ASSUME ShowInv, Start
  PROVE  ShowInv'
<1>1. UNCHANGED <<cmd, storeVars, histVars>> /\ pc = "start"
  BY DEF Start
<1>2. CASE ~Fail
  <2>1. /\ pc' = FirstQuery /\ targets' = {} /\ UNCHANGED <<found, total, shown>>
        /\ cmd.show = "kpis" => ValidFlags
    BY <1>2 DEF Start, Goto
  <2>2. PossibleCommand(cmd)
    BY ShowAssumption DEF ShowInv, TypeOK
  <2>3. Given(cmd.name) => cmd.show = "kpis" /\ cmd.name \in Kpis
    BY <2>2 DEF PossibleCommand, Given
  <2>4. Given(cmd.category) => cmd.show = "kpis" /\ cmd.category \in Categories
    BY <2>2 DEF PossibleCommand, Given
  <2>5. Given(cmd.category) => ~Given(cmd.name)
    BY <2>1, <2>4 DEF ValidFlags
  <2>6. found = {} /\ total = <<>>
    BY <1>1 DEF ShowInv, PlaceOK
  <2>7. /\ cmd.show \in {"kpis", "clusters", "categories", "errors"}
        /\ FirstQuery \in {"category", "lookup", "list", "categories", "errors"}
    BY <2>2 DEF PossibleCommand, FirstQuery
  <2>8. PlaceOK'
    BY <1>1, <2>1, <2>3, <2>4, <2>5, <2>6, <2>7 DEF PlaceOK, FirstQuery, Given
  <2>9. QED
    BY <1>1, <2>1, <2>7, <2>8, QuietStep
<1>3. QED
  BY <1>1, <1>2, FailStep

\* The tables that the command goes on to read hold all it has to find.
LEMMA ScanStarts ==
  ASSUME ShowInv, UNCHANGED <<cmd, storeVars, histVars, found, total>>,
         pc \in {"category", "lookup", "list"}, pc' = "scan", targets' \in SUBSET tables,
         cmd.show = "kpis" => \A j \in always : Wanted(j) => j.row.table \in targets',
         cmd.show = "clusters" => \A j \in always : j.row.table \in targets'
  PROVE  ShowInv'
<1>1. UNCHANGED <<cmd, storeVars, histVars>>
  OBVIOUS
<1>2. found' = {} /\ total' = <<>> /\ always' = always
  BY DEF ShowInv, PlaceOK, histVars
<1>3. TypeOK'
  BY <1>1, SurroundingsKept DEF ShowInv, TypeOK, storeVars, Hits
<1>4. FoundOK'
  BY <1>2, CmdKept DEF FoundOK
<1>5. CountOK'
  BY <1>2 DEF CountOK
<1>6. PlaceOK' /\ NothingMissed' /\ ShownIsSound' /\ TotalsWithin'
  BY DEF PlaceOK, NothingMissed, ShownIsSound, TotalsWithin, ShowsKpis
<1>7. QED
  BY <1>1, <1>3, <1>4, <1>5, <1>6, SurroundingsKept DEF ShowInv

LEMMA ReachSteps ==
  ASSUME ShowInv, ValidateCategory \/ LookupKpi \/ ListTables
  PROVE  ShowInv'
<1>1. \A j \in always : j \in Hits /\ Findable(j.row)
  BY DEF ShowInv, HistoryOK, InReach, TypeOK, Hits
<1>2. Registered \subseteq tables /\ Uncategorized \in tables /\ \A k \in Kpis : registry[k] \in tables
  BY DEF ShowInv, StoreInv, TablesThere, Registered
<1>3. CASE ValidateCategory /\ ~Fail
  <2>1. /\ pc = "category" /\ pc' = "scan" /\ targets' = {cmd.category}
        /\ cmd.category \in Registered
        /\ UNCHANGED <<cmd, storeVars, histVars, found, total>>
    BY <1>3 DEF ValidateCategory, Goto
  <2>2. cmd.show = "kpis" /\ cmd.category \in Categories /\ ~Given(cmd.name)
    BY <2>1 DEF ShowInv, PlaceOK
  <2>3. Given(cmd.category)
    BY <2>2, ShowAssumption DEF Given
  <2>4. \A j \in always : j.row.table \in targets'
    BY <1>1, <2>1, <2>2, <2>3 DEF Findable
  <2>5. QED
    BY <1>2, <2>1, <2>4, ScanStarts
<1>4. CASE LookupKpi
  <2>1. /\ pc = "lookup" /\ pc' = "scan" /\ targets' = {registry[cmd.name]}
        /\ UNCHANGED <<cmd, storeVars, histVars, found, total>>
    BY <1>4 DEF LookupKpi, Goto
  <2>2. cmd.show = "kpis" /\ cmd.name \in Kpis /\ Given(cmd.name)
    BY <2>1, ShowAssumption DEF ShowInv, PlaceOK, Given
  <2>3. \A j \in always : Wanted(j) => j.row.table \in targets'
    BY <1>1, <2>1, <2>2 DEF Findable, Wanted
  <2>4. QED
    BY <1>2, <2>1, <2>2, <2>3, ScanStarts
<1>5. CASE ListTables
  <2>1. /\ pc = "list" /\ pc' = "scan" /\ targets' = {Uncategorized} \cup Registered
        /\ UNCHANGED <<cmd, storeVars, histVars, found, total>>
    BY <1>5 DEF ListTables, Goto
  <2>2. ~Given(cmd.name) /\ ~Given(cmd.category)
    BY <2>1 DEF ShowInv, PlaceOK
  <2>3. \A j \in always : j.row.table \in targets'
    BY <1>1, <2>1, <2>2 DEF Findable
  <2>4. QED
    BY <1>2, <2>1, <2>3, ScanStarts
<1>6. CASE Fail /\ ValidateCategory
  BY <1>6, FailStep DEF ValidateCategory
<1>7. QED
  BY <1>3, <1>4, <1>5, <1>6

LEMMA OtherListings ==
  ASSUME ShowInv, ShowCategories \/ ShowErrors
  PROVE  ShowInv'
<1>1. /\ pc' = "done" /\ targets' = {} /\ cmd.show \in {"categories", "errors"}
      /\ UNCHANGED <<cmd, storeVars, histVars, found, total>>
  BY DEF ShowCategories, ShowErrors, Show, ShowInv, PlaceOK
<1>2. UNCHANGED <<cmd, storeVars, histVars>>
  BY <1>1
<1>3. TypeOK'
  BY <1>1, <1>2, SurroundingsKept DEF ShowInv, TypeOK, Hits
<1>4. FoundOK'
  BY <1>1, CmdKept DEF ShowInv, FoundOK, histVars
<1>5. PlaceOK' /\ CountOK' /\ NothingMissed' /\ ShownIsSound' /\ TotalsWithin'
  BY <1>1 DEF PlaceOK, CountOK, NothingMissed, ShownIsSound, TotalsWithin, ShowsKpis
<1>6. QED
  BY <1>2, <1>3, <1>4, <1>5, SurroundingsKept DEF ShowInv

-----------------------------------------------------------------------------
(***************************************************************************)
(* A turn of queryAll's loop.                                              *)
(***************************************************************************)

\* Sorting and cutting leave out only what comes after all that they keep.
LEMMA CutKeepsTheFirst ==
  ASSUME NEW results \in SUBSET Hits, NEW kept \in Cut(results), cmd.limit \in Int
  PROVE  /\ kept \subseteq results
         /\ cmd.limit > 0 => Cardinality(kept) <= cmd.limit
         /\ \A j \in results : \/ j \in kept
                               \/ /\ Cardinality(kept) = cmd.limit
                                  /\ \A i \in kept : ~ComesBefore(j, i)
<1>1. Cardinality(results) \in Nat
  BY HitCounts
<1>2. CASE cmd.limit > 0 /\ Cardinality(results) > cmd.limit
  <2>1. /\ kept \in SUBSET results /\ Cardinality(kept) = cmd.limit
        /\ \A i \in kept, j \in results \ kept : ~ComesBefore(j, i)
    BY <1>2 DEF Cut, kSubset
  <2>2. QED
    BY <2>1
<1>3. CASE ~(cmd.limit > 0 /\ Cardinality(results) > cmd.limit)
  BY <1>1, <1>3 DEF Cut
<1>4. QED
  BY <1>2, <1>3

LEMMA QueryTableStep ==
  ASSUME ShowInv, NEW t \in Tables, QueryTable(t)
  PROVE  ShowInv'
<1> DEFINE now == found \cup Selected(t)
<1>1. /\ pc = "scan" /\ cmd.show = "kpis" /\ t \in targets
      /\ found' = now /\ UNCHANGED <<cmd, total, storeVars, histVars>>
      /\ UNCHANGED <<cmd, storeVars, histVars>>
  BY DEF QueryTable
<1>2. cmd \in Commands /\ cmd' = cmd /\ cmd.limit \in Int
  BY <1>1, ShowAssumption DEF ShowInv, TypeOK, PossibleCommand
<1>3. /\ Joined \subseteq Hits /\ Joined \subseteq ever /\ always \subseteq Joined
      /\ ever \in SUBSET Hits
  BY JoinedMeaning DEF ShowInv, StoreInv, HistoryOK, InReach, TypeOK, Hits
<1>4. now \in SUBSET Hits /\ \A j \in now : j \in ever /\ Matches(j)
  BY <1>3 DEF Selected, ShowInv, FoundOK, TypeOK, Hits
<1>5. \A j \in always : Wanted(j) => j \in now \/ j.row.table \in targets \ {t}
  <2> SUFFICES ASSUME NEW j \in always, Wanted(j), j \notin found
               PROVE  j \in now \/ j.row.table \in targets \ {t}
    OBVIOUS
  <2>1. j.row.table \in targets
    BY <1>1 DEF ShowInv, FoundOK
  <2>2. Matches(j) /\ j \in Joined
    BY <1>2, <1>3, FiltersSound
  <2>3. QED
    BY <2>1, <2>2 DEF Selected
<1>6. /\ targets' = targets \ {t}
      /\ IF targets = {t} THEN pc' = "done" /\ shown' \in Cut(now) ELSE UNCHANGED pc
  <2>1. CASE targets = {t}
    BY <1>1, <2>1 DEF QueryTable, Show
  <2>2. CASE targets # {t}
    BY <1>1, <2>2 DEF QueryTable
  <2>3. QED
    BY <2>1, <2>2
<1>7. found' \in SUBSET Hits /\ \A j \in found' : j \in ever /\ Matches(j)
  BY <1>1, <1>4
<1>8. TypeOK'
  BY <1>1, <1>6, <1>7, SurroundingsKept DEF ShowInv, TypeOK, storeVars, Hits
<1>9. FoundOK'
  <2>1. \A j \in found' : j \in ever' /\ Matches(j)'
    BY <1>1, <1>7, CmdKept DEF histVars
  <2>2. \A j \in always' : Wanted(j)' => j \in found' \/ j.row.table \in targets'
    BY <1>1, <1>5, <1>6, CmdKept DEF histVars
  <2>3. QED
    BY <2>1, <2>2 DEF FoundOK
<1>10. PlaceOK' /\ CountOK' /\ TotalsWithin'
  BY <1>1, <1>6 DEF PlaceOK, CountOK, TotalsWithin
<1>11. CASE targets # {t}
  <2>1. NothingMissed' /\ ShownIsSound'
    BY <1>1, <1>6, <1>11 DEF NothingMissed, ShownIsSound, ShowsKpis
  <2>2. QED
    BY <1>1, <1>8, <1>9, <1>10, <2>1, SurroundingsKept DEF ShowInv
<1>12. CASE targets = {t}
  <2>1. /\ shown' \subseteq now
        /\ cmd.limit > 0 => Cardinality(shown') <= cmd.limit
        /\ \A j \in now : \/ j \in shown'
                          \/ /\ Cardinality(shown') = cmd.limit
                             /\ \A i \in shown' : ~ComesBefore(j, i)
    BY <1>2, <1>4, <1>6, <1>12, CutKeepsTheFirst
  <2>2. \A j \in always : Wanted(j) => j \in now
    BY <1>5, <1>12
  <2>3. NothingMissed'
    BY <1>1, <2>1, <2>2, CmdKept DEF NothingMissed, histVars
  <2>4. \A j \in shown' :
          /\ j \in ever
          /\ Given(cmd.since) => Time(j) > TimeFilter(cmd.since) - 2
          /\ Given(cmd.until) => Time(j) <= TimeFilter(cmd.until)
          /\ Given(cmd.cluster) => j.name = cmd.cluster
          /\ LabelsMatch(j.row.point)
    BY <1>2, <1>4, <2>1, FiltersSound
  <2>5. ShownIsSound'
    BY <1>1, <2>1, <2>4, LabelsKept DEF ShownIsSound, histVars
  <2>6. QED
    BY <1>1, <1>8, <1>9, <1>10, <2>3, <2>5, SurroundingsKept DEF ShowInv
<1>13. QED
  BY <1>11, <1>12

-----------------------------------------------------------------------------
(***************************************************************************)
(* A turn of listClusters' loop.                                           *)
(***************************************************************************)
InTable(hits, t, id) == {j \in hits : j.row.cluster = id /\ j.row.table = t}

\* A cluster's count in a table is the number of its hits there.
LEMMA CountIsHits ==
  ASSUME StoreInv, NEW t, NEW n \in Names, clusters[n] # 0
  PROVE  CountIn(t, clusters[n]) = Cardinality(InTable(Joined, t, clusters[n]))
<1> DEFINE id == clusters[n]
           there == {r \in RowsOf(id) : r.table = t}
           hits == InTable(Joined, t, id)
           f == [j \in hits |-> j.row]
<1>1. \A j : j \in Joined <=> j \in Hits /\ j.row \in rows /\ clusters[j.name] = j.row.cluster
  BY JoinedMeaning DEF StoreInv
<1>2. Joined \subseteq Hits
  BY JoinedMeaning DEF StoreInv
<1>3. \A j \in hits : /\ j.row \in there /\ j.name = n
                      /\ j = [row |-> j.row, name |-> j.name]
  BY <1>1 DEF InTable, RowsOf, Hits, StoreInv, IdsDiffer
<1>4. ASSUME NEW r \in there
      PROVE  [row |-> r, name |-> n] \in hits
  <2>1. r \in rows /\ r \in Rows /\ r.cluster = id /\ r.table = t
    BY DEF RowsOf, StoreInv, StoreTypeOK
  <2>2. [row |-> r, name |-> n] \in Hits
    BY <2>1 DEF Hits
  <2>3. QED
    BY <1>1, <2>1, <2>2 DEF InTable
<1>5. f \in [hits -> there]
  BY <1>3
<1>6. ASSUME NEW i \in hits, NEW j \in hits, f[i] = f[j]
      PROVE  i = j
  <2>1. i.row = j.row
    BY <1>6
  <2>2. QED
    BY <1>3, <2>1
<1>7. \A r \in there : \E j \in hits : f[j] = r
  BY <1>4
<1> HIDE DEF hits, there, f
<1>8. ExistsBijection(hits, there)
  BY <1>5, <1>6, <1>7
     DEF ExistsBijection, Bijection, Injection, IsInjective, Surjection
<1>9. IsFiniteSet(hits)
  BY <1>2, HitsFinite, FS_Subset DEF hits, InTable
<1>10. Cardinality(there) = Cardinality(hits)
  BY <1>8, <1>9, FS_Bijection
<1>11. QED
  BY <1>10 DEF CountIn, there, hits

\* Reading another table adds its hits.
LEMMA ReadGrows ==
  ASSUME NEW hits \in SUBSET Hits, NEW t \in targets, targets' = targets \ {t}, NEW id
  PROVE  Cardinality({j \in hits : j.row.cluster = id /\ j.row.table \notin targets'})
           = Cardinality(Read(hits, id)) + Cardinality(InTable(hits, t, id))
<1> DEFINE after == {j \in hits : j.row.cluster = id /\ j.row.table \notin targets'}
<1>1. after = Read(hits, id) \cup InTable(hits, t, id)
  BY DEF Read, InTable
<1>2. Read(hits, id) \cap InTable(hits, t, id) = {}
  BY DEF Read, InTable
<1>3. Read(hits, id) \in SUBSET hits /\ InTable(hits, t, id) \in SUBSET hits
  BY DEF Read, InTable
<1>4. /\ IsFiniteSet(Read(hits, id)) /\ Cardinality(Read(hits, id)) \in Nat
      /\ IsFiniteSet(InTable(hits, t, id)) /\ Cardinality(InTable(hits, t, id)) \in Nat
  BY <1>3, HitCounts
<1>5. Cardinality(Read(hits, id) \cup InTable(hits, t, id))
        = Cardinality(Read(hits, id)) + Cardinality(InTable(hits, t, id))
          - Cardinality(Read(hits, id) \cap InTable(hits, t, id))
  BY <1>4, FS_Union
<1>6. Cardinality(Read(hits, id) \cap InTable(hits, t, id)) = 0
  BY <1>2, FS_EmptySet
<1> HIDE DEF after
<1>7. Cardinality(after) = Cardinality(Read(hits, id)) + Cardinality(InTable(hits, t, id))
  BY <1>1, <1>4, <1>5, <1>6
<1>8. QED
  BY <1>7 DEF after

\* The clusters asked for, and what is counted of them
LEMMA AskedMeaning ==
  ASSUME ShowInv
  PROVE  /\ Asked \subseteq Ids
         /\ \A id \in Asked : /\ \E n \in Names : AsksFor(n) /\ clusters[n] = id
                              /\ \A t : CountIn(t, id) = Cardinality(InTable(Joined, t, id))
         /\ \A j \in Joined : j.row.cluster \in Asked <=> AsksFor(j.name)
<1>1. PossibleCommand(cmd)
  BY ShowAssumption DEF ShowInv, TypeOK
<1>2. Given(cmd.cluster) => cmd.cluster \in Names
  BY <1>1 DEF PossibleCommand, Given
<1>3. \A n : n \in (IF Given(cmd.cluster) THEN {cmd.cluster} ELSE Names) <=> n \in Names /\ AsksFor(n)
  BY <1>2 DEF AsksFor
<1>4. \A id : id \in Asked <=> id # 0 /\ \E n \in Names : AsksFor(n) /\ clusters[n] = id
  BY <1>3 DEF Asked
<1>5. StoreInv /\ clusters \in [Names -> {0} \cup Ids]
  BY DEF ShowInv, StoreInv, StoreTypeOK
<1>6. Asked \subseteq Ids
  BY <1>4, <1>5
<1>7. \A id \in Asked : /\ \E n \in Names : AsksFor(n) /\ clusters[n] = id
                        /\ \A t : CountIn(t, id) = Cardinality(InTable(Joined, t, id))
  BY <1>4, <1>5, CountIsHits
<1>8. ASSUME NEW j \in Joined
      PROVE  j.row.cluster \in Asked <=> AsksFor(j.name)
  <2>1. j \in Hits /\ clusters[j.name] = j.row.cluster
    BY <1>5, JoinedMeaning DEF StoreInv
  <2>2. j.name \in Names /\ j.row.cluster \in Ids
    BY <2>1 DEF Hits, Rows
  <2>3. j.row.cluster # 0
    BY <2>2 DEF Ids
  <2>4. \A n \in Names : clusters[n] = j.row.cluster => n = j.name
    BY <1>5, <2>1, <2>2, <2>3 DEF StoreInv, IdsDiffer
  <2>5. QED
    BY <1>4, <2>1, <2>2, <2>3, <2>4
<1>9. QED
  BY <1>6, <1>7, <1>8

LEMMA CountTableStep ==
  ASSUME ShowInv, NEW t \in Tables, CountTable(t)
  PROVE  ShowInv'
<1>1. /\ pc = "scan" /\ cmd.show = "clusters" /\ t \in targets
      /\ total' = [id \in DOMAIN total \cup Asked |->
                     (IF id \in DOMAIN total THEN total[id] ELSE 0)
                       + (IF id \in Asked THEN CountIn(t, id) ELSE 0)]
      /\ UNCHANGED <<cmd, found, storeVars, histVars>>
      /\ UNCHANGED <<cmd, storeVars, histVars>>
  BY DEF CountTable
<1>2. /\ targets' = targets \ {t}
      /\ IF targets = {t} THEN pc' = "done" /\ shown' = total' ELSE UNCHANGED pc
  <2>1. CASE targets = {t}
    BY <1>1, <2>1 DEF CountTable, Show
  <2>2. CASE targets # {t}
    BY <1>1, <2>2 DEF CountTable
  <2>3. QED
    BY <2>1, <2>2
<1>3. /\ Joined \in SUBSET Hits /\ Joined \subseteq ever /\ always \subseteq Joined
      /\ ever \in SUBSET Hits /\ always \in SUBSET Hits
  BY JoinedMeaning DEF ShowInv, StoreInv, HistoryOK, InReach, TypeOK, Hits
<1>4. /\ total \in [DOMAIN total -> Nat]
      /\ \A id \in DOMAIN total : /\ Cardinality(Read(always, id)) <= total[id]
                                  /\ total[id] <= Cardinality(Read(ever, id))
      /\ \A j \in always : j.row.cluster \in DOMAIN total => AsksFor(j.name)
      /\ \A j \in always : AsksFor(j.name) =>
           j.row.cluster \in DOMAIN total \/ j.row.table \in targets
  BY <1>1 DEF ShowInv, CountOK
<1>5. DOMAIN total' = DOMAIN total \cup Asked /\ DOMAIN total \subseteq Ids
  BY <1>1 DEF ShowInv, TypeOK
<1> DEFINE After(hits, id) == {j \in hits : j.row.cluster = id /\ j.row.table \notin targets'}
<1>6. \A id :
        /\ Cardinality(After(always, id)) = Cardinality(Read(always, id)) + Cardinality(InTable(always, t, id))
        /\ Cardinality(After(ever, id)) = Cardinality(Read(ever, id)) + Cardinality(InTable(ever, t, id))
  BY <1>1, <1>2, <1>3, ReadGrows
<1>7. \A id : /\ Cardinality(InTable(always, t, id)) \in Nat
              /\ Cardinality(InTable(ever, t, id)) \in Nat
              /\ Cardinality(InTable(Joined, t, id)) \in Nat
              /\ Cardinality(InTable(always, t, id)) <= Cardinality(InTable(Joined, t, id))
              /\ Cardinality(InTable(Joined, t, id)) <= Cardinality(InTable(ever, t, id))
              /\ Cardinality(Read(always, id)) \in Nat
              /\ Cardinality(Read(ever, id)) \in Nat
  <2> TAKE id
  <2>1. /\ InTable(always, t, id) \in SUBSET InTable(Joined, t, id)
        /\ InTable(Joined, t, id) \in SUBSET InTable(ever, t, id)
        /\ InTable(Joined, t, id) \in SUBSET Hits /\ InTable(ever, t, id) \in SUBSET Hits
        /\ Read(always, id) \in SUBSET Hits /\ Read(ever, id) \in SUBSET Hits
    BY <1>3 DEF InTable, Read
  <2>2. QED
    BY <2>1, HitCounts
<1> HIDE DEF After
<1>8. ASSUME NEW id \in DOMAIN total'
      PROVE  /\ total'[id] \in Nat
             /\ Cardinality(After(always, id)) <= total'[id]
             /\ total'[id] <= Cardinality(After(ever, id))
  <2>1. CASE id \in DOMAIN total /\ id \in Asked
    <3>1. total'[id] = total[id] + Cardinality(InTable(Joined, t, id)) /\ total[id] \in Nat
      BY <1>1, <1>4, <2>1, AskedMeaning
    <3>2. QED
      BY <1>4, <1>6, <1>7, <2>1, <3>1
  <2>2. CASE id \in DOMAIN total /\ id \notin Asked
    <3>1. total'[id] = total[id] + 0 /\ total[id] \in Nat
      BY <1>1, <1>4, <2>2
    <3>2. InTable(always, t, id) = {}
      BY <1>3, <1>4, <2>2, AskedMeaning DEF InTable
    <3>3. Cardinality(InTable(always, t, id)) = 0
      BY <3>2, FS_EmptySet
    <3>4. /\ Cardinality(Read(always, id)) <= total[id]
          /\ total[id] <= Cardinality(Read(ever, id))
      BY <1>4, <2>2
    <3>5. QED
      BY <1>6, <1>7, <3>1, <3>3, <3>4
  <2>3. CASE id \notin DOMAIN total /\ id \in Asked
    <3>1. total'[id] = 0 + Cardinality(InTable(Joined, t, id))
      BY <1>1, <2>3, AskedMeaning
    <3>2. Read(always, id) = {}
      BY <1>3, <1>4, <2>3, AskedMeaning DEF Read
    <3>3. Cardinality(Read(always, id)) = 0
      BY <3>2, FS_EmptySet
    <3>4. QED
      BY <1>6, <1>7, <3>1, <3>3
  <2>4. QED
    BY <1>5, <2>1, <2>2, <2>3
<1>9. \A j \in always : j.row.cluster \in DOMAIN total' <=> AsksFor(j.name)
  BY <1>3, <1>4, <1>5, AskedMeaning
<1>10. TypeOK'
  <2>1. DOMAIN total' \subseteq Ids
    BY <1>5, AskedMeaning
  <2>2. QED
    BY <1>1, <1>2, <2>1, SurroundingsKept DEF ShowInv, TypeOK, storeVars, Hits
<1>11. FoundOK' /\ PlaceOK' /\ NothingMissed' /\ ShownIsSound'
  <2>1. FoundOK'
    BY <1>1, CmdKept DEF ShowInv, FoundOK, histVars
  <2>2. QED
    BY <1>1, <1>2, <2>1 DEF PlaceOK, NothingMissed, ShownIsSound, ShowsKpis
<1>12. total' \in [DOMAIN total' -> Nat]
  <2>1. total' = [id \in DOMAIN total' |-> total'[id]]
    BY <1>1
  <2>2. QED
    BY <1>8, <2>1
<1>13. always' = always /\ ever' = ever
  BY <1>1 DEF histVars
<1>14. CASE targets # {t}
  <2>1. \A id \in DOMAIN total' : /\ Cardinality(Read(always, id)') <= total'[id]
                                  /\ total'[id] <= Cardinality(Read(ever, id)')
    BY <1>8, <1>13 DEF Read, After
  <2>2. \A j \in always' : (j.row.cluster \in DOMAIN total' <=> AsksFor(j.name)')
    BY <1>1, <1>9, <1>13, CmdKept
  <2>3. CountOK'
    BY <1>12, <2>1, <2>2 DEF CountOK
  <2>4. TotalsWithin'
    BY <1>1, <1>2, <1>14 DEF TotalsWithin
  <2>5. QED
    BY <1>1, <1>10, <1>11, <2>3, <2>4, SurroundingsKept DEF ShowInv
<1>15. CASE targets = {t}
  <2>1. /\ targets' = {} /\ pc' = "done" /\ shown' = total'
    BY <1>2, <1>15
  <2>2. \A id \in DOMAIN shown' :
          /\ Cardinality({j \in always' : j.row.cluster = id}) <= shown'[id]
          /\ shown'[id] <= Cardinality({j \in ever' : j.row.cluster = id})
    <3>1. \A id : /\ After(always, id) = {j \in always : j.row.cluster = id}
                  /\ After(ever, id) = {j \in ever : j.row.cluster = id}
      BY <2>1 DEF After
    <3>2. QED
      BY <1>8, <1>13, <2>1, <3>1
  <2>3. \A j \in always' : AsksFor(j.name) => j.row.cluster \in DOMAIN shown'
    BY <1>9, <1>13, <2>1
  <2>4. TotalsWithin'
    BY <1>1, <2>2, <2>3 DEF TotalsWithin, AsksFor
  <2>5. CountOK'
    BY <2>1 DEF CountOK
  <2>6. QED
    BY <1>1, <1>10, <1>11, <2>4, <2>5, SurroundingsKept DEF ShowInv
<1>16. QED
  BY <1>14, <1>15

-----------------------------------------------------------------------------
(***************************************************************************)
(* What changes beside the command, and the command that has ended.        *)
(***************************************************************************)
LEMMA InterfereStep ==
  ASSUME ShowInv, Interfere
  PROVE  ShowInv'
<1>1. /\ pc \notin {"start", "done", "failed"} /\ changes < MaxChanges /\ changes' = changes + 1
      /\ Write({{p} : p \in Points}) \/ Remove
      /\ UNCHANGED <<cmd, pc, targets, found, total, shown>>
      /\ always' = always \cap InReach' /\ ever' = ever \cup Joined'
  BY DEF Interfere, Ended, readVars
<1>2. StoreInv'
  BY <1>1, WriteStep, RemoveStep DEF ShowInv
<1>3. tables \subseteq tables'
  BY <1>1 DEF Write, AddCluster, AddTable, AddToRegistry, AddRows, AddError, Remove, RemoveRows,
              RemoveCluster, RemoveFromRegistry, RemoveErrors
<1>4. Joined' \subseteq Hits
  <2>1. (StoreTypeOK => Joined \subseteq Hits)'
    BY JoinedMeaning, PTL
  <2>2. QED
    BY <1>2, <2>1 DEF StoreInv, Hits
<1>5. /\ always' \subseteq always /\ ever \subseteq ever' /\ always' \subseteq ever'
      /\ always' \in SUBSET Hits /\ ever \in SUBSET Hits /\ ever' \in SUBSET Hits
      /\ always \in SUBSET Hits
  BY <1>1, <1>4 DEF ShowInv, TypeOK, Hits
<1>6. HistoryOK'
  BY <1>1 DEF HistoryOK
<1>7. TypeOK'
  BY <1>1, <1>2, <1>3, <1>5, ShowAssumption DEF ShowInv, TypeOK, StoreInv, Hits
<1>8. PlaceOK'
  BY <1>1 DEF ShowInv, PlaceOK
<1>9. FoundOK'
  BY <1>1, <1>5, CmdKept DEF ShowInv, FoundOK
<1>10. NothingMissed' /\ ShownIsSound' /\ TotalsWithin'
  BY <1>1 DEF NothingMissed, ShownIsSound, TotalsWithin, ShowsKpis
<1>11. CountOK'
  <2> SUFFICES ASSUME pc' = "scan", cmd'.show = "clusters"
               PROVE  CountOK'
    BY DEF CountOK
  <2>1. CountOK /\ pc = "scan" /\ cmd.show = "clusters"
    BY <1>1 DEF ShowInv
  <2>2. \A id : /\ Cardinality(Read(always', id)) \in Nat
                /\ Cardinality(Read(always, id)) \in Nat
                /\ Cardinality(Read(ever, id)) \in Nat
                /\ Cardinality(Read(ever', id)) \in Nat
                /\ Cardinality(Read(always', id)) <= Cardinality(Read(always, id))
                /\ Cardinality(Read(ever, id)) <= Cardinality(Read(ever', id))
    <3> TAKE id
    <3>1. /\ Read(always', id) \in SUBSET Read(always, id)
          /\ Read(ever, id) \in SUBSET Read(ever', id)
          /\ Read(always, id) \in SUBSET Hits /\ Read(ever', id) \in SUBSET Hits
      BY <1>5 DEF Read
    <3>2. QED
      BY <3>1, HitCounts
  <2>3. \A id \in DOMAIN total : /\ total[id] \in Nat
                                 /\ Cardinality(Read(always, id)) <= total[id]
                                 /\ total[id] <= Cardinality(Read(ever, id))
    BY <2>1 DEF CountOK
  <2>4. \A id \in DOMAIN total : /\ Cardinality(Read(always', id)) <= total[id]
                                 /\ total[id] <= Cardinality(Read(ever', id))
    BY <2>2, <2>3
  <2>5. \A id \in DOMAIN total' : /\ Cardinality(Read(always, id)') <= total'[id]
                                  /\ total'[id] <= Cardinality(Read(ever, id)')
    BY <1>1, <2>4 DEF Read
  <2>6. /\ \A j \in always' : j.row.cluster \in DOMAIN total' => AsksFor(j.name)'
        /\ \A j \in always' : AsksFor(j.name)' =>
             j.row.cluster \in DOMAIN total' \/ j.row.table \in targets'
    BY <1>1, <1>5, <2>1, CmdKept DEF CountOK
  <2>7. QED
    BY <1>1, <2>1, <2>5, <2>6 DEF CountOK
<1>12. QED
  BY <1>2, <1>6, <1>7, <1>8, <1>9, <1>10, <1>11 DEF ShowInv

LEMMA ShowInvKept ==
  ASSUME ShowInv, UNCHANGED vars
  PROVE  ShowInv'
<1>1. UNCHANGED <<cmd, storeVars, histVars>> /\ UNCHANGED <<pc, targets, found, total, shown>>
      /\ always' = always /\ ever' = ever
  BY DEF vars, readVars, histVars
<1>2. TypeOK' /\ PlaceOK'
  BY <1>1, SurroundingsKept DEF ShowInv, TypeOK, PlaceOK, storeVars, Hits
<1>3. FoundOK' /\ NothingMissed'
  BY <1>1, CmdKept DEF ShowInv, FoundOK, NothingMissed, ShowsKpis
<1>4. ShownIsSound'
  BY <1>1, LabelsKept DEF ShowInv, ShownIsSound, ShowsKpis
<1>5. TotalsWithin'
  BY <1>1 DEF ShowInv, TotalsWithin
<1>6. CountOK'
  <2>1. \A id : Read(always, id)' = Read(always, id) /\ Read(ever, id)' = Read(ever, id)
    BY <1>1 DEF Read
  <2>2. QED
    BY <1>1, <2>1, CmdKept DEF ShowInv, CountOK
<1>7. QED
  BY <1>1, <1>2, <1>3, <1>4, <1>5, <1>6, SurroundingsKept DEF ShowInv

-----------------------------------------------------------------------------
(***************************************************************************)
(* The invariant and what it gives.                                        *)
(***************************************************************************)

\* The invariant of a db show command beside writers and db remove
THEOREM ShowInvariant == Spec => []ShowInv
<1>1. ShowInv /\ [Next]_vars => ShowInv'
  <2> SUFFICES ASSUME ShowInv, [Next]_vars
               PROVE  ShowInv'
    OBVIOUS
  <2>1. CASE StatementFails
    BY <2>1, FailStep DEF StatementFails
  <2>2. CASE Terminated \/ UNCHANGED vars
    BY <2>2, ShowInvKept DEF Terminated
  <2>3. QED
    BY <2>1, <2>2, StartStep, ReachSteps, QueryTableStep, CountTableStep, OtherListings,
       InterfereStep DEF Next
<1>2. QED
  BY <1>1, ShowInvInit, PTL DEF Spec

\* The variables of the command and of the database keep their types.
THEOREM TypeCorrect == Spec => []TypeOK
<1>1. ShowInv => TypeOK
  BY DEF ShowInv
<1>2. QED
  BY <1>1, ShowInvariant, PTL

\* db show kpis shows every row asked for that was there all the time, or fills
\* its limit with rows that do not come after it, whatever statements of others
\* come between its own.
THEOREM NothingIsMissed == Spec => []NothingMissed
<1>1. ShowInv => NothingMissed
  BY DEF ShowInv
<1>2. QED
  BY <1>1, ShowInvariant, PTL

\* db show kpis shows only rows that were there at some time and that its filters
\* let through, to within the second they are cut to.
THEOREM ShownAlwaysSound == Spec => []ShownIsSound
<1>1. ShowInv => ShownIsSound
  BY DEF ShowInv
<1>2. QED
  BY <1>1, ShowInvariant, PTL

\* db show clusters counts all rows that were there all the time and none that
\* never was, none twice, in as many tables as there are.
THEOREM TotalsAlwaysWithin == Spec => []TotalsWithin
<1>1. ShowInv => TotalsWithin
  BY DEF ShowInv
<1>2. QED
  BY <1>1, ShowInvariant, PTL
=============================================================================
