---------------------------- MODULE KpiStoreProofs ----------------------------
(***************************************************************************)
(* Proofs about KpiStore: what holds of the database whoever writes to it, *)
(* for every set of KPIs, categories, cluster names and points.            *)
(***************************************************************************)
EXTENDS KpiStore, TLAPS

\* Ids are those handed out, and no two clusters have one in common.
IdsDiffer ==
  /\ \A n \in Names : clusters[n] <= lastId
  /\ \A n, m \in Names : clusters[n] = clusters[m] => n = m \/ clusters[n] = 0

\* Rows, and the KPIs of the registry, are in tables that exist.
TablesThere ==
  /\ Uncategorized \in tables
  /\ \A k \in Kpis : registry[k] \in tables
  /\ \A r \in rows : r.table \in tables

StoreInv == StoreTypeOK /\ IdsDiffer /\ TablesThere

LEMMA StoreInvInit == StoreInit => StoreInv
BY KpiStoreAssumption DEF StoreInit, StoreInv, StoreTypeOK, IdsDiffer, TablesThere, Tables

\* Rows come under ids that were handed out.
LEMMA RowsAdded ==
  ASSUME StoreInv, NEW t \in Tables, NEW k \in Kpis, NEW id \in Ids, NEW points \in SUBSET Points,
         AddRows(t, k, id, points)
  PROVE  StoreInv'
<1> DEFINE new == {[table |-> t, kpi |-> k, cluster |-> id, point |-> p] : p \in points}
<1>1. new \subseteq Rows /\ \A r \in new : r.table = t
  BY DEF Rows
<1>2. t \in tables /\ rows' = rows \cup new /\ UNCHANGED <<clusters, lastId, tables, registry, errored>>
  BY DEF AddRows
<1> HIDE DEF new
<1>3. QED
  BY <1>1, <1>2 DEF StoreInv, StoreTypeOK, IdsDiffer, TablesThere

LEMMA WriteStep ==
  ASSUME StoreInv, NEW pointChoices \in SUBSET SUBSET Points, Write(pointChoices)
  PROVE  StoreInv'
<1>1. ASSUME NEW n \in Names, AddCluster(n)
      PROVE  StoreInv'
  <2>1. /\ lastId' = lastId + 1 /\ lastId' \in Ids /\ lastId \in Nat
        /\ clusters' = [clusters EXCEPT ![n] = lastId']
        /\ UNCHANGED <<tables, registry, rows, errored>>
    BY <1>1, KpiStoreAssumption DEF AddCluster, StoreInv, StoreTypeOK, Ids
  <2>2. \A m \in Names : clusters'[m] = IF m = n THEN lastId + 1 ELSE clusters[m]
    BY <2>1 DEF StoreInv, StoreTypeOK
  <2>3. \A m \in Names : clusters[m] \in Nat /\ clusters[m] <= lastId
    BY DEF StoreInv, StoreTypeOK, IdsDiffer, Ids
  <2>4. IdsDiffer'
    BY <2>1, <2>2, <2>3 DEF StoreInv, IdsDiffer
  <2>5. StoreTypeOK'
    BY <2>1 DEF StoreInv, StoreTypeOK, Ids
  <2>6. QED
    BY <2>1, <2>4, <2>5 DEF StoreInv, TablesThere
<1>2. ASSUME NEW t \in Categories, AddTable(t)
      PROVE  StoreInv'
  BY <1>2 DEF AddTable, StoreInv, StoreTypeOK, IdsDiffer, TablesThere, Tables
<1>3. ASSUME NEW k \in Kpis, NEW t \in Categories, AddToRegistry(k, t)
      PROVE  StoreInv'
  BY <1>3 DEF AddToRegistry, StoreInv, StoreTypeOK, IdsDiffer, TablesThere, Tables
<1>4. ASSUME NEW k \in Kpis, AddError(k)
      PROVE  StoreInv'
  BY <1>4 DEF AddError, StoreInv, StoreTypeOK, IdsDiffer, TablesThere
<1>5. QED
  BY <1>1, <1>2, <1>3, <1>4, RowsAdded DEF Write

LEMMA RemoveStep ==
  ASSUME StoreInv, Remove
  PROVE  StoreInv'
<1>1. ASSUME NEW t, NEW kpis, NEW ids, RemoveRows(t, kpis, ids)
      PROVE  StoreInv'
  <2>1. rows' \subseteq rows
    BY <1>1 DEF RemoveRows
  <2>2. QED
    BY <1>1, <2>1 DEF RemoveRows, StoreInv, StoreTypeOK, IdsDiffer, TablesThere
<1>2. ASSUME NEW id \in Ids, RemoveCluster(id)
      PROVE  StoreInv'
  <2>1. \A n \in Names : clusters'[n] = clusters[n] \/ clusters'[n] = 0
    BY <1>2 DEF RemoveCluster
  <2>2. clusters' \in [Names -> {0} \cup Ids] /\ 0 <= lastId
    BY <1>2 DEF RemoveCluster, StoreInv, StoreTypeOK
  <2>3. QED
    BY <1>2, <2>1, <2>2 DEF RemoveCluster, StoreInv, StoreTypeOK, IdsDiffer, TablesThere
<1>3. ASSUME NEW t \in Categories, RemoveFromRegistry(t)
      PROVE  StoreInv'
  <2>1. /\ \A k \in Kpis : registry'[k] = registry[k] \/ registry'[k] = Uncategorized
        /\ registry' \in [Kpis -> Tables]
    BY <1>3 DEF RemoveFromRegistry, StoreInv, StoreTypeOK, Tables
  <2>2. QED
    BY <1>3, <2>1 DEF RemoveFromRegistry, StoreInv, StoreTypeOK, IdsDiffer, TablesThere
<1>4. ASSUME NEW kpis, RemoveErrors(kpis)
      PROVE  StoreInv'
  BY <1>4 DEF RemoveErrors, StoreInv, StoreTypeOK, IdsDiffer, TablesThere
<1>5. QED
  BY <1>1, <1>2, <1>3, <1>4 DEF Remove

LEMMA StoreInvKept ==
  ASSUME StoreInv, UNCHANGED storeVars
  PROVE  StoreInv'
BY DEF StoreInv, StoreTypeOK, IdsDiffer, TablesThere, storeVars

\* Whatever collectors and db remove do, no two clusters share an id, and rows and
\* registry refer to tables that exist.
THEOREM StoreInvariant == StoreSpec => []StoreInv
<1>1. StoreInv /\ [StoreNext]_storeVars => StoreInv'
  BY WriteStep, RemoveStep, StoreInvKept DEF StoreNext
<1>2. QED
  BY <1>1, StoreInvInit, PTL DEF StoreSpec
=============================================================================
