--------------------------- MODULE CollectorProofs ---------------------------
(***************************************************************************)
(* Proofs about Collector, for every set of KPIs, every choice of          *)
(* frequencies and every duration.                                         *)
(***************************************************************************)
EXTENDS Collector, FiniteSetTheorems, TLAPS

\* A frequency is positive, so no group has the name of the main goroutine
\* (GetEffectiveFrequency falls back to a positive --frequency).
LEMMA GroupsPositive ==
  /\ \A g \in Groups : g \in Nat /\ g > 0 /\ g # Main /\ g \in Executors
  /\ Main \in Executors
BY InputAssumption DEF Groups, Repeating, EffectiveFrequency, Executors, Main

\* What RunQueries is handed are KPIs of the job.
LEMMA BatchIsKpis ==
  /\ \A g \in Groups : Group(g) \subseteq Kpis
  /\ \A e \in Executors : Batch(e) \in SUBSET Kpis
BY InputAssumption DEF Group, Repeating, Batch

\* The KPIs of a job are the run-once ones and those of its groups
\* (splitRunOnceQueries and groupKPIsByFrequency lose none).
LEMMA GroupsCover == \A k \in Kpis : k \in RunOnce \/ \E g \in Groups : k \in Group(g)
BY DEF Groups, Group, Repeating

LEMMA CountedType == \A n \in 0 .. MaxSamples : Counted(n) \in 0 .. MaxSamples
BY BoundAssumption DEF Counted

-----------------------------------------------------------------------------
\* The goroutines that live are finitely many, none more than the groups.
LEMMA LiveFinite ==
  /\ IsFiniteSet(Groups) /\ IsFiniteSet(Live) /\ Live \subseteq Groups
  /\ Cardinality(Groups) \in Nat /\ Cardinality(Live) \in 0 .. Cardinality(Groups)
<1> DEFINE f == [k \in Repeating |-> EffectiveFrequency(k)]
<1>1. IsFiniteSet(Repeating)
  BY InputAssumption, FS_Subset DEF Repeating
<1>2. f \in Surjection(Repeating, Groups)
  BY DEF Surjection, Groups
<1>3. IsFiniteSet(Groups)
  BY ONLY <1>1, <1>2, FS_Surjection
<1>4. Live \subseteq Groups
  BY DEF Live
<1>5. IsFiniteSet(Live) /\ Cardinality(Live) <= Cardinality(Groups)
  BY ONLY <1>3, <1>4, FS_Subset
<1>6. QED
  BY <1>3, <1>4, <1>5, FS_CardinalityType

\* The goroutine of one group moves on: the live ones gain it, lose it or stay.
LEMMA LiveMoves ==
  ASSUME TypeOK, NEW g \in Groups, NEW place, loop' = [loop EXCEPT ![g] = place]
  PROVE  LET living == {"created", "querying", "select"}
         IN Cardinality(Live') =
              IF loop[g] \in living
              THEN IF place \in living THEN Cardinality(Live) ELSE Cardinality(Live) - 1
              ELSE IF place \in living THEN Cardinality(Live) + 1 ELSE Cardinality(Live)
<1> DEFINE living == {"created", "querying", "select"}
<1>1. /\ loop'[g] = place
      /\ \A h \in Groups : h # g => loop'[h] = loop[h]
  BY DEF TypeOK
<1>2. (g \in Live <=> loop[g] \in living) /\ (g \in Live' <=> place \in living)
  BY <1>1 DEF Live
<1>3. \A h \in Groups : h # g => (h \in Live' <=> h \in Live)
  BY <1>1 DEF Live
<1>4. Live \subseteq Groups /\ Live' \subseteq Groups
  BY DEF Live
<1> HIDE DEF living
<1>5. CASE place \in living
  <2>1. Live' = Live \cup {g}
    BY <1>2, <1>3, <1>4, <1>5
  <2>2. Cardinality(Live') = IF g \in Live THEN Cardinality(Live) ELSE Cardinality(Live) + 1
    BY ONLY <2>1, LiveFinite, FS_AddElement
  <2>3. QED
    BY <1>2, <1>5, <2>2 DEF living
<1>6. CASE place \notin living
  <2>1. Live' = Live \ {g}
    BY <1>2, <1>3, <1>4, <1>6
  <2>2. Cardinality(Live') = IF g \in Live THEN Cardinality(Live) - 1 ELSE Cardinality(Live)
    BY ONLY <2>1, LiveFinite, FS_RemoveElement
  <2>3. QED
    BY <1>2, <1>6, <2>2 DEF living
<1>7. QED
  BY <1>5, <1>6

\* Every step keeps the WaitGroup's counter exact.
LEMMA CounterStep ==
  ASSUME TypeOK, LifecycleInv, [Next]_vars
  PROVE  wg' = Cardinality(Live')
<1> USE DEF TypeOK, LifecycleInv, jobVars, clockVars, stopVars, groupVars, queryVars
<1>1. wg = Cardinality(Live) /\ Cardinality(Live) \in Nat
  BY LiveFinite DEF LifecycleInv
<1>2. (loop' = loop /\ wg' = wg) => wg' = Cardinality(Live')
  BY <1>1 DEF Live
<1>3. CASE Opening \/ RunOnceEnds \/ ArmTimer \/ SelectTimer \/ SelectInterrupt \/ AllStopped
  BY <1>2, <1>3 DEF Opening, OpenDatabase, OpenDatabaseFails, RunOnceEnds, ArmTimer, SelectTimer,
     SelectInterrupt, AllStopped
<1>4. ASSUME NEW g \in Groups, Spawn(g)
      PROVE  wg' = Cardinality(Live')
  <2>1. loop' = [loop EXCEPT ![g] = "created"] /\ loop[g] = "unstarted" /\ wg' = wg + 1
    BY <1>4 DEF Spawn
  <2>2. QED
    BY <1>1, <2>1, LiveMoves
<1>5. ASSUME NEW e \in Executors, PrometheusCall(e) \/ DatabaseCall(e)
      PROVE  wg' = Cardinality(Live')
  BY <1>2, <1>5 DEF PrometheusCall, DatabaseCall, SetupEnds, SetupFails, QueryEnds, StoreEnds
<1>6. ASSUME NEW g \in Groups, StartGroup(g)
      PROVE  wg' = Cardinality(Live')
  <2>1. CASE g \div Second = 0
    BY <1>2, <1>6, <2>1 DEF StartGroup
  <2>2. CASE g \div Second # 0
    <3>1. loop' = [loop EXCEPT ![g] = "querying"] /\ loop[g] = "created" /\ wg' = wg
      BY <1>6, <2>2 DEF StartGroup
    <3>2. QED
      BY <1>1, <3>1, LiveMoves
  <2>3. QED
    BY <2>1, <2>2
<1>7. ASSUME NEW g \in Groups, SampleEnds(g)
      PROVE  wg' = Cardinality(Live')
  <2>1. loop' = [loop EXCEPT ![g] = "select"] /\ loop[g] = "querying" /\ wg' = wg
    BY <1>7, GroupsPositive DEF SampleEnds, BatchOver, Running
  <2>2. QED
    BY <1>1, <2>1, LiveMoves
<1>8. ASSUME NEW g \in Groups, TakeTick(g)
      PROVE  wg' = Cardinality(Live')
  <2>1. loop' = [loop EXCEPT ![g] = "querying"] /\ loop[g] = "select" /\ wg' = wg
    BY <1>8 DEF TakeTick
  <2>2. QED
    BY <1>1, <2>1, LiveMoves
<1>9. ASSUME NEW g \in Groups, StopOnDone(g)
      PROVE  wg' = Cardinality(Live')
  <2>1. loop' = [loop EXCEPT ![g] = "done"] /\ loop[g] = "select" /\ wg' = wg - 1
    BY <1>9 DEF StopOnDone
  <2>2. QED
    BY <1>1, <2>1, LiveMoves
<1>10. CASE \/ Sigint \/ TimerFires \/ Advance \/ Terminated \/ UNCHANGED vars
            \/ \E g \in Groups : LateTick(g)
  BY <1>2, <1>10 DEF Sigint, TimerFires, Advance, LateTick, Terminated, vars
<1>11. QED
  BY <1>3, <1>4, <1>5, <1>6, <1>7, <1>8, <1>9, <1>10 DEF Next, MainStep, GroupStep

\* Every step keeps the database open while a query may need it, and the
\* goroutines where the main one believes them to be.
LEMMA PhaseStep ==
  ASSUME TypeOK, LifecycleInv, [Next]_vars
  PROVE  PhaseInv'
<1>0. PhaseInv
  BY DEF LifecycleInv, PhaseInv
<1> USE <1>0, GroupsPositive DEF TypeOK, PhaseInv, Alive,
        jobVars, clockVars, stopVars, groupVars, queryVars
<1>1. CASE OpenDatabase
  BY <1>1 DEF OpenDatabase
<1>2. CASE OpenDatabaseFails
  BY <1>2 DEF OpenDatabaseFails
<1>3. CASE RunOnceEnds
  BY <1>3 DEF RunOnceEnds, ReturnWith, BatchOver, Running
<1>4. CASE ArmTimer
  BY <1>4 DEF ArmTimer
<1>5. ASSUME NEW g \in Groups, Spawn(g)
      PROVE  PhaseInv'
  BY <1>5 DEF Spawn
<1>6. CASE SelectTimer
  BY <1>6 DEF SelectTimer
<1>7. CASE SelectInterrupt
  BY <1>7 DEF SelectInterrupt
<1>8. CASE AllStopped
  <2>1. Live = {}
    BY <1>8, LiveFinite, FS_EmptySet DEF AllStopped, LifecycleInv
  <2>2. \A g \in Groups : loop[g] \in {"unstarted", "done"}
    BY <2>1 DEF Live
  <2>3. QED
    BY <1>8, <2>2 DEF AllStopped, ReturnWith
<1>9. ASSUME NEW e \in Executors, SetupFails(e)
      PROVE  PhaseInv'
  BY <1>9 DEF SetupFails
<1>10. ASSUME NEW e \in Executors, NEW k \in Kpis, NEW ok \in BOOLEAN, QueryEnds(e, k, ok)
      PROVE  PhaseInv'
  BY <1>10 DEF QueryEnds
<1>11. ASSUME NEW g \in Groups, StartGroup(g)
      PROVE  PhaseInv'
  BY <1>11 DEF StartGroup
<1>12. ASSUME NEW g \in Groups, SampleEnds(g)
      PROVE  PhaseInv'
  BY <1>12 DEF SampleEnds, BatchOver, Running
<1>13. ASSUME NEW g \in Groups, TakeTick(g)
      PROVE  PhaseInv'
  BY <1>13 DEF TakeTick
<1>14. ASSUME NEW g \in Groups, StopOnDone(g)
      PROVE  PhaseInv'
  BY <1>14 DEF StopOnDone
<1>15. ASSUME NEW g \in Groups, LateTick(g)
      PROVE  PhaseInv'
  BY <1>15 DEF LateTick
<1>16. CASE Sigint
  BY <1>16 DEF Sigint
<1>17. CASE TimerFires
  BY <1>17 DEF TimerFires
<1>18. CASE Advance
  BY <1>18 DEF Advance
<1>19. CASE Terminated \/ UNCHANGED vars
  BY <1>19 DEF Terminated, vars
<1>21. ASSUME NEW e \in Executors, SetupEnds(e)
      PROVE  PhaseInv'
  BY <1>21 DEF SetupEnds
<1>22. ASSUME NEW e \in Executors, NEW ok \in BOOLEAN, StoreEnds(e, ok)
      PROVE  PhaseInv'
  BY <1>22 DEF StoreEnds
<1>20. QED
  BY <1>1, <1>2, <1>3, <1>4, <1>5, <1>6, <1>7, <1>8, <1>9, <1>10, <1>11, <1>12, <1>13, <1>14, <1>15, <1>16, <1>17, <1>18, <1>19, <1>21, <1>22
     DEF Next, Opening, MainStep, PrometheusCall, DatabaseCall, GroupStep

LEMMA LifecycleStep ==
  ASSUME TypeOK, LifecycleInv, [Next]_vars
  PROVE  LifecycleInv'
BY CounterStep, PhaseStep DEF LifecycleInv, PhaseInv

-----------------------------------------------------------------------------
\* Type correctness, which needs the exact counter of the WaitGroup.
LEMMA TypeAndLifecycle == Spec => [](TypeOK /\ LifecycleInv)
<1>1. ASSUME Init
      PROVE  TypeOK /\ LifecycleInv
  <2>1. tick \in [Groups -> BOOLEAN] /\ failed \in [Executors -> BOOLEAN]
    BY <1>1, Zenon DEF Init
  <2>2. 0 \in 0 .. Horizon /\ 0 \in 0 .. MaxSamples
    BY BoundAssumption
  <2>3. samples \in [Groups -> 0 .. MaxSamples]
    BY <1>1, <2>2 DEF Init
  <2>4. loop \in [Groups -> {"unstarted", "created", "querying", "select", "done"}]
    BY <1>1 DEF Init
  <2>5. todo \in [Executors -> SUBSET Kpis]
    BY <1>1 DEF Init
  <2>6. QED
    <3>1. stage \in [Executors -> {"setup", "query", "store"}]
      BY <1>1 DEF Init
    <3>2. Live = {}
      BY <1>1 DEF Init, Live
    <3>3. Cardinality({}) = 0
      BY FS_EmptySet
    <3>4. wg = Cardinality(Live) /\ wg \in 0 .. Cardinality(Groups)
      BY <1>1, <3>2, <3>3, LiveFinite DEF Init
    <3>5. TypeOK
      BY <1>1, <2>1, <2>2, <2>3, <2>4, <2>5, <3>1, <3>4 DEF Init, TypeOK
    <3>6. QED
      BY <1>1, <3>4, <3>5 DEF Init, LifecycleInv, PhaseInv
<1>2. ASSUME TypeOK, LifecycleInv, [Next]_vars
      PROVE  TypeOK'
  <2>0. wg' \in 0 .. Cardinality(Groups)
    <3>1. wg' = Cardinality(Live')
      BY <1>2, CounterStep
    <3>2. Live' \subseteq Groups
      BY DEF Live
    <3>3. Cardinality(Live') \in 0 .. Cardinality(Groups)
      BY <3>2, LiveFinite, FS_Subset, FS_CardinalityType
    <3>4. QED
      BY <3>1, <3>3
  <2> USE <1>2, <2>0, GroupsPositive, BatchIsKpis
      DEF TypeOK, jobVars, clockVars, stopVars, groupVars, queryVars
  <2>1. CASE OpenDatabase
    BY <2>1 DEF OpenDatabase, BeginQueries
  <2>2. CASE OpenDatabaseFails
    BY <2>2 DEF OpenDatabaseFails
  <2>3. CASE RunOnceEnds
    BY <2>3 DEF RunOnceEnds, ReturnWith
  <2>4. CASE ArmTimer
    BY <2>4 DEF ArmTimer
  <2>5. ASSUME NEW g \in Groups, Spawn(g)
        PROVE  TypeOK'
    BY <2>5 DEF Spawn
  <2>6. CASE SelectTimer
    BY <2>6 DEF SelectTimer
  <2>7. CASE SelectInterrupt
    BY <2>7 DEF SelectInterrupt
  <2>8. CASE AllStopped
    BY <2>8 DEF AllStopped, ReturnWith
  <2>9. ASSUME NEW e \in Executors, SetupFails(e)
        PROVE  TypeOK'
    BY <2>9 DEF SetupFails
  <2>10. ASSUME NEW e \in Executors, NEW k \in Kpis, NEW ok \in BOOLEAN, QueryEnds(e, k, ok)
         PROVE  TypeOK'
    <3>1. failed' \in [Executors -> BOOLEAN]
      BY <2>10, Zenon DEF QueryEnds
    <3>2. todo' \in [Executors -> SUBSET Kpis] /\ attempted' \in SUBSET Kpis
      BY <2>10 DEF QueryEnds
    <3>3. bad' \in BOOLEAN /\ stage' \in [Executors -> {"setup", "query", "store"}]
      BY <2>10 DEF QueryEnds, AfterQuery
    <3>4. UNCHANGED <<main, jobVars, clockVars, stopVars, groupVars, refused>>
      BY <2>10 DEF QueryEnds
    <3>5. QED
      BY <3>1, <3>2, <3>3, <3>4
  <2>11. ASSUME NEW g \in Groups, StartGroup(g)
         PROVE  TypeOK'
    <3>1. 1 \in 0 .. MaxSamples
      BY InputAssumption, BoundAssumption
    <3>2. CASE g \div Second = 0
      BY <2>11, <3>2 DEF StartGroup
    <3>3. CASE g \div Second # 0
      <4>1. samples' \in [Groups -> 0 .. MaxSamples]
        BY <2>11, <3>1, <3>3 DEF StartGroup
      <4>2. /\ loop' = [loop EXCEPT ![g] = "querying"]
            /\ todo' = [todo EXCEPT ![g] = Group(g)]
            /\ failed' = [failed EXCEPT ![g] = FALSE]
            /\ stage' \in [Executors -> {"setup", "query", "store"}]
        BY <2>11, <3>3 DEF StartGroup, BeginQueries
      <4>3. UNCHANGED <<main, wg, tick, attempted, refused, bad, jobVars, clockVars, stopVars>>
        BY <2>11, <3>3 DEF StartGroup, BeginQueries
      <4>4. QED
        BY <4>1, <4>2, <4>3
    <3>4. QED
      BY <3>2, <3>3
  <2>12. ASSUME NEW g \in Groups, SampleEnds(g)
         PROVE  TypeOK'
    BY <2>12 DEF SampleEnds
  <2>13. ASSUME NEW g \in Groups, TakeTick(g)
         PROVE  TypeOK'
    BY <2>13, CountedType DEF TakeTick, BeginQueries
  <2>14. ASSUME NEW g \in Groups, StopOnDone(g)
         PROVE  TypeOK'
    BY <2>14 DEF StopOnDone
  <2>15. ASSUME NEW g \in Groups, LateTick(g)
         PROVE  TypeOK'
    BY <2>15 DEF LateTick
  <2>16. CASE Sigint
    <3>1. CASE notified
      BY <2>16, <3>1 DEF Sigint
    <3>2. CASE ~notified
      BY <2>16, <3>2 DEF Sigint
    <3>3. QED
      BY <3>1, <3>2
  <2>17. CASE TimerFires
    BY <2>17 DEF TimerFires
  <2>18. CASE Advance
    <3>1. tick' \in [Groups -> BOOLEAN]
      BY <2>18, Zenon DEF Advance, Ticks
    <3>2. now' \in 0 .. Horizon
      BY <2>18, BoundAssumption DEF Advance
    <3>3. UNCHANGED <<main, jobVars, timer, stopVars, wg, loop, samples, queryVars>>
      BY <2>18 DEF Advance
    <3>4. QED
      BY <3>1, <3>2, <3>3
  <2>19. CASE Terminated \/ UNCHANGED vars
    BY <2>19 DEF Terminated, vars
  <2>21. ASSUME NEW e \in Executors, SetupEnds(e)
         PROVE  TypeOK'
    BY <2>21 DEF SetupEnds
  <2>22. ASSUME NEW e \in Executors, NEW ok \in BOOLEAN, StoreEnds(e, ok)
         PROVE  TypeOK'
    <3>1. failed' \in [Executors -> BOOLEAN]
      BY <2>22, Zenon DEF StoreEnds
    <3>2. bad' \in BOOLEAN /\ stage' \in [Executors -> {"setup", "query", "store"}]
      BY <2>22 DEF StoreEnds
    <3>3. UNCHANGED <<main, jobVars, clockVars, stopVars, groupVars, todo, attempted, refused>>
      BY <2>22 DEF StoreEnds
    <3>4. QED
      BY <3>1, <3>2, <3>3
  <2>20. QED
    BY <2>1, <2>2, <2>3, <2>4, <2>5, <2>6, <2>7, <2>8, <2>9, <2>10, <2>11, <2>12,
       <2>13, <2>14, <2>15, <2>16, <2>17, <2>18, <2>19, <2>21, <2>22
       DEF Next, Opening, MainStep, PrometheusCall, DatabaseCall, GroupStep
<1>3. TypeOK /\ LifecycleInv /\ [Next]_vars => LifecycleInv'
  BY LifecycleStep
<1>4. QED
  BY <1>1, <1>2, <1>3, PTL DEF Spec

\* Type correctness of the collection; its WaitGroup never goes below zero.
THEOREM TypeCorrect == Spec => []TypeOK
BY TypeAndLifecycle, PTL

\* No step loses a failure.
LEMMA FailureStep ==
  ASSUME TypeOK, LifecycleInv, FailureInv, [Next]_vars
  PROVE  FailureInv'
<1> USE GroupsPositive DEF TypeOK, LifecycleInv, PhaseInv, FailureInv, Running, Alive,
        jobVars, clockVars, stopVars, groupVars, queryVars
<1>1. CASE OpenDatabase
  BY <1>1 DEF OpenDatabase, BeginQueries
<1>2. CASE OpenDatabaseFails
  BY <1>2 DEF OpenDatabaseFails
<1>3. CASE RunOnceEnds
  BY <1>3 DEF RunOnceEnds, ReturnWith, BatchOver
<1>4. CASE ArmTimer
  BY <1>4 DEF ArmTimer
<1>5. ASSUME NEW g \in Groups, Spawn(g)
      PROVE  FailureInv'
  BY <1>5 DEF Spawn
<1>6. CASE SelectTimer
  BY <1>6 DEF SelectTimer
<1>7. CASE SelectInterrupt
  BY <1>7 DEF SelectInterrupt
<1>8. CASE AllStopped
  BY <1>8 DEF AllStopped, ReturnWith
<1>9. ASSUME NEW e \in Executors, SetupFails(e)
      PROVE  FailureInv'
  BY <1>9 DEF SetupFails
<1>10. ASSUME NEW e \in Executors, NEW k \in Kpis, NEW ok \in BOOLEAN, QueryEnds(e, k, ok)
      PROVE  FailureInv'
  BY <1>10 DEF QueryEnds
<1>11. ASSUME NEW g \in Groups, StartGroup(g)
      PROVE  FailureInv'
  <2>1. CASE g \div Second = 0
    BY <1>11, <2>1 DEF StartGroup
  <2>2. CASE g \div Second # 0
    <3>1. /\ loop' = [loop EXCEPT ![g] = "querying"]
          /\ failed' = [failed EXCEPT ![g] = FALSE]
          /\ UNCHANGED <<main, hadFailures, bad, singleRun>>
      BY <1>11, <2>2 DEF StartGroup, BeginQueries
    <3>2. ~Running(g)
      BY <1>11 DEF StartGroup
    <3>3. \A e \in Executors : Running(e) /\ failed[e] => Running(e)' /\ failed'[e]
      BY <3>1, <3>2
    <3>4. \A e \in Executors : failed'[e] => bad'
      BY <3>1
    <3>5. QED
      BY <3>1, <3>3, <3>4
  <2>3. QED
    BY <2>1, <2>2
<1>12. ASSUME NEW g \in Groups, SampleEnds(g)
      PROVE  FailureInv'
  BY <1>12 DEF SampleEnds, BatchOver
<1>13. ASSUME NEW g \in Groups, TakeTick(g)
      PROVE  FailureInv'
  BY <1>13 DEF TakeTick, BeginQueries
<1>14. ASSUME NEW g \in Groups, StopOnDone(g)
      PROVE  FailureInv'
  BY <1>14 DEF StopOnDone
<1>15. ASSUME NEW g \in Groups, LateTick(g)
      PROVE  FailureInv'
  BY <1>15 DEF LateTick
<1>16. CASE Sigint
  BY <1>16 DEF Sigint
<1>17. CASE TimerFires
  BY <1>17 DEF TimerFires
<1>18. CASE Advance
  BY <1>18 DEF Advance
<1>19. CASE Terminated \/ UNCHANGED vars
  BY <1>19 DEF Terminated, vars
<1>21. ASSUME NEW e \in Executors, SetupEnds(e)
      PROVE  FailureInv'
  BY <1>21 DEF SetupEnds
<1>22. ASSUME NEW e \in Executors, NEW ok \in BOOLEAN, StoreEnds(e, ok)
      PROVE  FailureInv'
  BY <1>22 DEF StoreEnds
<1>20. QED
  BY <1>1, <1>2, <1>3, <1>4, <1>5, <1>6, <1>7, <1>8, <1>9, <1>10, <1>11, <1>12, <1>13, <1>14, <1>15, <1>16, <1>17, <1>18, <1>19, <1>21, <1>22
     DEF Next, Opening, MainStep, PrometheusCall, DatabaseCall, GroupStep

\* No step loses a KPI.
LEMMA CoverageStep ==
  ASSUME TypeOK, LifecycleInv, CoverageInv, [Next]_vars
  PROVE  CoverageInv'
<1> USE GroupsPositive DEF TypeOK, LifecycleInv, PhaseInv, CoverageInv, Running, Alive, Batch,
        jobVars, clockVars, stopVars, groupVars, queryVars
<1>1. CASE OpenDatabase
  BY <1>1 DEF OpenDatabase, BeginQueries
<1>2. CASE OpenDatabaseFails
  BY <1>2 DEF OpenDatabaseFails
<1>3. CASE RunOnceEnds
  BY <1>3 DEF RunOnceEnds, ReturnWith, BatchOver
<1>4. CASE ArmTimer
  BY <1>4 DEF ArmTimer
<1>5. ASSUME NEW g \in Groups, Spawn(g)
      PROVE  CoverageInv'
  BY <1>5 DEF Spawn
<1>6. CASE SelectTimer
  BY <1>6 DEF SelectTimer
<1>7. CASE SelectInterrupt
  BY <1>7 DEF SelectInterrupt
<1>8. CASE AllStopped
  BY <1>8 DEF AllStopped, ReturnWith
<1>9. ASSUME NEW e \in Executors, SetupFails(e)
      PROVE  CoverageInv'
  BY <1>9 DEF SetupFails
<1>10. ASSUME NEW e \in Executors, NEW k \in Kpis, NEW ok \in BOOLEAN, QueryEnds(e, k, ok)
      PROVE  CoverageInv'
  <2>1. /\ UNCHANGED <<main, loop, singleRun, refused>>
        /\ attempted' = attempted \cup {k}
        /\ \A x \in Executors : todo[x] \subseteq todo'[x] \cup {k}
    BY <1>10 DEF QueryEnds
  <2>2. main' # "init"
    BY <1>10, <2>1 DEF QueryEnds, Executors
  <2>3. QED
    BY <2>1, <2>2
<1>11. ASSUME NEW g \in Groups, StartGroup(g)
      PROVE  CoverageInv'
  BY <1>11 DEF StartGroup, BeginQueries
<1>12. ASSUME NEW g \in Groups, SampleEnds(g)
      PROVE  CoverageInv'
  BY <1>12 DEF SampleEnds, BatchOver
<1>13. ASSUME NEW g \in Groups, TakeTick(g)
      PROVE  CoverageInv'
  BY <1>13 DEF TakeTick, BeginQueries
<1>14. ASSUME NEW g \in Groups, StopOnDone(g)
      PROVE  CoverageInv'
  BY <1>14 DEF StopOnDone
<1>15. ASSUME NEW g \in Groups, LateTick(g)
      PROVE  CoverageInv'
  BY <1>15 DEF LateTick
<1>16. CASE Sigint
  BY <1>16 DEF Sigint
<1>17. CASE TimerFires
  BY <1>17 DEF TimerFires
<1>18. CASE Advance
  BY <1>18 DEF Advance
<1>19. CASE Terminated \/ UNCHANGED vars
  BY <1>19 DEF Terminated, vars
<1>21. ASSUME NEW e \in Executors, SetupEnds(e)
      PROVE  CoverageInv'
  BY <1>21 DEF SetupEnds
<1>22. ASSUME NEW e \in Executors, NEW ok \in BOOLEAN, StoreEnds(e, ok)
      PROVE  CoverageInv'
  BY <1>22 DEF StoreEnds
<1>20. QED
  BY <1>1, <1>2, <1>3, <1>4, <1>5, <1>6, <1>7, <1>8, <1>9, <1>10, <1>11, <1>12, <1>13, <1>14, <1>15, <1>16, <1>17, <1>18, <1>19, <1>21, <1>22
     DEF Next, Opening, MainStep, PrometheusCall, DatabaseCall, GroupStep

\* The inductive invariant of the collection.
THEOREM InvCorrect == Spec => []CollectorInv
<1>1. Init => FailureInv /\ CoverageInv
  BY DEF Init, FailureInv, CoverageInv
<1>2. TypeOK /\ LifecycleInv /\ FailureInv /\ CoverageInv /\ [Next]_vars
        => (FailureInv /\ CoverageInv)'
  BY FailureStep, CoverageStep
<1>3. QED
  BY <1>1, <1>2, TypeAndLifecycle, PTL DEF Spec, CollectorInv

\* The database is never closed under a RunQueries call.
THEOREM DatabaseOutlivesQueries == Spec => []NoUseAfterClose
<1>1. CollectorInv => NoUseAfterClose
  <2> SUFFICES ASSUME CollectorInv, db = "closed", NEW e \in Executors, Running(e)
               PROVE  FALSE
    BY DEF NoUseAfterClose
  <2> USE DEF CollectorInv, TypeOK, LifecycleInv, PhaseInv
  <2>1. CASE e = Main
    BY <2>1 DEF Running
  <2>2. CASE e \in Groups
    BY <2>2, GroupsPositive DEF Running, Alive
  <2>3. QED
    BY <2>1, <2>2 DEF Executors
<1>2. QED
  BY <1>1, InvCorrect, PTL

\* Ctrl+C kills the process only before the first group is created.
THEOREM GroupsAreNotKilled == Spec => []NoGroupKilled
<1>1. CollectorInv => NoGroupKilled
  BY DEF CollectorInv, LifecycleInv, PhaseInv, NoGroupKilled
<1>2. QED
  BY <1>1, InvCorrect, PTL

-----------------------------------------------------------------------------
(***************************************************************************)
(* Refinement: the collection implements CollectionJob.                    *)
(***************************************************************************)

\* A step that leaves the main goroutine where it is, or moves it between two
\* places before its return, leaves the status of the job alone.
LEMMA StatusValues ==
  /\ main = "returned" => JobStatus = IF exitErr THEN "failed" ELSE "ok"
  /\ main \in {"killed", "panicked"} => JobStatus = "crashed"
  /\ main \in {"init", "queries", "arm", "spawn", "select", "wait"} => JobStatus = "running"
BY DEF JobStatus

LEMMA StatusValuesAfter ==
  /\ main' = "returned" => JobStatus' = IF exitErr' THEN "failed" ELSE "ok"
  /\ main' \in {"killed", "panicked"} => JobStatus' = "crashed"
  /\ main' \in {"init", "queries", "arm", "spawn", "select", "wait"} =>
       JobStatus' = "running"
BY DEF JobStatus

\* Once nothing is left to do, every KPI was attempted or refused.
LEMMA AllCovered ==
  ASSUME CollectorInv, RunOnce \subseteq attempted \cup refused,
         \A g \in Groups : loop[g] = "done"
  PROVE  attempted \cup refused = Kpis
BY GroupsCover DEF CollectorInv, TypeOK, CoverageInv

\* Every step of the collection is a step of the job or changes nothing of it.
LEMMA StepRefines ==
  ASSUME CollectorInv, CollectorInv', [Next]_vars
  PROVE  [Job!Next]_(Job!vars)
<1> DEFINE Quiet == UNCHANGED <<main, exitErr, attempted, refused, bad>>
<1>0. ASSUME Quiet
      PROVE  UNCHANGED Job!vars
  BY <1>0 DEF Job!vars, JobStatus
<1> USE GroupsPositive, BatchIsKpis, StatusValues, StatusValuesAfter
    DEF jobVars, clockVars, stopVars, groupVars, queryVars
<1>1. CASE OpenDatabase
  <2>1. JobStatus = "running" /\ JobStatus' = "running"
    BY <1>1 DEF OpenDatabase
  <2>2. QED
    BY <1>1, <2>1 DEF OpenDatabase, BeginQueries, Job!vars
<1>2. CASE OpenDatabaseFails
  <2>1. JobStatus = "running" /\ JobStatus' = "failed" /\ attempted = {}
    BY <1>2 DEF OpenDatabaseFails, CollectorInv, CoverageInv
  <2>2. Job!Reject
    BY <1>2, <2>1 DEF OpenDatabaseFails, Job!Reject
  <2>3. QED
    BY <2>2 DEF Job!Next
<1>3. CASE RunOnceEnds
  <2>1. JobStatus = "running" /\ main = "queries" /\ todo[Main] = {}
        /\ UNCHANGED <<attempted, refused, bad>>
    BY <1>3 DEF RunOnceEnds, BatchOver, Running
  <2>2. CASE main' = "arm"
    BY <2>1, <2>2 DEF Job!vars
  <2>3. CASE main' = "returned"
    <3>1. Batch(Main) \subseteq attempted \cup refused
      BY <2>1 DEF CollectorInv, CoverageInv
    <3>2. Batch(Main) = Kpis
      BY <1>3, <2>3, GroupsCover DEF RunOnceEnds, ReturnWith, Batch
    <3>3. attempted \cup refused = Kpis
      BY <3>1, <3>2 DEF CollectorInv, TypeOK
    <3>4. \A e \in Executors : e # Main => ~Running(e)
      BY <2>1 DEF CollectorInv, LifecycleInv, PhaseInv, Executors, Running
    <3>5. bad <=> hadFailures \/ failed[Main]
      BY <2>1, <3>4 DEF CollectorInv, FailureInv
    <3>6. CASE singleRun
      <4>1. exitErr' = failed[Main] /\ ~hadFailures
        BY <1>3, <3>6 DEF RunOnceEnds, ReturnWith, CollectorInv, FailureInv
      <4>2. JobStatus' = IF bad THEN "failed" ELSE "ok"
        BY <2>3, <3>5, <4>1
      <4>3. QED
        BY <2>1, <3>3, <4>2 DEF Job!Next, Job!Return
    <3>7. CASE ~singleRun
      <4>1. exitErr' <=> (hadFailures \/ failed[Main])
        BY <1>3, <2>3, <3>7 DEF RunOnceEnds, ReturnWith
      <4>2. JobStatus' = IF bad THEN "failed" ELSE "ok"
        BY <2>3, <3>5, <4>1
      <4>3. QED
        BY <2>1, <3>3, <4>2 DEF Job!Next, Job!Return
    <3>8. QED
      BY <3>6, <3>7
  <2>4. QED
    BY <1>3, <2>2, <2>3 DEF RunOnceEnds, ReturnWith
<1>4. CASE ArmTimer \/ SelectTimer \/ SelectInterrupt \/ \E g \in Groups : Spawn(g)
  <2>1. JobStatus = "running" /\ JobStatus' = "running"
    BY <1>4 DEF ArmTimer, SelectTimer, SelectInterrupt, Spawn
  <2>2. QED
    BY <1>4, <2>1 DEF ArmTimer, SelectTimer, SelectInterrupt, Spawn, Job!vars
<1>5. CASE AllStopped
  <2>1. JobStatus = "running" /\ main = "wait" /\ main' = "returned"
        /\ exitErr' = hadFailures /\ UNCHANGED <<attempted, refused, bad>>
    BY <1>5 DEF AllStopped, ReturnWith
  <2>0. Live = {}
    BY <1>5, LiveFinite, FS_EmptySet DEF AllStopped, CollectorInv, LifecycleInv
  <2>2. \A g \in Groups : loop[g] = "done"
    BY <2>0, <2>1 DEF Live, CollectorInv, TypeOK, LifecycleInv, PhaseInv
  <2>3. attempted \cup refused = Kpis
    BY <2>1, <2>2, AllCovered DEF CollectorInv, CoverageInv
  <2>4. \A e \in Executors : ~Running(e)
    BY <2>1, <2>2 DEF Executors, Running
  <2>5. bad <=> hadFailures
    BY <2>1, <2>4 DEF CollectorInv, FailureInv
  <2>6. JobStatus' = IF bad THEN "failed" ELSE "ok"
    BY <2>1, <2>5 DEF CollectorInv, TypeOK
  <2>7. QED
    BY <2>1, <2>3, <2>6 DEF Job!Next, Job!Return
<1>6. ASSUME NEW e \in Executors, SetupFails(e)
      PROVE  [Job!Next]_(Job!vars)
  <2>1. JobStatus = "running" /\ JobStatus' = "running"
    BY <1>6 DEF SetupFails, Running, Alive, CollectorInv, TypeOK, LifecycleInv, PhaseInv, Executors
  <2>2. Job!Refuse(Batch(e))
    BY <1>6, <2>1 DEF SetupFails, Job!Refuse
  <2>3. QED
    BY <2>2 DEF Job!Next
<1>7. ASSUME NEW e \in Executors, NEW k \in Kpis, NEW ok \in BOOLEAN, QueryEnds(e, k, ok)
      PROVE  [Job!Next]_(Job!vars)
  <2>1. JobStatus = "running" /\ JobStatus' = "running"
    BY <1>7 DEF QueryEnds, Running, Alive, CollectorInv, TypeOK, LifecycleInv, PhaseInv, Executors
  <2>2. Job!Attempt(k, ok)
    BY <1>7, <2>1 DEF QueryEnds, Job!Attempt
  <2>3. QED
    BY <2>2 DEF Job!Next
<1>8. ASSUME NEW g \in Groups, StartGroup(g)
      PROVE  [Job!Next]_(Job!vars)
  <2>1. JobStatus = "running" /\ UNCHANGED <<exitErr, attempted, refused, bad>>
    BY <1>8 DEF StartGroup, BeginQueries, Alive, CollectorInv, TypeOK, LifecycleInv, PhaseInv
  <2>2. CASE main' = "panicked"
    BY <2>1, <2>2 DEF Job!Next, Job!Crash
  <2>3. CASE main' = main
    BY <2>1, <2>3, <1>0
  <2>4. QED
    BY <1>8, <2>2, <2>3 DEF StartGroup
<1>9. CASE Sigint
  <2>1. main \notin {"returned", "killed", "panicked"}
        /\ UNCHANGED <<exitErr, attempted, refused, bad>>
    BY <1>9 DEF Sigint
  <2>2. CASE main' = "killed"
    BY <2>1, <2>2 DEF Job!Next, Job!Crash, CollectorInv, TypeOK
  <2>3. CASE main' = main
    BY <2>1, <2>3, <1>0
  <2>4. QED
    BY <1>9, <2>2, <2>3 DEF Sigint
<1>10. CASE \E g \in Groups : SampleEnds(g) \/ TakeTick(g) \/ StopOnDone(g) \/ LateTick(g)
  BY <1>10, <1>0 DEF SampleEnds, TakeTick, BeginQueries, StopOnDone, LateTick
<1>11. CASE TimerFires \/ Advance \/ Terminated \/ UNCHANGED vars
  BY <1>11, <1>0 DEF TimerFires, Advance, Terminated, vars
<1>13. ASSUME NEW e \in Executors, SetupEnds(e)
       PROVE  [Job!Next]_(Job!vars)
  BY <1>13, <1>0 DEF SetupEnds
<1>14. ASSUME NEW e \in Executors, NEW ok \in BOOLEAN, StoreEnds(e, ok)
       PROVE  [Job!Next]_(Job!vars)
  <2>1. JobStatus = "running" /\ JobStatus' = "running"
    BY <1>14 DEF StoreEnds, Running, Alive, CollectorInv, TypeOK, LifecycleInv, PhaseInv, Executors
  <2>2. CASE ok
    BY <1>14, <1>0, <2>2 DEF StoreEnds, CollectorInv, TypeOK
  <2>3. CASE ~ok
    <3>1. attempted # {} /\ bad' = TRUE /\ UNCHANGED <<attempted, refused>>
      BY <1>14, <2>3 DEF StoreEnds, CollectorInv, CoverageInv
    <3>2. Job!Lose
      BY <2>1, <3>1 DEF Job!Lose
    <3>3. QED
      BY <3>2 DEF Job!Next
  <2>4. QED
    BY <2>2, <2>3
<1>12. QED
  BY <1>1, <1>2, <1>3, <1>4, <1>5, <1>6, <1>7, <1>8, <1>9, <1>10, <1>11, <1>13, <1>14
     DEF Next, Opening, MainStep, PrometheusCall, DatabaseCall, GroupStep

\* The collection keeps the safety part of what CollectionJob promises: its
\* return reports exactly whether anything failed, after every KPI was
\* attempted or refused, and nothing happens after it.
THEOREM CollectorImplementsJob == Spec => JobSafety
<1>1. Init => Job!Init
  BY StatusValues DEF Init, Job!Init
<1>2. CollectorInv /\ CollectorInv' /\ [Next]_vars => [Job!Next]_(Job!vars)
  BY StepRefines
<1>3. QED
  BY <1>1, <1>2, InvCorrect, PTL DEF Spec, JobSafety

-----------------------------------------------------------------------------
(***************************************************************************)
(* Counting samples against the clock.                                     *)
(***************************************************************************)

\* Integer division of a clock by a period, as the clock advances by one.
LEMMA Division ==
  ASSUME NEW n \in Nat, NEW g \in Nat, g > 0
  PROVE  /\ n = g * (n \div g) + (n % g)
         /\ n % g \in 0 .. g - 1
         /\ n \div g \in Nat
BY SMT

LEMMA Cancel ==
  ASSUME NEW a \in Nat, NEW b \in Nat, NEW g \in Nat, g > 0
  PROVE  g * a < g * b => a < b
BY SMT

LEMMA QuotientUnique ==
  ASSUME NEW n \in Nat, NEW g \in Nat, g > 0, NEW q \in Nat, NEW r \in 0 .. g - 1,
         n = g * q + r
  PROVE  n \div g = q
<1>1. n \div g \in Nat /\ n % g \in 0 .. g - 1 /\ n = g * (n \div g) + (n % g)
  BY Division
<1>2. g * q < g * ((n \div g) + 1) /\ g * (n \div g) < g * (q + 1)
  BY <1>1
<1>3. q < (n \div g) + 1 /\ n \div g < q + 1
  BY <1>1, <1>2, Cancel
<1>4. QED
  BY <1>1, <1>3

LEMMA DivisionStep ==
  ASSUME NEW n \in Nat, NEW g \in Nat, g > 0
  PROVE  (n + 1) \div g = (n \div g) + (IF (n + 1) % g = 0 THEN 1 ELSE 0)
<1>1. n \div g \in Nat /\ n % g \in 0 .. g - 1 /\ n = g * (n \div g) + (n % g)
  BY Division
<1>2. CASE n % g < g - 1
  <2>1. n + 1 = g * (n \div g) + ((n % g) + 1) /\ (n % g) + 1 \in 0 .. g - 1
    BY <1>1, <1>2
  <2>2. (n + 1) \div g = n \div g
    BY <1>1, <2>1, QuotientUnique
  <2>3. n + 1 = g * ((n + 1) \div g) + ((n + 1) % g)
    BY Division
  <2>4. (n + 1) % g = (n % g) + 1
    BY <1>1, <2>2, <2>3
  <2>5. QED
    BY <1>1, <2>2, <2>4
<1>3. CASE n % g = g - 1
  <2>1. n + 1 = g * ((n \div g) + 1) + 0 /\ 0 \in 0 .. g - 1 /\ (n \div g) + 1 \in Nat
    BY <1>1, <1>3
  <2>2. (n + 1) \div g = (n \div g) + 1
    BY <2>1, QuotientUnique
  <2>3. n + 1 = g * ((n + 1) \div g) + ((n + 1) % g)
        /\ (n + 1) % g \in 0 .. g - 1
    BY Division
  <2>4. (n + 1) % g = 0
    BY <1>1, <2>1, <2>2, <2>3
  <2>5. QED
    BY <1>1, <2>2, <2>4
<1>4. QED
  BY <1>1, <1>2, <1>3

LEMMA DivisionBound ==
  ASSUME NEW n \in Nat, NEW g \in Nat, g > 0
  PROVE  n \div g \in Nat /\ n \div g <= n /\ 0 \div g = 0
<1>1. n \div g \in Nat /\ n % g \in 0 .. g - 1 /\ n = g * (n \div g) + (n % g)
  BY Division
<1>2. g * (n \div g) < g * (n + 1)
  BY <1>1
<1>3. n \div g < n + 1
  BY <1>1, <1>2, Cancel
<1>4. 0 \div g = 0
  BY QuotientUnique
<1>5. QED
  BY <1>1, <1>3, <1>4

\* No step puts a group ahead of the clock, or a prompt one behind it.
LEMMA ClockStep ==
  ASSUME TypeOK, LifecycleInv, ClockInv, [Next]_vars
  PROVE  ClockInv'
<1> USE GroupsPositive DEF jobVars, clockVars, stopVars, groupVars, queryVars
<1>0. /\ now \in Nat /\ Duration \in Nat /\ Duration < Horizon /\ Horizon <= MaxSamples
      /\ Horizon \in Nat /\ MaxSamples \in Nat
  BY InputAssumption, BoundAssumption DEF TypeOK
<1> DEFINE SameClock == UNCHANGED <<now, shutdownReason, cancelled>>
<1> DEFINE SameGroup(g) == UNCHANGED <<loop[g], tick[g], samples[g]>>
\* A group that a step of another leaves alone keeps its part of the invariant.
<1>a. ASSUME NEW g \in Groups, SameClock, SameGroup(g)
      PROVE  NotAhead(g)'
  <2>1. Pending(g)' = Pending(g)
    BY <1>a DEF Pending
  <2>2. NotAhead(g)
    BY DEF ClockInv
  <2>3. QED
    BY <1>a, <2>1, <2>2 DEF NotAhead
<1>b. ASSUME NEW g \in Groups \cap Prompt, SameClock, SameGroup(g),
             timer' /\ main' = "select" => timer /\ main = "select"
      PROVE  NotBehind(g)'
  <2>1. Pending(g)' = Pending(g)
    BY <1>b DEF Pending
  <2>2. NotBehind(g)
    BY DEF ClockInv
  <2>3. QED
    BY <1>b, <2>1, <2>2 DEF NotBehind
<1>1. CASE \/ OpenDatabase \/ OpenDatabaseFails \/ RunOnceEnds \/ ArmTimer \/ AllStopped
           \/ Sigint \/ Terminated \/ UNCHANGED vars
  <2>1. SameClock /\ UNCHANGED <<timer, loop, tick, samples>>
    BY <1>1 DEF OpenDatabase, OpenDatabaseFails, RunOnceEnds, ArmTimer, AllStopped, Sigint,
       Terminated, vars
  <2>2. main' = "select" => main = "select"
    BY <1>1 DEF OpenDatabase, OpenDatabaseFails, RunOnceEnds, ReturnWith, ArmTimer,
       AllStopped, Sigint, Terminated, vars
  <2>3. MainClockInv'
    BY <1>1, <2>1 DEF ClockInv, MainClockInv, OpenDatabase, OpenDatabaseFails, RunOnceEnds,
       ReturnWith, BatchOver, Running, ArmTimer, AllStopped, Sigint, Terminated, vars
  <2>4. QED
    BY <1>a, <1>b, <2>1, <2>2, <2>3 DEF ClockInv
<1>2. ASSUME NEW e \in Executors, PrometheusCall(e) \/ DatabaseCall(e)
      PROVE  ClockInv'
  <2>1. SameClock /\ UNCHANGED <<main, timer, loop, tick, samples>>
    BY <1>2 DEF PrometheusCall, DatabaseCall, SetupEnds, SetupFails, QueryEnds, StoreEnds
  <2>2. MainClockInv'
    BY <2>1 DEF ClockInv, MainClockInv
  <2>3. QED
    BY <1>a, <1>b, <2>1, <2>2 DEF ClockInv
<1>3. ASSUME NEW g \in Groups, Spawn(g)
      PROVE  ClockInv'
  <2>1. /\ main = "spawn" /\ main' \in {"spawn", "select"} /\ loop[g] = "unstarted"
        /\ loop' = [loop EXCEPT ![g] = "created"]
        /\ SameClock /\ UNCHANGED <<timer, tick, samples>>
    BY <1>3 DEF Spawn
  <2>2. MainClockInv' /\ ~timer' /\ ~cancelled
    BY <2>1 DEF ClockInv, MainClockInv
  <2>3. loop'[g] = "created" /\ \A h \in Groups : h # g => SameGroup(h)
    BY <2>1 DEF TypeOK
  <2>4. NotAhead(g)'
    BY <2>1, <2>3 DEF ClockInv, NotAhead, Pending
  <2>5. NotBehind(g)'
    BY <2>1, <2>2, <2>3 DEF NotBehind, ClockInv, MainClockInv
  <2>6. QED
    BY <1>a, <1>b, <2>1, <2>2, <2>3, <2>4, <2>5 DEF ClockInv
<1>4. CASE SelectTimer
  <2>1. /\ main = "select" /\ main' = "wait" /\ timer /\ cancelled' /\ ~cancelled
        /\ shutdownReason' = "duration" /\ now = Duration
        /\ UNCHANGED <<now, loop, tick, samples>>
    BY <1>4 DEF SelectTimer, ClockInv, MainClockInv
  <2>2. MainClockInv'
    BY <2>1 DEF MainClockInv
  <2>3. ASSUME NEW g \in Groups
        PROVE  NotAhead(g)'
    BY <2>1 DEF ClockInv, NotAhead, Pending
  <2>4. ASSUME NEW g \in Groups \cap Prompt
        PROVE  NotBehind(g)'
    <3>1. loop[g] = "select" /\ ~tick[g]
      BY <2>1 DEF ClockInv, NotBehind
    <3>2. samples[g] + 0 = (Duration \div g) + 1
      BY <2>1, <3>1 DEF ClockInv, NotBehind, Pending
    <3>3. samples[g] \in Nat
      BY <1>0 DEF TypeOK
    <3>4. QED
      BY <1>0, <2>1, <3>1, <3>2, <3>3 DEF NotBehind
  <2>5. QED
    BY <2>2, <2>3, <2>4 DEF ClockInv
<1>5. CASE SelectInterrupt
  <2>1. /\ main = "select" /\ main' = "wait" /\ cancelled' /\ shutdownReason' = "interrupted"
        /\ UNCHANGED <<now, loop, tick, samples>>
    BY <1>5 DEF SelectInterrupt
  <2>2. MainClockInv'
    BY <2>1 DEF MainClockInv
  <2>3. ASSUME NEW g \in Groups
        PROVE  NotAhead(g)'
    BY <2>1 DEF ClockInv, NotAhead, Pending
  <2>4. ASSUME NEW g \in Groups \cap Prompt
        PROVE  NotBehind(g)'
    BY <2>1 DEF NotBehind
  <2>5. QED
    BY <2>2, <2>3, <2>4 DEF ClockInv
<1>6. ASSUME NEW g \in Groups, StartGroup(g)
      PROVE  ClockInv'
  <2>1. CASE main' = "panicked"
    <3>1. SameClock /\ UNCHANGED <<timer, loop, tick, samples>>
      BY <1>6, <2>1 DEF StartGroup, Alive
    <3>2. MainClockInv'
      BY <2>1, <3>1 DEF ClockInv, MainClockInv
    <3>3. QED
      BY <1>a, <1>b, <2>1, <3>1, <3>2 DEF ClockInv
  <2>2. CASE main' # "panicked"
    <3>1. /\ loop[g] = "created"
          /\ loop' = [loop EXCEPT ![g] = "querying"]
          /\ samples' = [samples EXCEPT ![g] = 1]
          /\ SameClock /\ UNCHANGED <<main, timer, tick>>
      BY <1>6, <2>2 DEF StartGroup
    <3>2. MainClockInv'
      BY <3>1 DEF ClockInv, MainClockInv
    <3>3. loop'[g] = "querying" /\ samples'[g] = 1 /\ \A h \in Groups : h # g => SameGroup(h)
      BY <3>1 DEF TypeOK
    <3>4. now = 0 /\ ~tick[g] /\ 0 \div g = 0
      BY <3>1, DivisionBound DEF ClockInv, NotAhead
    <3>5. NotAhead(g)'
      BY <3>1, <3>3, <3>4 DEF NotAhead, Pending
    <3>6. g \in Prompt => NotBehind(g)'
      BY <3>1, <3>3, <3>4 DEF NotBehind, Pending, ClockInv
    <3>7. QED
      BY <1>a, <1>b, <3>1, <3>2, <3>3, <3>5, <3>6 DEF ClockInv
  <2>3. QED
    BY <2>1, <2>2
<1>7. ASSUME NEW g \in Groups, SampleEnds(g)
      PROVE  ClockInv'
  <2>1. /\ loop[g] = "querying" /\ loop' = [loop EXCEPT ![g] = "select"]
        /\ SameClock /\ UNCHANGED <<main, timer, tick, samples>>
    BY <1>7 DEF SampleEnds, BatchOver, Running
  <2>2. MainClockInv'
    BY <2>1 DEF ClockInv, MainClockInv
  <2>3. loop'[g] = "select" /\ \A h \in Groups : h # g => SameGroup(h)
    BY <2>1 DEF TypeOK
  <2>4. NotAhead(g)'
    BY <2>1, <2>3 DEF NotAhead, Pending, ClockInv
  <2>5. g \in Prompt => NotBehind(g)'
    BY <2>1, <2>3 DEF NotBehind, Pending, ClockInv
  <2>6. QED
    BY <1>a, <1>b, <2>1, <2>2, <2>3, <2>4, <2>5 DEF ClockInv
<1>8. ASSUME NEW g \in Groups, TakeTick(g)
      PROVE  ClockInv'
  <2>1. /\ loop[g] = "select" /\ tick[g]
        /\ tick' = [tick EXCEPT ![g] = FALSE]
        /\ samples' = [samples EXCEPT ![g] = Counted(samples[g])]
        /\ loop' = [loop EXCEPT ![g] = "querying"]
        /\ SameClock /\ UNCHANGED <<main, timer>>
    BY <1>8 DEF TakeTick
  <2>2. MainClockInv'
    BY <2>1 DEF ClockInv, MainClockInv
  <2>3. /\ loop'[g] = "querying" /\ ~tick'[g] /\ samples'[g] = Counted(samples[g])
        /\ \A h \in Groups : h # g => SameGroup(h)
    BY <2>1 DEF TypeOK
  <2>4. Pending(g) = 1 /\ Pending(g)' = 0 /\ samples[g] \in Nat
    BY <1>0, <2>1, <2>3 DEF Pending, TypeOK
  <2>5. now \div g \in Nat /\ now \div g <= now
    BY ONLY <1>0, g \in Nat, g > 0, DivisionBound
  <2>6. ASSUME now < Horizon
        PROVE  samples'[g] = samples[g] + 1 /\ samples[g] + 1 <= (now \div g) + 1
    <3>1. samples[g] + 1 <= (now \div g) + 1
      BY <2>4, <2>6 DEF ClockInv, NotAhead
    <3>2. samples[g] < MaxSamples
      BY <1>0, <2>4, <2>5, <2>6, <3>1
    <3>3. QED
      BY <2>3, <3>1, <3>2 DEF Counted
  <2>7. NotAhead(g)'
    BY <2>1, <2>3, <2>4, <2>6 DEF NotAhead
  <2>8. ASSUME g \in Prompt
        PROVE  NotBehind(g)'
    <3>1. shutdownReason # "duration" /\ ~(timer /\ main = "select")
      BY <2>1, <2>8 DEF ClockInv, NotBehind
    <3>2. ASSUME ~cancelled
          PROVE  samples[g] + 1 = (now \div g) + 1 /\ now < Horizon
      BY <1>0, <2>1, <2>4, <2>8, <3>2 DEF ClockInv, NotBehind, MainClockInv
    <3>3. QED
      BY <2>1, <2>3, <2>4, <2>6, <3>1, <3>2 DEF NotBehind
  <2>9. QED
    BY <1>a, <1>b, <2>1, <2>2, <2>3, <2>7, <2>8 DEF ClockInv
<1>9. ASSUME NEW g \in Groups, StopOnDone(g)
      PROVE  ClockInv'
  <2>1. /\ loop[g] = "select" /\ cancelled
        /\ loop' = [loop EXCEPT ![g] = "done"]
        /\ tick' = [tick EXCEPT ![g] = FALSE]
        /\ SameClock /\ UNCHANGED <<main, timer, samples>>
    BY <1>9 DEF StopOnDone
  <2>2. MainClockInv'
    BY <2>1 DEF ClockInv, MainClockInv
  <2>3. loop'[g] = "done" /\ ~tick'[g] /\ \A h \in Groups : h # g => SameGroup(h)
    BY <2>1 DEF TypeOK
  <2>4. Pending(g)' = 0 /\ Pending(g) \in {0, 1} /\ samples[g] \in Nat /\ now \div g \in Nat
    BY <1>0, <2>3, DivisionBound DEF Pending, TypeOK
  <2>5. NotAhead(g)'
    BY <2>1, <2>3, <2>4 DEF NotAhead, ClockInv
  <2>6. main # "select"
    BY <2>1 DEF ClockInv, MainClockInv
  <2>7. g \in Prompt => NotBehind(g)'
    BY <2>1, <2>3, <2>6 DEF NotBehind, ClockInv
  <2>8. QED
    BY <1>a, <1>b, <2>1, <2>2, <2>3, <2>5, <2>7 DEF ClockInv
<1>10. ASSUME NEW g \in Groups, LateTick(g)
       PROVE  ClockInv'
  <2>1. /\ loop[g] \in {"querying", "select"} /\ now = Horizon
        /\ tick' = [tick EXCEPT ![g] = TRUE]
        /\ SameClock /\ UNCHANGED <<main, timer, loop, samples>>
    BY <1>10 DEF LateTick, Ticking
  <2>2. MainClockInv' /\ cancelled /\ main # "select" /\ now > Duration
    BY <1>0, <2>1 DEF ClockInv, MainClockInv
  <2>3. \A h \in Groups : h # g => SameGroup(h)
    BY <2>1 DEF TypeOK
  <2>4. NotAhead(g)'
    BY <2>1, <1>0 DEF NotAhead
  <2>5. g \in Prompt => NotBehind(g)'
    BY <2>1, <2>2 DEF NotBehind, ClockInv
  <2>6. QED
    BY <1>a, <1>b, <2>1, <2>2, <2>3, <2>4, <2>5 DEF ClockInv
<1>11. CASE TimerFires
  <2>1. /\ main = "select" /\ now >= Duration
        /\ SameClock /\ UNCHANGED <<main, loop, tick, samples>>
        /\ \A g \in Groups \cap Prompt :
             loop[g] = "done" \/ (loop[g] = "select" /\ ~tick[g] /\ ~cancelled)
    BY <1>11 DEF TimerFires, Settled, PromptAtRest, AtRest
  <2>2. ~cancelled /\ now = Duration
    BY <1>0, <2>1 DEF ClockInv, MainClockInv
  <2>3. MainClockInv'
    BY <2>1, <2>2 DEF ClockInv, MainClockInv
  <2>4. ASSUME NEW g \in Groups \cap Prompt
        PROVE  NotBehind(g)'
    <3>1. loop[g] = "select" /\ ~tick[g]
      BY <2>1, <2>2 DEF ClockInv, NotAhead
    <3>2. Pending(g)' = Pending(g)
      BY <2>1 DEF Pending
    <3>3. QED
      BY <2>1, <2>2, <3>1, <3>2 DEF ClockInv, NotBehind, MainClockInv
  <2>5. QED
    BY <1>a, <2>1, <2>3, <2>4 DEF ClockInv
<1>12. CASE Advance
  <2>1. /\ main \in {"select", "wait"} /\ now < Horizon /\ now' = now + 1
        /\ main = "select" => now < Duration /\ ~timer
        /\ \A g \in Groups : loop[g] # "created"
        /\ \A g \in Groups \cap Prompt :
             loop[g] = "done" \/ (loop[g] = "select" /\ ~tick[g] /\ ~cancelled)
        /\ UNCHANGED <<main, timer, shutdownReason, cancelled, loop, samples>>
    BY <1>12 DEF Advance, Settled, PromptAtRest, AtRest
  <2>2. MainClockInv'
    BY <1>0, <2>1 DEF ClockInv, MainClockInv
  <2>3. ASSUME NEW g \in Groups
        PROVE  /\ now' \div g = (now \div g) + (IF (now + 1) % g = 0 THEN 1 ELSE 0)
               /\ now \div g \in Nat
    BY ONLY <1>0, <2>1, g \in Nat, g > 0, DivisionStep, DivisionBound
  <2>4. ASSUME NEW g \in Groups
        PROVE  tick'[g] <=> tick[g] \/ (loop[g] \in {"querying", "select"} /\ (now + 1) % g = 0)
    BY <1>12, <2>1 DEF Advance, Ticks, Ticking
  <2>5. ASSUME NEW g \in Groups
        PROVE  NotAhead(g)'
    <3>1. loop[g] \notin {"unstarted", "created"} /\ samples[g] \in Nat
      BY <1>0, <2>1 DEF LifecycleInv, PhaseInv, TypeOK
    <3>2. Pending(g)' <= Pending(g) + (IF (now + 1) % g = 0 THEN 1 ELSE 0)
      BY <2>4 DEF Pending
    <3>3. Pending(g) \in {0, 1} /\ Pending(g)' \in {0, 1}
      BY DEF Pending
    <3>4. samples[g] + Pending(g) <= (now \div g) + 1
      BY <2>1 DEF ClockInv, NotAhead
    <3>5. samples[g] + Pending(g)' <= (now' \div g) + 1
      BY <2>3, <3>1, <3>2, <3>3, <3>4
    <3>6. QED
      BY <2>1, <3>1, <3>5 DEF ClockInv, NotAhead
  <2>6. ASSUME NEW g \in Groups \cap Prompt
        PROVE  NotBehind(g)'
    <3>1. CASE loop[g] = "done"
      <4>1. cancelled /\ main # "select" /\ Pending(g)' = Pending(g)
            /\ (tick'[g] <=> tick[g])
        BY <2>4, <3>1 DEF ClockInv, NotAhead, MainClockInv, Pending
      <4>2. QED
        BY <2>1, <3>1, <4>1 DEF ClockInv, NotBehind
    <3>2. CASE loop[g] = "select" /\ ~tick[g] /\ ~cancelled
      <4>1. Pending(g) = 0 /\ Pending(g)' = IF (now + 1) % g = 0 THEN 1 ELSE 0
        BY <2>4, <3>2 DEF Pending
      <4>2. samples[g] + 0 = (now \div g) + 1 /\ samples[g] \in Nat
        BY <1>0, <3>2, <4>1 DEF ClockInv, NotBehind, TypeOK
      <4>3. samples[g] + Pending(g)' = (now' \div g) + 1
        BY <2>3, <4>1, <4>2
      <4>4. shutdownReason = "none" /\ ~(timer /\ main = "select")
        BY <2>1, <3>2 DEF ClockInv, MainClockInv
      <4>5. QED
        BY <2>1, <4>3, <4>4 DEF NotBehind
    <3>3. QED
      BY <2>1, <3>1, <3>2
  <2>7. QED
    BY <2>2, <2>5, <2>6 DEF ClockInv
<1>13. QED
  BY <1>1, <1>2, <1>3, <1>4, <1>5, <1>6, <1>7, <1>8, <1>9, <1>10, <1>11, <1>12
     DEF Next, Opening, MainStep, GroupStep

\* The samples of every group follow the clock.
THEOREM ClockCorrect == Spec => []ClockInv
<1>1. Init => ClockInv
  <2> SUFFICES ASSUME Init
               PROVE  ClockInv
    OBVIOUS
  <2>1. MainClockInv
    BY InputAssumption DEF Init, MainClockInv
  <2>2. ASSUME NEW g \in Groups
        PROVE  NotAhead(g) /\ NotBehind(g)
    <3>1. 0 \div g = 0
      <4>1. g \in Nat /\ g > 0
        BY GroupsPositive
      <4>2. QED
        BY ONLY <4>1, DivisionBound
    <3>2. now = 0 /\ samples[g] = 0 /\ loop[g] = "unstarted" /\ Pending(g) = 0
          /\ shutdownReason = "none" /\ ~timer /\ ~tick[g]
      BY DEF Init, Pending
    <3>3. QED
      BY <3>1, <3>2 DEF NotAhead, NotBehind
  <2>3. QED
    BY <2>1, <2>2 DEF ClockInv
<1>2. CollectorInv /\ ClockInv /\ [Next]_vars => ClockInv'
  BY ClockStep DEF CollectorInv
<1>3. QED
  BY <1>1, <1>2, InvCorrect, PTL DEF Spec

\* No group samples more often than its ticker allows.
THEOREM GroupsFollowClock == Spec => []NotAheadOfClock
<1>1. CollectorInv /\ ClockInv => NotAheadOfClock
  <2> SUFFICES ASSUME CollectorInv, ClockInv, now < Horizon, NEW g \in Groups
               PROVE  samples[g] <= (now \div g) + 1
    BY DEF NotAheadOfClock
  <2>1. samples[g] \in Nat /\ now \in Nat
    BY BoundAssumption DEF CollectorInv, TypeOK
  <2>2. now \div g \in Nat
    BY <2>1, DivisionBound, GroupsPositive
  <2>3. samples[g] + Pending(g) <= (now \div g) + 1 /\ Pending(g) \in {0, 1}
    BY DEF ClockInv, NotAhead, Pending
  <2>4. QED
    BY <2>1, <2>2, <2>3
<1>2. QED
  BY <1>1, InvCorrect, ClockCorrect, PTL

\* Dividing whole seconds by whole seconds is dividing the units themselves,
\* when the divisor is a whole number of seconds.
LEMMA QuotientOfSeconds ==
  ASSUME NEW d \in Nat, NEW s \in Nat, s > 0, NEW h \in Nat, h > 0
  PROVE  (d \div s) \div h = d \div (h * s)
<1> DEFINE a == d \div s
<1> DEFINE q == a \div h
<1>1. a \in Nat /\ d % s \in 0 .. s - 1 /\ d = s * a + (d % s)
  BY Division
<1>2. q \in Nat /\ a % h \in 0 .. h - 1 /\ a = h * q + (a % h)
  BY <1>1, Division
<1> HIDE DEF a, q
<1> DEFINE r == s * (a % h) + (d % s)
<1>3. d = (h * s) * q + r
  BY <1>1, <1>2
<1>4. h * s \in Nat /\ h * s > 0
  OBVIOUS
<1>5. r \in 0 .. (h * s) - 1
  <2>1. s * (a % h) <= s * (h - 1) /\ s * (a % h) \in Nat
    BY <1>2
  <2>2. QED
    BY <1>1, <2>1
<1> HIDE DEF r
<1>6. d \div (h * s) = q
  BY ONLY <1>2, <1>3, <1>4, <1>5, d \in Nat, QuotientUnique
<1>7. QED
  BY <1>6 DEF a, q

\* When the duration ends the run, a prompt group has taken exactly the samples
\* calculateTotalSamples announced.
THEOREM SampleCountsAreExact == Spec => []SampleCountExact
<1>1. CollectorInv /\ ClockInv => SampleCountExact
  <2> SUFFICES ASSUME CollectorInv, ClockInv, shutdownReason = "duration",
                      NEW g \in Groups \cap Prompt, g % Second = 0
               PROVE  samples[g] = TotalSamples(g)
    BY DEF SampleCountExact
  <2>1. samples[g] = (Duration \div g) + 1
    BY DEF ClockInv, NotBehind
  <2>2. Second \in Nat /\ Second > 0 /\ Duration \in Nat /\ g \in Nat /\ g > 0
    BY InputAssumption, GroupsPositive
  <2> DEFINE h == g \div Second
  <2>3. h \in Nat /\ g = Second * h + 0
    BY ONLY <2>2, g % Second = 0, Division
  <2> HIDE DEF h
  <2>4. h > 0 /\ g = h * Second
    BY <2>2, <2>3
  <2>5. (Duration \div Second) \div h = Duration \div g
    BY ONLY <2>2, <2>3, <2>4, QuotientOfSeconds
  <2>6. QED
    BY <2>1, <2>5 DEF TotalSamples, h
<1>2. QED
  BY <1>1, InvCorrect, ClockCorrect, PTL

==============================================================================
