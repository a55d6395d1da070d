-------------------------- MODULE TaskRunnerProofs --------------------------
(***************************************************************************)
(* Proofs about TaskRunner, for every set of tasks and every orchestration.*)
(***************************************************************************)
EXTENDS TaskRunner, FiniteSetTheorems, TLAPS

Positions == 1 .. Len(order)

\* The positions whose task is on its way
Open == {i \in Positions : Active(order[i])}

\* What the plan is made of: its tasks are tasks, each in one place.
PlanOK ==
  /\ order \in Orders
  /\ Len(order) \in Nat
  /\ Tasks \subseteq AllTasks
  /\ \A i \in Positions : order[i] \in AllTasks
  /\ \A i, j \in Positions : order[i] = order[j] => i = j
  /\ \A t \in Tasks : \E i \in Positions : t = order[i]

\* TypeOK but for the counter of the WaitGroup
Typed ==
  /\ PlanOK
  /\ <<parallel, failFast, tarArtifacts>> \in BOOLEAN \X BOOLEAN \X BOOLEAN
  /\ main \in {"setup", "loop", "inline", "wait", "tar", "exited", "killed"}
  /\ started \in 0 .. Len(order)
  /\ state \in [AllTasks -> {"unstarted", "created", "running", "ended", "holding",
                             "reported", "finished"}]
  /\ outcome \in [AllTasks -> {"none", "ok", "failed"}]
  /\ copy \in [AllTasks -> SUBSET AllTasks]
  /\ failedTasks \in SUBSET AllTasks
  /\ notified \in BOOLEAN
  /\ interrupt \in BOOLEAN
  /\ exit \in {"none", "ok", "error"}
  /\ archived \in SUBSET AllTasks
  /\ hit \in SUBSET AllTasks

\* Tasks start in their order; in sequence each is over before the next starts.
StartsOK ==
  /\ \A i \in Positions : i <= started <=> state[order[i]] # "unstarted"
  /\ main = "setup" => started = 0
  /\ main = "inline" => ~parallel /\ started >= 1
  /\ ~parallel => \A i \in Positions :
       i < started \/ (i = started /\ main # "inline" /\ main # "killed")
         => state[order[i]] = "finished"

\* A name is in failedTasks exactly when its task has failed and said so.
NamesOK ==
  /\ failedTasks \subseteq Tasks
  /\ \A t, u \in Tasks : state[t] = "holding" /\ state[u] = "holding" => t = u
  /\ \A t \in Tasks : state[t] = "holding" => copy[t] = failedTasks
  /\ \A t \in Tasks :
       /\ state[t] \in {"unstarted", "created", "running"} => outcome[t] = "none"
       /\ state[t] \in {"ended", "holding"} => outcome[t] = "failed"
       /\ state[t] \in {"reported", "finished"} => outcome[t] # "none"
       /\ t \in failedTasks <=>
            state[t] \in {"reported", "finished"} /\ outcome[t] = "failed"

\* The WaitGroup counts the tasks on their way; when the run leaves them, there
\* are none.
CountOK ==
  /\ wg = Cardinality(Open)
  /\ main \in {"tar", "exited"} => Open = {}

\* fail-fast leaves the loop at the first failure, and nothing else does.
SkipsOK ==
  /\ failFast /\ ~parallel /\ main \in {"setup", "loop"} => failedTasks = {}
  /\ failFast /\ ~parallel /\ main = "inline" => failedTasks \subseteq {order[started]}
  /\ main \in {"wait", "tar"} /\ ~AllStarted =>
       started >= 1 /\ failFast /\ ~parallel /\ failedTasks = {order[started]}
  /\ main = "exited" => exit # "none" /\ (exit = "ok" => failedTasks = {} /\ AllStarted)
  /\ main # "exited" => exit = "none"

RunInv == Typed /\ StartsOK /\ NamesOK /\ CountOK /\ SkipsOK

-----------------------------------------------------------------------------
LEMMA PlanInit == Init => PlanOK
<1> SUFFICES ASSUME Init PROVE PlanOK
  OBVIOUS
<1>1. order \in Orders /\ Len(order) \in Nat /\ DOMAIN order = 1 .. Len(order)
  BY OrderAssumption DEF Init
<1>2. \A i \in Positions : order[i] \in AllTasks
  BY <1>1 DEF AllTasks, Positions
<1>3. \A i, j \in Positions : order[i] = order[j] => i = j
  BY <1>1, OrderAssumption DEF Positions
<1>4. Tasks \subseteq AllTasks /\ \A t \in Tasks : \E i \in Positions : t = order[i]
  BY <1>2 DEF Tasks, Positions
<1>5. QED
  BY <1>1, <1>2, <1>3, <1>4 DEF PlanOK

LEMMA PlanKept ==
  ASSUME PlanOK, UNCHANGED order
  PROVE  PlanOK' /\ Tasks' = Tasks /\ Positions' = Positions
BY DEF PlanOK, Tasks, AllTasks, Positions

LEMMA PlanStays == [Next]_vars => UNCHANGED planVars
BY DEF Next, MainStep, TaskStep, Setup, SetupFails, StartTask, InlineTaskOver, LoopEnds,
       AllTasksOver, Tar, TarFails, GoroutineStarts, TaskEnds, Lock, AppendName, Finish,
       Subscribe, Interrupted, Sigint, Terminated, vars

LEMMA TypedInit == Init => Typed
<1> SUFFICES ASSUME Init PROVE Typed
  OBVIOUS
<1>1. PlanOK
  BY PlanInit
<1>2. <<parallel, failFast, tarArtifacts>> \in BOOLEAN \X BOOLEAN \X BOOLEAN
  BY Zenon DEF Init
<1>3. started \in 0 .. Len(order)
  BY <1>1 DEF Init, PlanOK
<1>4. /\ state \in [AllTasks -> {"unstarted", "created", "running", "ended", "holding",
                                "reported", "finished"}]
      /\ outcome \in [AllTasks -> {"none", "ok", "failed"}]
      /\ copy \in [AllTasks -> SUBSET AllTasks]
  BY DEF Init
<1>5. notified \in BOOLEAN /\ interrupt \in BOOLEAN
  BY Zenon DEF Init
<1>6. QED
  BY <1>1, <1>2, <1>3, <1>4, <1>5 DEF Init, Typed

LEMMA TypedStep ==
  ASSUME Typed, [Next]_vars
  PROVE  Typed'
<1> USE DEF Typed, planVars, taskVars, signalVars
<1>1. PlanOK' /\ Tasks \subseteq AllTasks /\ UNCHANGED <<parallel, failFast, tarArtifacts, order>>
  BY PlanStays, PlanKept DEF PlanOK
<1>2. CASE Setup \/ SetupFails
  BY <1>1, <1>2 DEF Setup, SetupFails
<1>3. CASE StartTask
  <2>1. started' \in 0 .. Len(order)'
    BY <1>1, <1>3 DEF StartTask, PlanOK
  <2>2. QED
    BY <1>1, <1>3, <2>1 DEF StartTask
<1>4. CASE InlineTaskOver \/ LoopEnds
  BY <1>1, <1>4 DEF InlineTaskOver, LoopEnds
<1>5. CASE AllTasksOver
  BY <1>1, <1>5 DEF AllTasksOver, Exit
<1>6. CASE Tar \/ TarFails
  BY <1>1, <1>6 DEF Tar, TarFails, Exit
<1>7. ASSUME NEW t \in Tasks, GoroutineStarts(t) \/ Lock(t) \/ AppendName(t) \/ Finish(t)
      PROVE  Typed'
  BY <1>1, <1>7 DEF GoroutineStarts, Lock, AppendName, Finish
<1>8. ASSUME NEW t \in Tasks, NEW result \in {"ok", "failed"}, TaskEnds(t, result)
      PROVE  Typed'
  BY <1>1, <1>8 DEF TaskEnds, Returns
<1>9. ASSUME NEW result \in {"ok", "failed"}, Interrupted(result)
      PROVE  Typed'
  BY <1>1, <1>9 DEF Interrupted, Returns
<1>10. CASE Subscribe
  BY <1>1, <1>10 DEF Subscribe
<1>11. CASE Sigint
  BY <1>1, <1>11 DEF Sigint
<1>12. CASE Terminated \/ UNCHANGED vars
  BY <1>1, <1>12 DEF Terminated, vars
<1>13. QED
  BY <1>2, <1>3, <1>4, <1>5, <1>6, <1>7, <1>8, <1>9, <1>10, <1>11, <1>12
     DEF Next, MainStep, TaskStep

-----------------------------------------------------------------------------
\* What a step leaves alone, by the kind of the step

Moves(t) ==
  TaskStep(t) \/ (t = Prometheus /\ \E result \in {"ok", "failed"} : Interrupted(result))

Aside ==
  /\ UNCHANGED <<planVars, started, taskVars, wg, exit>>
  /\ main' = main \/ (~Ended /\ main' = "killed")

LEMMA TaskMovesLocally ==
  ASSUME Typed, NEW t \in Tasks, Moves(t)
  PROVE  /\ ~Ended /\ Active(t)
         /\ UNCHANGED <<planVars, main, started, exit>>
         /\ state'[t] # "unstarted"
         /\ \A u \in AllTasks : u # t => state'[u] = state[u]
         /\ state' \in [AllTasks -> {"unstarted", "created", "running", "ended", "holding",
                                     "reported", "finished"}]
         /\ Finish(t) \/ (wg' = wg /\ state'[t] # "finished")
         /\ AppendName(t) \/ failedTasks' = failedTasks
<1> USE DEF Typed, PlanOK, planVars, Active, Ended, signalVars
<1>1. t \in AllTasks
  OBVIOUS
<1>2. CASE GoroutineStarts(t)
  BY <1>1, <1>2 DEF GoroutineStarts
<1>3. ASSUME NEW result \in {"ok", "failed"},
             TaskEnds(t, result) \/ (t = Prometheus /\ Interrupted(result))
      PROVE  /\ state' \in [AllTasks -> {"unstarted", "created", "running", "ended", "holding",
                                        "reported", "finished"}]
             /\ state[t] = "running" /\ state'[t] \in {"reported", "ended"} /\ ~Ended
             /\ \A u \in AllTasks : u # t => state'[u] = state[u]
             /\ UNCHANGED <<planVars, main, started, exit, wg, failedTasks>>
  BY <1>1, <1>3 DEF TaskEnds, Interrupted, Returns
<1>4. CASE Lock(t)
  BY <1>1, <1>4 DEF Lock
<1>5. CASE AppendName(t)
  BY <1>1, <1>5 DEF AppendName
<1>6. CASE Finish(t)
  BY <1>1, <1>6 DEF Finish
<1>7. QED
  BY <1>2, <1>3, <1>4, <1>5, <1>6 DEF Moves, TaskStep

\* A step of the loop, a step of a task, or one that only Ctrl+C is about
LEMMA StepKinds ==
  ASSUME [Next]_vars
  PROVE  MainStep \/ (\E t \in Tasks : Moves(t)) \/ Aside
<1> USE DEF planVars, taskVars, signalVars
<1>1. ASSUME NEW result \in {"ok", "failed"}, Interrupted(result)
      PROVE  Prometheus \in Tasks /\ Moves(Prometheus)
  BY <1>1 DEF Interrupted, Moves
<1>2. Subscribe \/ Sigint \/ Terminated \/ UNCHANGED vars => Aside
  BY DEF Subscribe, Sigint, Terminated, vars, Aside, Ended
<1>3. QED
  BY <1>1, <1>2 DEF Next, Moves

-----------------------------------------------------------------------------
LEMMA StartsInit == Init => StartsOK
<1> SUFFICES ASSUME Init PROVE StartsOK
  OBVIOUS
<1>1. \A i \in Positions : state[order[i]] = "unstarted" /\ ~(i <= 0)
  BY PlanInit DEF Init, PlanOK, Positions
<1>2. QED
  BY <1>1 DEF Init, StartsOK, Positions

LEMMA StartsStep ==
  ASSUME Typed, StartsOK, [Next]_vars
  PROVE  StartsOK'
<1> USE DEF Typed, StartsOK, PlanOK, planVars, taskVars, signalVars
<1>1. UNCHANGED <<order, parallel, failFast>> /\ Positions' = Positions
  BY PlanStays, PlanKept
<1>2. CASE Setup \/ SetupFails \/ InlineTaskOver \/ LoopEnds \/ AllTasksOver \/ Tar \/ TarFails
  BY <1>1, <1>2 DEF Setup, SetupFails, InlineTaskOver, LoopEnds, AllTasksOver, Tar, TarFails,
                    Positions
<1>3. CASE StartTask
  <2>1. started + 1 \in Positions
    BY <1>3 DEF StartTask, Positions
  <2>2. \A i \in Positions : i # started + 1 => state'[order[i]] = state[order[i]]
    BY <1>3, <2>1 DEF StartTask
  <2>3. state'[order[started + 1]] # "unstarted"
    BY <1>3, <2>1 DEF StartTask
  <2>4. main = "loop" /\ started' = started + 1
        /\ main' = (IF parallel THEN "loop" ELSE "inline")
    BY <1>3 DEF StartTask
  <2>5. QED
    BY <1>1, <2>1, <2>2, <2>3, <2>4 DEF Positions
<1>4. ASSUME NEW t \in Tasks, Moves(t)
      PROVE  StartsOK'
  <2>1. /\ UNCHANGED <<main, started>> /\ state'[t] # "unstarted" /\ Active(t)
        /\ \A u \in AllTasks : u # t => state'[u] = state[u]
    BY <1>4, TaskMovesLocally
  <2>2. \A i \in Positions : /\ state'[order[i]] = "unstarted" <=> state[order[i]] = "unstarted"
                             /\ state[order[i]] = "finished" => state'[order[i]] = "finished"
    BY <2>1 DEF Active
  <2>3. \A i \in Positions' : order'[i] = order[i] /\ i \in Positions
    BY <1>1
  <2>4. QED
    BY <1>1, <2>1, <2>2, <2>3
<1>5. CASE Aside
  BY <1>1, <1>5 DEF Aside, Ended, Positions
<1>6. QED
  BY <1>2, <1>3, <1>4, <1>5, StepKinds DEF MainStep

-----------------------------------------------------------------------------
LEMMA NamesInit == Init => NamesOK
<1> SUFFICES ASSUME Init PROVE NamesOK
  OBVIOUS
<1>1. \A t \in Tasks : t \in AllTasks
  BY PlanInit DEF PlanOK
<1>2. QED
  BY <1>1 DEF Init, NamesOK

LEMMA NamesStep ==
  ASSUME Typed, StartsOK, NamesOK, [Next]_vars
  PROVE  NamesOK'
<1> USE DEF Typed, NamesOK, PlanOK, planVars, signalVars
<1>1. UNCHANGED order /\ Tasks' = Tasks /\ Positions' = Positions
  BY PlanStays, PlanKept
<1>2. CASE UNCHANGED taskVars
  BY <1>1, <1>2 DEF taskVars
<1>3. CASE StartTask
  <2>1. PICK t \in Tasks : /\ state[t] = "unstarted"
                          /\ state' = [state EXCEPT ![t] = IF parallel THEN "created" ELSE "running"]
    BY <1>3 DEF StartTask, StartsOK, Positions, Tasks
  <2>2. UNCHANGED <<outcome, copy, failedTasks>>
    BY <1>3 DEF StartTask
  <2>3. QED
    BY <1>1, <2>1, <2>2
<1>4. ASSUME NEW t \in Tasks, GoroutineStarts(t)
      PROVE  NamesOK'
  BY <1>1, <1>4 DEF GoroutineStarts
<1>5. ASSUME NEW t \in Tasks, NEW result \in {"ok", "failed"},
             TaskEnds(t, result) \/ (t = Prometheus /\ Interrupted(result))
      PROVE  NamesOK'
  <2>1. /\ state[t] = "running" /\ UNCHANGED <<copy, failedTasks>>
        /\ state' = [state EXCEPT ![t] = IF result = "ok" THEN "reported" ELSE "ended"]
        /\ outcome' = [outcome EXCEPT ![t] = result]
    BY <1>5 DEF TaskEnds, Interrupted, Returns
  <2>2. QED
    BY <1>1, <2>1
<1>6. ASSUME NEW t \in Tasks, Lock(t)
      PROVE  NamesOK'
  BY <1>1, <1>6 DEF Lock
<1>7. ASSUME NEW t \in Tasks, AppendName(t)
      PROVE  NamesOK'
  <2>1. /\ state[t] = "holding" /\ outcome' = outcome
        /\ state' = [state EXCEPT ![t] = "reported"]
        /\ failedTasks' = failedTasks \cup {t}
    BY <1>7 DEF AppendName
  <2>2. \A u \in Tasks : state'[u] # "holding"
    BY <2>1
  <2>3. QED
    BY <1>1, <2>1, <2>2
<1>8. ASSUME NEW t \in Tasks, Finish(t)
      PROVE  NamesOK'
  BY <1>1, <1>8 DEF Finish
<1>9. QED
  BY <1>2, <1>3, <1>4, <1>5, <1>6, <1>7, <1>8, StepKinds
     DEF Moves, TaskStep, MainStep, Aside, taskVars, Setup, SetupFails, InlineTaskOver, LoopEnds,
         AllTasksOver, Tar, TarFails

-----------------------------------------------------------------------------
\* As many tasks are on their way as the WaitGroup says.

LEMMA OpenFinite ==
  ASSUME PlanOK
  PROVE  IsFiniteSet(Open) /\ Cardinality(Open) \in 0 .. Len(order)
<1>1. Len(order) \in Nat
  BY DEF PlanOK
<1>2. IsFiniteSet(Positions) /\ Cardinality(Positions) = Len(order)
  <2>1. 1 \in Int /\ Len(order) \in Int
    BY <1>1
  <2>2. /\ IsFiniteSet(1 .. Len(order))
        /\ Cardinality(1 .. Len(order)) = IF 1 > Len(order) THEN 0 ELSE Len(order) - 1 + 1
    BY <2>1, FS_Interval, Zenon
  <2>3. QED
    BY <1>1, <2>2 DEF Positions
<1>3. Open \in SUBSET Positions
  BY DEF Open
<1>4. IsFiniteSet(Open) /\ Cardinality(Open) <= Len(order)
  BY <1>2, <1>3, FS_Subset
<1>5. Cardinality(Open) \in Nat
  BY <1>4, FS_CardinalityType
<1>6. QED
  BY <1>1, <1>4, <1>5

LEMMA CountInit == Init => CountOK
<1> SUFFICES ASSUME Init PROVE CountOK
  OBVIOUS
<1>1. \A i \in Positions : state[order[i]] = "unstarted"
  BY PlanInit DEF Init, PlanOK
<1>2. Open = {}
  BY <1>1 DEF Open, Active
<1>3. QED
  BY <1>2, FS_EmptySet DEF Init, CountOK

LEMMA CountStep ==
  ASSUME Typed, StartsOK, CountOK, [Next]_vars
  PROVE  CountOK'
<1> USE DEF Typed, CountOK, planVars, taskVars, signalVars
<1>1. UNCHANGED order /\ Positions' = Positions
  BY PlanStays, PlanKept
<1>2. UNCHANGED <<order, state>> => Open' = Open
  BY <1>1 DEF Open, Active
<1>3. CASE Setup \/ InlineTaskOver \/ LoopEnds \/ Tar \/ TarFails
  BY <1>2, <1>3 DEF Setup, InlineTaskOver, LoopEnds, Tar, TarFails
<1>4. CASE SetupFails
  <2>1. Open = {}
    BY <1>4 DEF SetupFails, StartsOK, Open, Active, Positions
  <2>2. QED
    BY <1>2, <1>4, <2>1 DEF SetupFails
<1>5. CASE AllTasksOver
  <2>1. Open = {}
    BY <1>5, OpenFinite, FS_EmptySet DEF AllTasksOver
  <2>2. QED
    BY <1>2, <1>5, <2>1 DEF AllTasksOver
<1>6. CASE StartTask
  <2>1. /\ started + 1 \in Positions /\ order[started + 1] \in AllTasks
        /\ state[order[started + 1]] = "unstarted"
    BY <1>6 DEF StartTask, StartsOK, PlanOK, Positions
  <2>2. /\ state'[order[started + 1]] \in {"created", "running"}
        /\ \A i \in Positions : i # started + 1 => state'[order[i]] = state[order[i]]
    BY <1>6, <2>1 DEF StartTask, PlanOK
  <2>3. Open' = Open \cup {started + 1} /\ started + 1 \notin Open
    BY <1>1, <2>1, <2>2 DEF Open, Active
  <2>4. wg' = wg + 1 /\ main' \in {"loop", "inline"}
    BY <1>6 DEF StartTask
  <2>5. Cardinality(Open') = Cardinality(Open) + 1
    BY <2>3, OpenFinite, FS_AddElement
  <2>6. QED
    BY <2>4, <2>5
<1>7. ASSUME NEW t \in Tasks, Moves(t)
      PROVE  CountOK'
  <2>1. PICK p \in Positions : t = order[p]
    BY DEF PlanOK
  <2>2. /\ UNCHANGED main /\ state'[t] # "unstarted" /\ Active(t)
        /\ \A i \in Positions : i # p => state'[order[i]] = state[order[i]]
    BY <1>7, <2>1, TaskMovesLocally DEF PlanOK
  <2>3. p \in Open
    BY <2>1, <2>2 DEF Open
  <2>4. CASE Finish(t)
    <3>1. state'[t] = "finished" /\ wg' = wg - 1
      BY <2>4 DEF Finish, PlanOK
    <3>2. Open' = Open \ {p}
      BY <1>1, <2>1, <2>2, <3>1 DEF Open, Active
    <3>3. Cardinality(Open') = Cardinality(Open) - 1
      BY <2>3, <3>2, OpenFinite, FS_RemoveElement
    <3>4. QED
      BY <2>2, <2>3, <3>1, <3>3
  <2>5. CASE ~Finish(t)
    <3>1. state'[t] # "finished" /\ wg' = wg
      BY <1>7, <2>5, TaskMovesLocally
    <3>2. Open' = Open
      BY <1>1, <2>1, <2>2, <2>3, <3>1 DEF Open, Active
    <3>3. QED
      BY <2>2, <2>3, <3>1, <3>2
  <2>6. QED
    BY <2>4, <2>5
<1>8. CASE Aside
  BY <1>2, <1>8 DEF Aside
<1>9. QED
  BY <1>3, <1>4, <1>5, <1>6, <1>7, <1>8, StepKinds DEF MainStep

-----------------------------------------------------------------------------
LEMMA SkipsInit == Init => SkipsOK
BY DEF Init, SkipsOK

LEMMA SkipsStep ==
  ASSUME Typed, StartsOK, NamesOK, SkipsOK, [Next]_vars
  PROVE  SkipsOK'
<1> USE DEF Typed, SkipsOK, planVars, taskVars, signalVars
<1>1. UNCHANGED <<order, parallel, failFast>>
  BY PlanStays
<1>2. CASE Setup \/ SetupFails \/ StartTask \/ LoopEnds \/ TarFails
  BY <1>1, <1>2 DEF Setup, SetupFails, StartTask, LoopEnds, TarFails, StartsOK, AllStarted
<1>3. CASE InlineTaskOver
  BY <1>1, <1>3 DEF InlineTaskOver, StartsOK, AllStarted
<1>4. CASE AllTasksOver \/ Tar
  BY <1>1, <1>4 DEF AllTasksOver, Tar, Exit, AllStarted
<1>5. ASSUME NEW t \in Tasks, Moves(t)
      PROVE  SkipsOK'
  <2>1. PICK p \in Positions : t = order[p]
    BY DEF PlanOK
  <2>2. UNCHANGED <<main, started, exit>> /\ ~Ended /\ Active(t)
    BY <1>5, TaskMovesLocally
  <2>3. ~parallel => main = "inline" /\ t = order[started]
    BY <2>1, <2>2 DEF Active, Ended, StartsOK, Positions, PlanOK
  <2>4. failedTasks' \subseteq failedTasks \cup {t}
    <3>1. CASE AppendName(t)
      BY <3>1 DEF AppendName, NamesOK
    <3>2. CASE ~AppendName(t)
      BY <1>5, <3>2, TaskMovesLocally
    <3>3. QED
      BY <3>1, <3>2
  <2>5. QED
    BY <1>1, <2>2, <2>3, <2>4 DEF Ended, AllStarted
<1>6. CASE Aside
  BY <1>1, <1>6 DEF Aside, Ended, AllStarted
<1>7. QED
  BY <1>2, <1>3, <1>4, <1>5, <1>6, StepKinds DEF MainStep

-----------------------------------------------------------------------------
\* The inductive invariant: however the tasks interleave, fail and are interrupted.
THEOREM RunInvariant == Spec => []RunInv
<1>1. Init => RunInv
  BY TypedInit, StartsInit, NamesInit, CountInit, SkipsInit DEF RunInv
<1>2. RunInv /\ [Next]_vars => RunInv'
  BY TypedStep, StartsStep, NamesStep, CountStep, SkipsStep DEF RunInv
<1>3. QED
  BY <1>1, <1>2, PTL DEF Spec

\* Type correctness of a run; the counter of the WaitGroup never goes below zero,
\* which would be a panic.
THEOREM TypeCorrect == Spec => []TypeOK
<1>1. RunInv => TypeOK
  BY OpenFinite DEF RunInv, Typed, PlanOK, CountOK, TypeOK
<1>2. QED
  BY <1>1, RunInvariant, PTL

\* The run names the failed tasks, all of them and no other, and exits with 0 only
\* if every task was run and none failed.
THEOREM VerdictAlwaysExact == Spec => []VerdictExact
<1>1. ASSUME RunInv
      PROVE  VerdictExact
  <2> USE <1>1 DEF RunInv, Typed, PlanOK, NamesOK
  <2>1. ASSUME main \in {"tar", "exited"}, NEW t \in Tasks
        PROVE  state[t] \in {"unstarted", "finished"}
    BY <2>1 DEF CountOK, Open, Active
  <2>2. main \in {"tar", "exited"} => failedTasks = {t \in Tasks : outcome[t] = "failed"}
    BY <2>1
  <2>3. exit = "ok" => failedTasks = {} /\ AllStarted
    BY DEF SkipsOK
  <2>4. QED
    BY <2>2, <2>3 DEF VerdictExact
<1>2. QED
  BY <1>1, RunInvariant, PTL

\* Only fail-fast, in sequence, leaves tasks out.
THEOREM OnlyFailFastEverSkips == Spec => []OnlyFailFastSkips
<1>1. ASSUME RunInv, main \in {"wait", "tar"}, ~AllStarted
      PROVE  /\ failFast /\ ~parallel
             /\ outcome[order[started]] = "failed"
             /\ \A i \in 1 .. started - 1 : outcome[order[i]] = "ok"
  <2> USE <1>1 DEF RunInv, Typed, PlanOK
  <2>1. started \in Positions /\ failFast /\ ~parallel /\ failedTasks = {order[started]}
    BY DEF SkipsOK, Positions
  <2>2. \A i \in Positions : order[i] \in Tasks
    BY DEF Tasks, Positions
  <2>3. outcome[order[started]] = "failed"
    BY <2>1, <2>2 DEF NamesOK
  <2>4. ASSUME NEW i \in 1 .. started - 1
        PROVE  outcome[order[i]] = "ok"
    <3>1. i \in Positions /\ i < started
      BY <2>1 DEF Positions
    <3>2. state[order[i]] = "finished" /\ order[i] # order[started]
      BY <2>1, <3>1 DEF StartsOK
    <3>3. QED
      BY <2>1, <2>2, <3>1, <3>2 DEF NamesOK
  <2>5. QED
    BY <2>1, <2>3, <2>4
<1>2. RunInv => OnlyFailFastSkips
  BY <1>1 DEF OnlyFailFastSkips
<1>3. QED
  BY <1>2, RunInvariant, PTL

\* In sequence no two tasks ever overlap.
THEOREM TasksNeverOverlap == Spec => []NoOverlap
<1>1. RunInv => NoOverlap
  BY DEF RunInv, Typed, PlanOK, StartsOK, NoOverlap, Positions
<1>2. QED
  BY <1>1, RunInvariant, PTL

\* The archive is made, and the process exits, when no task writes any more.
THEOREM ArchiveAlwaysComplete == Spec => []ArchiveComplete
<1>1. RunInv => ArchiveComplete
  BY DEF RunInv, Typed, PlanOK, CountOK, Open, ArchiveComplete
<1>2. QED
  BY <1>1, RunInvariant, PTL
=============================================================================
