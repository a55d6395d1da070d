--------------------------- MODULE NodeTasksProofs ---------------------------
(***************************************************************************)
(* Proofs about NodeTasks, for every set of nodes, every list of nodes to  *)
(* reboot and every choice of pod names, colliding ones included.          *)
(***************************************************************************)
EXTENDS NodeTasks, TLAPS

Positions == 1 .. Len(RebootNodes)

\* The reboot pod of the i-th listed node is one of this run.
Rebooting(i) ==
  LET name == RebootPod[RebootNodes[i]]
  IN Exists(name) /\ pods[name].mine

\* A node that is down, that is reported NotReady or was found so, has stopped.
DownOK ==
  /\ Nodes \ up \subseteq stopped
  /\ Nodes \ ready \subseteq stopped
  /\ \A n \in Nodes : seen[n] = "NotReady" => n \in stopped

\* How far AppRecoveryTimeTask.Run has got
ProgressOK ==
  /\ recovery = "create" => at \in Positions /\ \A i \in 1 .. at - 1 : Rebooting(i)
  /\ recovery = "sweep" => at \in Positions /\ \A i \in 1 .. at - 1 : seen[RebootNodes[i]] # "up"
  /\ recovery = "tick" => at = 1
  /\ recovery \in {"sweep", "tick", "poll", "sleep", "ok"} => \A i \in Positions : Rebooting(i)
  /\ recovery \in {"poll", "sleep", "ok"} => \A i \in Positions : seen[RebootNodes[i]] # "up"
  /\ recovery \in {"create", "sweep", "tick", "poll", "sleep"} => blocks < Iterations
  /\ recovery = "ok" => blocks = Iterations

\* A collector that waits for a pod, or is to read its logs, waits for its own.
PodsOK ==
  \A c \in Collectors :
    /\ collector[c] \in {"wait", "logs"} =>
         /\ Exists(PodName[c]) /\ pods[PodName[c]].mine
         /\ c \in Nodes => pods[PodName[c]].host = c
    /\ collector[c] = "logs" /\ ~waitErr[c] => pods[PodName[c]].phase = "Succeeded"

\* A collector that ended without an error has all its logs, and per-node-data
\* goes on only when every node's has ended.
ResultsOK ==
  /\ \A c \in Collectors : collector[c] = "done" /\ c \notin failed => artifact[c].complete
  /\ perNode = "list" => \A n \in Nodes : collector[n] = "idle"
  /\ perNode \in {"describe", "ok"} => \A n \in Nodes : collector[n] = "done"
  /\ perNode = "ok" => described /\ failed \cap Nodes = {}

NodeInv == TypeOK /\ DownOK /\ ProgressOK /\ PodsOK /\ OwnLogs /\ ResultsOK

-----------------------------------------------------------------------------
\* The steps of each group of variables

PodsKept ==
  \A name \in PodNames :
    Exists(name) => /\ Exists(name)' /\ pods'[name].host = pods[name].host
                    /\ pods'[name].mine = pods[name].mine
                    /\ pods[name].phase = "Succeeded" => pods'[name].phase = "Succeeded"

Recovering == RecoveryStep \/ NotReadyWaitFails
Collecting == PerNodeStep \/ \E c \in Collectors : CollectorStep(c)
Around     == ClusterStep /\ UNCHANGED <<recoveryVars, perNode, described, collectVars>>

LEMMA StepKinds ==
  ASSUME [Next]_vars
  PROVE  Recovering \/ Collecting \/ Around \/ UNCHANGED vars
BY DEF Next, Recovering, Collecting, Around, Terminated

LEMMA IterationsPositive == Iterations \in Nat \ {0}
BY TaskAssumption DEF Iterations

LEMMA PositionsNonempty ==
  /\ Len(RebootNodes) \in Nat \ {0}
  /\ \A i \in Positions : RebootNodes[i] \in Nodes /\ RebootPod[RebootNodes[i]] \in PodNames
<1>1. Len(RebootNodes) \in Nat /\ DOMAIN RebootNodes = Positions
  BY TaskAssumption DEF Positions
<1>2. Len(RebootNodes) # 0
  BY TaskAssumption
<1>3. \A i \in Positions : RebootNodes[i] \in Nodes
  BY TaskAssumption DEF Positions
<1>4. QED
  BY <1>1, <1>2, <1>3, TaskAssumption, ClusterAssumption

LEMMA NewPod ==
  ASSUME ClusterTypeOK, NEW name \in PodNames, NEW host \in Nodes, ~Exists(name),
         pods' = WithPod(name, host)
  PROVE  /\ pods' \in [PodNames -> Pod \cup {NoPod}]
         /\ PodsKept
         /\ Exists(name)' /\ pods'[name].host = host /\ pods'[name].mine
<1> DEFINE new == [host |-> host, phase |-> "Running", mine |-> TRUE]
<1>1. new \in Pod
  BY DEF Pod, Phases
<1>2. new # NoPod
  BY <1>1, ClusterAssumption
<1>3. pods' = [pods EXCEPT ![name] = new]
  BY DEF WithPod
<1>4. pods'[name] = new /\ \A other \in PodNames \ {name} : pods'[other] = pods[other]
  BY <1>3 DEF ClusterTypeOK
<1>5. new.host = host /\ new.mine
  OBVIOUS
<1>6. pods' \in [PodNames -> Pod \cup {NoPod}]
  BY <1>1, <1>3 DEF ClusterTypeOK
<1> HIDE DEF new
<1>7. QED
  BY <1>2, <1>4, <1>5, <1>6 DEF PodsKept, Exists

\* Nobody deletes a pod, and what happens to a node leaves its pods their names,
\* their hosts and their success.
LEMMA ClusterKeepsPods ==
  ASSUME ClusterTypeOK, ClusterStep
  PROVE  PodsKept /\ ClusterTypeOK'
<1>1. \A name \in PodNames : Exists(name) => pods[name] \in Pod
  BY DEF ClusterTypeOK, Exists
<1>2. ASSUME NEW name \in PodNames, PodEnds(name)
      PROVE  PodsKept /\ ClusterTypeOK'
  <2>1. PICK phase \in {"Succeeded", "Failed"} : pods' = Moved(name, phase)
    BY <1>2 DEF PodEnds
  <2>2. Exists(name) /\ pods[name].phase = "Running" /\ pods[name] \in Pod
    BY <1>1, <1>2 DEF PodEnds, Runs
  <2>3. pods' = [pods EXCEPT ![name] = [pods[name] EXCEPT !.phase = phase]]
    BY <2>1 DEF Moved
  <2>4. [pods[name] EXCEPT !.phase = phase] \in Pod
    BY <2>2 DEF Pod, Phases
  <2>5. [pods[name] EXCEPT !.phase = phase] # NoPod
    BY <2>4, ClusterAssumption
  <2>6. pods' \in [PodNames -> Pod \cup {NoPod}]
    BY <2>3, <2>4 DEF ClusterTypeOK
  <2>7. \A other \in PodNames : pods'[other] =
          IF other = name THEN [pods[name] EXCEPT !.phase = phase] ELSE pods[other]
    BY <2>3 DEF ClusterTypeOK
  <2>8. PodsKept
    BY <2>2, <2>5, <2>7 DEF PodsKept, Exists, Pod
  <2>9. QED
    BY <1>2, <2>6, <2>8 DEF PodEnds, ClusterTypeOK
<1>3. ASSUME NEW n \in Nodes, NodeStops(n) \/ NodeBoots(n)
      PROVE  PodsKept /\ ClusterTypeOK'
  <2>1. PICK from \in {"Running", "Interrupted"}, to \in {"Interrupted", "Failed"} :
          pods' = [name \in PodNames |-> IF name \in On(n, from)
                                         THEN [pods[name] EXCEPT !.phase = to] ELSE pods[name]]
    BY <1>3 DEF NodeStops, NodeBoots
  <2>2. ASSUME NEW name \in On(n, from)
        PROVE  /\ [pods[name] EXCEPT !.phase = to] \in Pod
               /\ [pods[name] EXCEPT !.phase = to] # NoPod
               /\ pods[name].phase # "Succeeded" /\ pods[name] \in Pod /\ name \in PodNames
    <3>1. name \in PodNames /\ Exists(name) /\ pods[name].phase = from
      BY DEF On
    <3>2. pods[name] \in Pod
      BY <1>1, <3>1
    <3>3. [pods[name] EXCEPT !.phase = to] \in Pod
      BY <3>2 DEF Pod, Phases
    <3>4. QED
      BY <3>1, <3>2, <3>3, ClusterAssumption
  <2>3. pods' \in [PodNames -> Pod \cup {NoPod}]
    BY <2>1, <2>2 DEF ClusterTypeOK
  <2>4. PodsKept
    BY <1>1, <2>1, <2>2 DEF PodsKept, Exists, Pod
  <2>5. up' \subseteq Nodes /\ ready' \subseteq Nodes /\ stopped' \subseteq Nodes
    BY <1>3 DEF NodeStops, NodeBoots, ClusterTypeOK
  <2>6. QED
    BY <2>3, <2>4, <2>5 DEF ClusterTypeOK
<1>4. ASSUME NEW n \in Nodes, NodeNoticed(n) \/ NodeReady(n)
      PROVE  PodsKept /\ ClusterTypeOK'
  BY <1>4 DEF NodeNoticed, NodeReady, ClusterTypeOK, PodsKept, Exists
<1>5. QED
  BY <1>2, <1>3, <1>4 DEF ClusterStep

-----------------------------------------------------------------------------
\* The invariant

LEMMA NodeInit == Init => NodeInv
<1> SUFFICES ASSUME Init PROVE NodeInv
  OBVIOUS
<1>1. ClusterTypeOK
  <2>1. [host : Nodes, phase : {"Succeeded"}, mine : {FALSE}] \subseteq Pod
    BY DEF Pod, Phases
  <2>2. pods \in [PodNames -> {NoPod} \cup [host : Nodes, phase : {"Succeeded"}, mine : {FALSE}]]
    BY DEF Init, ClusterInit
  <2>3. pods \in [PodNames -> Pod \cup {NoPod}]
    BY <2>1, <2>2
  <2>4. QED
    BY <2>3 DEF Init, ClusterInit, ClusterTypeOK
<1>2. PICK present \in TaskSets :
       /\ recovery = IF "app-recovery-time" \in present THEN "create" ELSE "absent"
       /\ perNode = IF "per-node-data" \in present THEN "list" ELSE "absent"
       /\ collector = [c \in Collectors |->
            IF c = Oslat /\ "oslat" \in present THEN "create" ELSE "idle"]
  BY DEF Init
<1>3. at = 1 /\ at \in Positions
  BY PositionsNonempty DEF Init, Positions
<1>4. artifact \in [Collectors -> [from : Sources \cup {NoPod}, complete : BOOLEAN]]
  BY DEF Init, NoFile
<1>5. TypeOK
  <2>1. collector \in [Collectors -> {"idle", "create", "wait", "logs", "done"}]
    BY <1>2
  <2>2. at \in 1 .. Len(RebootNodes) + 1 /\ blocks \in 0 .. Iterations
    BY <1>3, IterationsPositive, PositionsNonempty DEF Init
  <2>3. /\ seen \in [Nodes -> {"up", "NotReady", "unreachable"}]
        /\ waitErr \in [Collectors -> BOOLEAN]
        /\ failed \subseteq Collectors /\ described \in BOOLEAN
    BY DEF Init
  <2>4. QED
    BY <1>1, <1>2, <1>4, <2>1, <2>2, <2>3 DEF TypeOK
<1>6. DownOK
  BY DEF Init, ClusterInit, DownOK
<1>7. ProgressOK
  BY <1>2, <1>3, IterationsPositive DEF Init, ProgressOK
<1>8. PodsOK
  BY <1>2 DEF PodsOK
<1>9. OwnLogs
  BY DEF Init, OwnLogs, NoFile
<1>10. ResultsOK
  BY <1>2, TaskAssumption DEF ResultsOK, Collectors
<1>11. QED
  BY <1>5, <1>6, <1>7, <1>8, <1>9, <1>10 DEF NodeInv

\* What the collectors rely on survives every step that leaves them alone.
LEMMA CollectorsUndisturbed ==
  ASSUME TypeOK, PodsOK, OwnLogs, ResultsOK, PodsKept, UNCHANGED <<perNode, described, collectVars>>
  PROVE  PodsOK' /\ OwnLogs' /\ ResultsOK'
<1>1. \A c \in Collectors : PodName[c] \in PodNames
  BY TaskAssumption
<1>2. PodsOK'
  BY <1>1 DEF PodsOK, PodsKept, collectVars
<1>3. QED
  BY <1>2 DEF OwnLogs, ResultsOK, collectVars

\* What the recovery relies on survives every step that leaves it alone.
LEMMA RecoveryUndisturbed ==
  ASSUME TypeOK, DownOK, ProgressOK, PodsKept, stopped \subseteq stopped',
         UNCHANGED recoveryVars
  PROVE  /\ ProgressOK'
         /\ \A n \in Nodes : seen'[n] = "NotReady" => n \in stopped'
<1>1. \A i \in Positions : Rebooting(i) => Rebooting(i)'
  BY PositionsNonempty DEF Rebooting, PodsKept
<1>2. recovery = "create" => 1 .. at - 1 \subseteq Positions
  BY PositionsNonempty DEF ProgressOK, Positions
<1>3. ProgressOK'
  BY <1>1, <1>2 DEF ProgressOK, recoveryVars
<1>4. QED
  BY <1>3 DEF DownOK, recoveryVars

LEMMA AroundStep ==
  ASSUME NodeInv, Around
  PROVE  NodeInv'
<1> USE DEF NodeInv
<1>1. PodsKept /\ ClusterTypeOK'
  BY ClusterKeepsPods DEF TypeOK, Around
<1>2. UNCHANGED <<recoveryVars, perNode, described, collectVars>>
  BY DEF Around
<1>3. /\ stopped \subseteq stopped'
      /\ Nodes \ up' \subseteq stopped' /\ Nodes \ ready' \subseteq stopped'
  BY DEF Around, ClusterStep, PodEnds, NodeStops, NodeNoticed, NodeBoots, NodeReady, DownOK
<1>4. ProgressOK' /\ \A n \in Nodes : seen'[n] = "NotReady" => n \in stopped'
  BY <1>1, <1>2, <1>3, RecoveryUndisturbed
<1>5. DownOK'
  BY <1>3, <1>4 DEF DownOK
<1>6. PodsOK' /\ OwnLogs' /\ ResultsOK'
  BY <1>1, <1>2, CollectorsUndisturbed
<1>7. TypeOK'
  BY <1>1, <1>2 DEF TypeOK, recoveryVars, collectVars
<1>8. QED
  BY <1>4, <1>5, <1>6, <1>7

\* Creating reboot pods: each is of this run, and none is a collector's.
LEMMA CreateStep ==
  ASSUME NodeInv, CreateRebootPod \/ CreateRebootPodFails
  PROVE  NodeInv'
<1> USE DEF NodeInv
<1>0. PICK k \in Positions : k = at
  BY DEF CreateRebootPod, CreateRebootPodFails, ProgressOK
<1> DEFINE n == RebootNodes[k]
           name == RebootPod[n]
<1>1. /\ at \in Positions /\ n \in Nodes /\ name \in PodNames
      /\ \A i \in 1 .. at - 1 : Rebooting(i)
      /\ blocks < Iterations
  BY <1>0, PositionsNonempty DEF CreateRebootPod, CreateRebootPodFails, ProgressOK
<1>2. UNCHANGED <<up, ready, stopped, seen, blocks, perNode, described, collectVars>>
  BY DEF CreateRebootPod, CreateRebootPodFails, RecoveryFails
<1>3. PodsKept /\ ClusterTypeOK'
  <2>1. CASE UNCHANGED pods
    BY <1>2, <2>1 DEF PodsKept, Exists, TypeOK, ClusterTypeOK
  <2>2. CASE ~Exists(name) /\ pods' = WithPod(name, n)
    BY <1>1, <1>2, <2>2, NewPod DEF TypeOK, ClusterTypeOK
  <2>3. QED
    BY <1>0, <2>1, <2>2 DEF CreateRebootPod, CreateRebootPodFails
<1>4. PodsOK' /\ OwnLogs' /\ ResultsOK'
  BY <1>2, <1>3, CollectorsUndisturbed
<1>5. DownOK'
  BY <1>2 DEF DownOK
<1>6. CASE CreateRebootPodFails
  <2>1. recovery' = "error" /\ at' = at
    BY <1>6 DEF CreateRebootPodFails, RecoveryFails
  <2>2. TypeOK' /\ ProgressOK'
    BY <1>2, <1>3, <2>1 DEF TypeOK, ProgressOK, collectVars
  <2>3. QED
    BY <1>4, <1>5, <2>2
<1>7. CASE CreateRebootPod
  <2>1. Exists(name)' /\ pods'[name].mine
    BY <1>0, <1>1, <1>7, NewPod DEF CreateRebootPod, TypeOK
  <2>2. \A i \in Positions : Rebooting(i) => Rebooting(i)'
    BY <1>3, PositionsNonempty DEF Rebooting, PodsKept
  <2>3. \A i \in 1 .. at : Rebooting(i)'
    <3>1. 1 .. at = (1 .. at - 1) \cup {at} /\ 1 .. at - 1 \subseteq Positions
      BY <1>1, PositionsNonempty DEF Positions
    <3>2. Rebooting(k)'
      BY <2>1 DEF Rebooting
    <3>3. QED
      BY <1>0, <1>1, <2>2, <3>1, <3>2
  <2>4. CASE at = Len(RebootNodes)
    <3>1. recovery' = "sweep" /\ at' = 1
      BY <1>7, <2>4 DEF CreateRebootPod
    <3>2. at' \in Positions /\ 1 .. at' - 1 = {}
      BY <3>1, PositionsNonempty DEF Positions
    <3>3. \A i \in Positions : Rebooting(i)'
      BY <2>3, <2>4 DEF Positions
    <3>4. TypeOK' /\ ProgressOK'
      BY <1>1, <1>2, <1>3, <3>1, <3>2, <3>3, PositionsNonempty DEF TypeOK, ProgressOK, collectVars
    <3>5. QED
      BY <1>4, <1>5, <3>4
  <2>5. CASE at # Len(RebootNodes)
    <3>1. recovery' = "create" /\ at' = at + 1
      BY <1>7, <2>5 DEF CreateRebootPod
    <3>2. at' \in Positions /\ at' \in 1 .. Len(RebootNodes) + 1 /\ 1 .. at' - 1 = 1 .. at
      BY <1>1, <2>5, <3>1, PositionsNonempty DEF Positions
    <3>3. TypeOK' /\ ProgressOK'
      BY <1>1, <1>2, <1>3, <2>3, <3>1, <3>2 DEF TypeOK, ProgressOK, collectVars
    <3>4. QED
      BY <1>4, <1>5, <3>3
  <2>6. QED
    BY <2>4, <2>5
<1>8. QED
  BY <1>6, <1>7

\* Marking a node that is down, or that the API does not answer for
LEMMA SweepOnStep ==
  ASSUME NodeInv, recovery = "sweep", SweepOn,
         NEW how \in {"NotReady", "unreachable"}, Mark(RebootNodes[at], how),
         how = "NotReady" => RebootNodes[at] \in stopped,
         UNCHANGED <<blocks, clusterVars, perNode, described, collectVars>>
  PROVE  NodeInv'
<1> USE DEF NodeInv
<1> DEFINE n == RebootNodes[at]
<1>1. /\ at \in Positions /\ n \in Nodes /\ blocks < Iterations
      /\ \A i \in 1 .. at - 1 : seen[RebootNodes[i]] # "up"
      /\ \A i \in Positions : Rebooting(i)
  BY PositionsNonempty DEF ProgressOK
<1>2. /\ seen' \in [Nodes -> {"up", "NotReady", "unreachable"}]
      /\ seen'[n] = IF seen[n] = "up" THEN how ELSE seen[n]
      /\ \A m \in Nodes \ {n} : seen'[m] = seen[m]
  BY <1>1 DEF Mark, TypeOK
<1>3. seen'[n] # "up" /\ \A m \in Nodes : seen[m] # "up" => seen'[m] # "up"
  BY <1>2
<1>4. DownOK'
  BY <1>2 DEF DownOK, clusterVars
<1>5. PodsKept
  BY DEF PodsKept, Exists, clusterVars
<1>6. PodsOK' /\ OwnLogs' /\ ResultsOK'
  BY <1>5, CollectorsUndisturbed
<1>7. \A i \in 1 .. at : seen'[RebootNodes[i]] # "up"
  <2>1. \A i \in 1 .. at : i = at \/ i \in 1 .. at - 1
    BY <1>1 DEF Positions
  <2>2. \A i \in 1 .. at : RebootNodes[i] \in Nodes
    BY <1>1, PositionsNonempty DEF Positions
  <2>3. QED
    BY <1>1, <1>3, <2>1, <2>2
<1>8. \A i \in Positions : Rebooting(i)'
  BY <1>1 DEF Rebooting, Exists, clusterVars
<1>9. ProgressOK' /\ at' \in 1 .. Len(RebootNodes) + 1
  <2>1. CASE at < Len(RebootNodes)
    <3>1. /\ recovery' = "sweep" /\ at' \in Positions /\ at' \in 1 .. Len(RebootNodes) + 1
          /\ 1 .. at' - 1 = 1 .. at
      BY <1>1, <2>1, PositionsNonempty DEF SweepOn, Positions
    <3>2. QED
      BY <1>1, <1>7, <1>8, <3>1 DEF ProgressOK
  <2>2. CASE ~(at < Len(RebootNodes))
    <3>1. recovery' = "poll" /\ at' = 1 /\ Positions = 1 .. at
      BY <1>1, <2>2, PositionsNonempty DEF SweepOn, Positions
    <3>2. QED
      BY <1>1, <1>7, <1>8, <3>1, PositionsNonempty DEF ProgressOK
  <2>3. QED
    BY <2>1, <2>2
<1>10. TypeOK'
  BY <1>2, <1>9 DEF TypeOK, SweepOn, ClusterTypeOK, clusterVars, collectVars
<1>11. QED
  BY <1>4, <1>6, <1>9, <1>10

LEMMA RecoveringStep ==
  ASSUME NodeInv, Recovering
  PROVE  NodeInv'
<1>1. CASE CreateRebootPod \/ CreateRebootPodFails
  BY <1>1, CreateStep
<1>2. CASE SweepNode /\ RebootNodes[at] \notin ready
  <2>1. RebootNodes[at] \in stopped
    BY <1>2, PositionsNonempty DEF SweepNode, NodeInv, ProgressOK, DownOK
  <2>2. QED
    BY <1>2, <2>1, SweepOnStep DEF SweepNode
<1>3. CASE SweepUnreachable
  BY <1>3, SweepOnStep DEF SweepUnreachable
<1>4. CASE \/ SweepNode /\ RebootNodes[at] \in ready
           \/ NextSweep \/ NotReadyWaitFails \/ Poll \/ PollFails \/ Sleep
  <2> USE DEF NodeInv
  <2>1. UNCHANGED <<seen, clusterVars, perNode, described, collectVars>>
    BY <1>4 DEF SweepNode, NextSweep, NotReadyWaitFails, Poll, PollFails, Sleep, RecoveryFails
  <2>2. PodsKept
    BY <2>1 DEF PodsKept, Exists, clusterVars
  <2>3. PodsOK' /\ OwnLogs' /\ ResultsOK' /\ DownOK'
    BY <2>1, <2>2, CollectorsUndisturbed DEF DownOK, clusterVars
  <2>4. \A i \in Positions : Rebooting(i)' = Rebooting(i)
    BY <2>1 DEF Rebooting, Exists, clusterVars
  <2>5. recovery' = "sweep" => at' = 1 /\ 1 .. at' - 1 = {} /\ at' \in Positions
    BY <1>4, PositionsNonempty
       DEF SweepNode, NextSweep, NotReadyWaitFails, Poll, PollFails, Sleep, RecoveryFails,
           ProgressOK, Positions
  <2>6. ProgressOK'
    BY <1>4, <2>1, <2>4, <2>5, IterationsPositive
       DEF SweepNode, NextSweep, NotReadyWaitFails, Poll, PollFails, Sleep, RecoveryFails,
           ProgressOK, TypeOK
  <2>7. /\ recovery' \in {"absent", "create", "sweep", "tick", "poll", "sleep", "ok", "error"}
        /\ at' \in 1 .. Len(RebootNodes) + 1 /\ blocks' \in 0 .. Iterations
    BY <1>4, PositionsNonempty, IterationsPositive
       DEF SweepNode, NextSweep, NotReadyWaitFails, Poll, PollFails, Sleep, RecoveryFails,
           ProgressOK, TypeOK
  <2>8. TypeOK'
    BY <2>1, <2>7 DEF TypeOK, ClusterTypeOK, clusterVars, collectVars
  <2>9. QED
    BY <2>3, <2>6, <2>8
<1>5. QED
  BY <1>1, <1>2, <1>3, <1>4 DEF Recovering, RecoveryStep

\* A step of one collector
LEMMA CollectorSteps ==
  ASSUME NodeInv, NEW c \in Collectors, CollectorStep(c)
  PROVE  NodeInv'
<1> USE DEF NodeInv
<1> DEFINE name == PodName[c]
<1>1. name \in PodNames /\ UNCHANGED <<up, ready, stopped, recoveryVars, perNode, described>>
  BY TaskAssumption
     DEF CollectorStep, CreatePod, CreatePodFails, WaitForPodTerminal, Collect, clusterVars
<1>2. /\ collector[c] \in {"create", "wait", "logs"}
      /\ \A d \in Collectors \ {c} :
           collector'[d] = collector[d] /\ waitErr'[d] = waitErr[d] /\ artifact'[d] = artifact[d]
      /\ failed \subseteq failed' /\ failed' \subseteq failed \cup {c}
  BY DEF CollectorStep, CreatePod, CreatePodFails, WaitForPodTerminal, Collect, TypeOK
<1>3. PodsKept /\ ClusterTypeOK'
  <2>1. CASE ~Exists(name) /\ \E host \in Hosts(c) : pods' = WithPod(name, host)
    <3>1. PICK host \in Hosts(c) : pods' = WithPod(name, host)
      BY <2>1
    <3>2. host \in Nodes
      BY <3>1 DEF Hosts, Collectors
    <3>3. QED
      BY <1>1, <2>1, <3>1, <3>2, NewPod DEF TypeOK, ClusterTypeOK
  <2>2. CASE UNCHANGED pods
    BY <1>1, <2>2 DEF TypeOK, ClusterTypeOK, PodsKept, Exists
  <2>3. QED
    BY <2>1, <2>2
       DEF CollectorStep, CreatePod, CreatePodFails, WaitForPodTerminal, Collect, clusterVars
<1>4. DownOK' /\ ProgressOK'
  BY <1>1, <1>3, RecoveryUndisturbed DEF DownOK, recoveryVars
<1>5. PodsOK'
  <2>1. ASSUME NEW d \in Collectors \ {c}
        PROVE  /\ collector'[d] \in {"wait", "logs"} =>
                    /\ Exists(PodName[d])' /\ pods'[PodName[d]].mine
                    /\ d \in Nodes => pods'[PodName[d]].host = d
               /\ collector'[d] = "logs" /\ ~waitErr'[d] => pods'[PodName[d]].phase = "Succeeded"
    <3>1. PodName[d] \in PodNames
      BY TaskAssumption
    <3>2. QED
      BY <1>2, <1>3, <3>1 DEF PodsOK, PodsKept
  <2>2. /\ collector'[c] \in {"wait", "logs"} =>
             /\ Exists(name)' /\ pods'[name].mine
             /\ c \in Nodes => pods'[name].host = c
        /\ collector'[c] = "logs" /\ ~waitErr'[c] => pods'[name].phase = "Succeeded"
    <3>1. CASE CreatePod(c)
      <4>1. PICK host \in Hosts(c) : pods' = WithPod(name, host)
        BY <3>1 DEF CreatePod
      <4>2. host \in Nodes /\ (c \in Nodes => host = c)
        BY <4>1, TaskAssumption DEF Hosts, Collectors
      <4>3. Exists(name)' /\ pods'[name].host = host /\ pods'[name].mine
        BY <1>1, <3>1, <4>1, <4>2, NewPod DEF CreatePod, TypeOK
      <4>4. collector'[c] = "wait"
        BY <3>1 DEF CreatePod, TypeOK
      <4>5. QED
        BY <4>2, <4>3, <4>4
    <3>2. CASE WaitForPodTerminal(c)
      <4>1. UNCHANGED pods /\ collector[c] = "wait" /\ (~waitErr'[c] => pods[name].phase = "Succeeded")
        BY <3>2 DEF WaitForPodTerminal, clusterVars, TypeOK
      <4>2. QED
        BY <4>1 DEF PodsOK, Exists
    <3>3. CASE CreatePodFails(c) \/ \E logsOk, writesOk \in BOOLEAN : Collect(c, logsOk, writesOk)
      BY <3>3 DEF CreatePodFails, Collect, TypeOK
    <3>4. QED
      BY <3>1, <3>2, <3>3 DEF CollectorStep
  <2>3. QED
    BY <2>1, <2>2 DEF PodsOK
<1>6. /\ artifact'[c] \in [from : Sources \cup {NoPod}, complete : BOOLEAN]
      /\ artifact'[c].from # NoPod =>
           artifact'[c].from.mine /\ (c \in Nodes => artifact'[c].from.host = c)
      /\ collector'[c] = "done" /\ c \notin failed' => artifact'[c].complete
  <2>1. CASE CreatePod(c) \/ CreatePodFails(c) \/ WaitForPodTerminal(c)
    BY <2>1 DEF CreatePod, CreatePodFails, WaitForPodTerminal, TypeOK, OwnLogs
  <2>2. ASSUME NEW logsOk \in BOOLEAN, NEW writesOk \in BOOLEAN, Collect(c, logsOk, writesOk)
        PROVE  <1>6!1 /\ <1>6!2 /\ <1>6!3
    <3>1. /\ pods[name] \in Pod /\ pods[name].mine /\ (c \in Nodes => pods[name].host = c)
          /\ ~waitErr[c] => pods[name].phase = "Succeeded"
      BY <1>1, <2>2 DEF Collect, PodsOK, Exists, TypeOK, ClusterTypeOK
    <3>2. Origin(c) \in Sources /\ Origin(c).mine /\ (c \in Nodes => Origin(c).host = c)
      BY <3>1 DEF Origin, Sources, Pod
    <3>3. artifact'[c] = [from |-> IF logsOk THEN Origin(c) ELSE NoPod,
                          complete |-> logsOk /\ writesOk /\ pods[name].phase = "Succeeded"]
      BY <2>2 DEF Collect, TypeOK
    <3>4. c \notin failed' => logsOk /\ writesOk /\ ~waitErr[c]
      BY <2>2 DEF Collect
    <3>5. QED
      BY <3>1, <3>2, <3>3, <3>4
  <2>3. QED
    BY <2>1, <2>2 DEF CollectorStep
<1>7. OwnLogs'
  BY <1>2, <1>6 DEF OwnLogs
<1>8. ResultsOK'
  <2>1. perNode \in {"describe", "ok"} => c \notin Nodes
    BY <1>2 DEF ResultsOK
  <2>2. perNode = "list" => c \notin Nodes
    BY <1>2 DEF ResultsOK
  <2>3. \A n \in Nodes \ {c} : n \in Collectors \ {c}
    BY DEF Collectors
  <2>4. \A d \in Collectors \ {c} : collector'[d] = "done" /\ d \notin failed' => artifact'[d].complete
    BY <1>2 DEF ResultsOK
  <2>5. \A d \in Collectors : collector'[d] = "done" /\ d \notin failed' => artifact'[d].complete
    BY <1>6, <2>4
  <2>6. QED
    BY <1>1, <1>2, <2>1, <2>2, <2>3, <2>5 DEF ResultsOK
<1>9. TypeOK'
  <2>1. collector' \in [Collectors -> {"idle", "create", "wait", "logs", "done"}]
    BY DEF CollectorStep, CreatePod, CreatePodFails, WaitForPodTerminal, Collect, TypeOK
  <2>2. waitErr' \in [Collectors -> BOOLEAN]
    BY DEF CollectorStep, CreatePod, CreatePodFails, WaitForPodTerminal, Collect, TypeOK
  <2>3. artifact' \in [Collectors -> [from : Sources \cup {NoPod}, complete : BOOLEAN]]
    <3>1. artifact' = [artifact EXCEPT ![c] = artifact'[c]]
      BY DEF CollectorStep, CreatePod, CreatePodFails, WaitForPodTerminal, Collect, TypeOK
    <3>2. QED
      BY <1>6, <3>1 DEF TypeOK
  <2>4. QED
    BY <1>1, <1>2, <1>3, <2>1, <2>2, <2>3 DEF TypeOK, recoveryVars
<1>10. QED
  BY <1>4, <1>5, <1>7, <1>8, <1>9

LEMMA PerNodeSteps ==
  ASSUME NodeInv, PerNodeStep
  PROVE  NodeInv'
<1> USE DEF NodeInv
<1>1. UNCHANGED <<clusterVars, recoveryVars, waitErr, failed, artifact>>
  BY DEF PerNodeStep, ListNodes, ListNodesFails, AllCollected, Describe, collectVars
<1>2. PodsKept /\ DownOK' /\ OwnLogs'
  BY <1>1 DEF PodsKept, Exists, DownOK, OwnLogs, clusterVars, recoveryVars
<1>3. ProgressOK'
  BY <1>1, <1>2, RecoveryUndisturbed DEF clusterVars
<1>4. CASE ListNodes
  <2>1. /\ perNode = "list" /\ perNode' = "collect" /\ described' = described
        /\ collector' = [c \in Collectors |-> IF c \in Nodes THEN "create" ELSE collector[c]]
    BY <1>4 DEF ListNodes
  <2>2. \A c \in Collectors : collector'[c] # "create" => collector'[c] = collector[c]
    BY <2>1
  <2>3. PodsOK'
    BY <1>1, <2>2 DEF PodsOK, Exists, clusterVars
  <2>4. ResultsOK'
    BY <1>1, <2>1, <2>2 DEF ResultsOK
  <2>5. collector' \in [Collectors -> {"idle", "create", "wait", "logs", "done"}]
    BY <2>1 DEF TypeOK
  <2>6. TypeOK'
    BY <1>1, <2>1, <2>5 DEF TypeOK, ClusterTypeOK, clusterVars, recoveryVars
  <2>7. QED
    BY <1>2, <1>3, <2>3, <2>4, <2>6
<1>5. CASE ListNodesFails \/ AllCollected \/ \E ok \in BOOLEAN : Describe(ok)
  <2>1. UNCHANGED collector
    BY <1>5 DEF ListNodesFails, AllCollected, Describe, collectVars
  <2>2. PodsOK'
    BY <1>1, <2>1 DEF PodsOK, Exists, clusterVars
  <2>3. ResultsOK'
    BY <1>1, <1>5, <2>1 DEF ListNodesFails, AllCollected, Describe, ResultsOK
  <2>4. perNode' \in {"absent", "list", "collect", "describe", "ok", "error"} /\ described' \in BOOLEAN
    BY <1>5 DEF ListNodesFails, AllCollected, Describe, TypeOK
  <2>5. TypeOK'
    BY <1>1, <2>1, <2>4 DEF TypeOK, ClusterTypeOK, clusterVars, recoveryVars
  <2>6. QED
    BY <1>2, <1>3, <2>2, <2>3, <2>5
<1>6. QED
  BY <1>4, <1>5 DEF PerNodeStep

LEMMA NodeStep ==
  ASSUME NodeInv, [Next]_vars
  PROVE  NodeInv'
<1>1. CASE UNCHANGED vars
  BY <1>1 DEF vars, clusterVars, recoveryVars, collectVars, NodeInv, TypeOK, ClusterTypeOK, DownOK,
              ProgressOK, Rebooting, Exists, PodsOK, OwnLogs, ResultsOK
<1>2. QED
  BY <1>1, StepKinds, RecoveringStep, PerNodeSteps, CollectorSteps, AroundStep DEF Collecting

\* The inductive invariant of the node tasks.
THEOREM NodeInvariant == Spec => []NodeInv
BY NodeInit, NodeStep, PTL DEF Spec

-----------------------------------------------------------------------------
\* Type correctness of the tasks and of the cluster as they see it.
THEOREM TypeCorrect == Spec => []TypeOK
<1>1. NodeInv => TypeOK
  BY DEF NodeInv
<1>2. QED
  BY <1>1, NodeInvariant, PTL

\* Workloads are polled only after every listed node went down by a reboot pod of
\* this run, or the API did not answer for it: however many nodes are rebooted.
THEOREM PollingFollowsReboot == Spec => []PollsAfterReboot
<1>1. ASSUME NodeInv PROVE PollsAfterReboot
  <2>1. DOMAIN RebootNodes = Positions
    BY TaskAssumption DEF Positions
  <2>2. \A i \in Positions : RebootNodes[i] \in Nodes
    BY PositionsNonempty
  <2>3. ASSUME recovery \in {"poll", "sleep", "ok"}, NEW i \in Positions
        PROVE  /\ Rebooting(i)
               /\ seen[RebootNodes[i]] \in {"NotReady", "unreachable"}
               /\ seen[RebootNodes[i]] = "NotReady" => RebootNodes[i] \in stopped
    BY <1>1, <2>2, <2>3 DEF NodeInv, ProgressOK, DownOK, TypeOK
  <2>4. QED
    BY <2>1, <2>3 DEF PollsAfterReboot, Rebooting
<1>2. QED
  BY <1>1, NodeInvariant, PTL

\* No collector keeps the logs of another node or of an earlier run, however the
\* pod names collide.
THEOREM LogsAreOwn == Spec => []OwnLogs
<1>1. NodeInv => OwnLogs
  BY DEF NodeInv
<1>2. QED
  BY <1>1, NodeInvariant, PTL

\* Success means complete files for every node, the announced number of
\* snapshots, and oslat's log.
THEOREM SuccessAlwaysComplete == Spec => []SuccessIsComplete
<1>1. ASSUME NodeInv PROVE SuccessIsComplete
  <2>1. ASSUME perNode = "ok"
        PROVE  described /\ \A n \in Nodes : artifact[n].complete
    BY <1>1, <2>1 DEF NodeInv, ResultsOK, Collectors
  <2>2. recovery = "ok" => blocks = Iterations
    BY <1>1 DEF NodeInv, ProgressOK
  <2>3. collector[Oslat] = "done" /\ Oslat \notin failed => artifact[Oslat].complete
    BY <1>1 DEF NodeInv, ResultsOK, Collectors
  <2>4. QED
    BY <2>1, <2>2, <2>3 DEF SuccessIsComplete
<1>2. QED
  BY <1>1, NodeInvariant, PTL
=============================================================================
