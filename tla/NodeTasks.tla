------------------------------ MODULE NodeTasks ------------------------------
(***************************************************************************)
(* The tasks that act on the nodes, those a tasks file has side by side as *)
(* with orchestration mode parallel: app-recovery-time reboots nodes and polls  *)
(* their workloads, per-node-data collects from one debug pod per node,    *)
(* oslat runs a pod of the user.  They share the cluster, its nodes and    *)
(* its pod names; every API call may fail, and a Create may fail after it  *)
(* took effect.                                                            *)
(***************************************************************************)
EXTENDS Cluster, Integers, Sequences, FiniteSets

CONSTANTS
  TaskSets,          \* the sets of tasks a tasks file may have
  Oslat,             \* the oslat task, as a collector
  RebootNodes,       \* nodeNames of app-recovery-time, a sequence
  RebootPod,         \* per node, the name of its reboot pod
  PodName,           \* per collector, its pod: debugPodName(node), or the user's
  Duration,          \* of app-recovery-time, with its interval
  Interval

\* A goroutine of collectAll is named by its node.
Collectors == Nodes \cup {Oslat}

ASSUME TaskAssumption ==
  /\ TaskSets \subseteq SUBSET {"app-recovery-time", "per-node-data", "oslat"}
  /\ Oslat \notin Nodes
  /\ RebootNodes \in Seq(Nodes) /\ RebootNodes # <<>>
  /\ RebootPod \in [Nodes -> RebootPods]
  /\ PodName \in [Collectors -> PodNames \ RebootPods]
  /\ Duration \in Nat /\ Interval \in Nat \ {0} /\ Interval < Duration

VARIABLES
  recovery,          \* where AppRecoveryTimeTask.Run is
  at,                \* the node of RebootNodes it is at
  seen,              \* reported: how each node was found down
  blocks,            \* blocks written to pod_status.out
  perNode,           \* where PerNodeDataTask.Run is
  described,         \* its describe files are written
  collector,         \* where each collector is
  waitErr,           \* its WaitForPodTerminal failed
  failed,            \* collectors that returned an error
  artifact           \* what its files hold: whose logs, and whether all of them

recoveryVars == <<recovery, at, seen, blocks>>
collectVars  == <<collector, waitErr, failed, artifact>>
vars == <<clusterVars, recoveryVars, perNode, described, collectVars>>

Iterations == Duration \div Interval

\* Where logs come from: a node, and a pod of this run or an earlier one
Sources == [host : Nodes, mine : BOOLEAN]

NoFile == [from |-> NoPod, complete |-> FALSE]

TypeOK ==
  /\ ClusterTypeOK
  /\ recovery \in {"absent", "create", "sweep", "tick", "poll", "sleep", "ok", "error"}
  /\ at \in 1 .. Len(RebootNodes) + 1
  /\ seen \in [Nodes -> {"up", "NotReady", "unreachable"}]
  /\ blocks \in 0 .. Iterations
  /\ perNode \in {"absent", "list", "collect", "describe", "ok", "error"}
  /\ described \in BOOLEAN
  /\ collector \in [Collectors -> {"idle", "create", "wait", "logs", "done"}]
  /\ waitErr \in [Collectors -> BOOLEAN]
  /\ failed \subseteq Collectors
  /\ artifact \in [Collectors -> [from : Sources \cup {NoPod}, complete : BOOLEAN]]

Init ==
  /\ ClusterInit
  /\ at = 1
  /\ seen = [n \in Nodes |-> "up"]
  /\ blocks = 0
  /\ described = FALSE
  /\ \E present \in TaskSets :
       /\ recovery = IF "app-recovery-time" \in present THEN "create" ELSE "absent"
       /\ perNode = IF "per-node-data" \in present THEN "list" ELSE "absent"
       /\ collector = [c \in Collectors |->
            IF c = Oslat /\ "oslat" \in present THEN "create" ELSE "idle"]
  /\ waitErr = [c \in Collectors |-> FALSE]
  /\ failed = {}
  /\ artifact = [c \in Collectors |-> NoFile]

-----------------------------------------------------------------------------
(* AppRecoveryTimeTask.Run *)

RecoveryFails ==
  /\ recovery' = "error"
  /\ UNCHANGED <<at, seen, blocks>>

\* CreateRebootPod for the next node
CreateRebootPod ==
  LET n == RebootNodes[at]
      last == at = Len(RebootNodes)
  IN /\ recovery = "create"
     /\ ~Exists(RebootPod[n])
     /\ pods' = WithPod(RebootPod[n], n)
     /\ recovery' = IF last THEN "sweep" ELSE "create"
     /\ at' = IF last THEN 1 ELSE at + 1
     /\ UNCHANGED <<up, ready, stopped, seen, blocks, perNode, described, collectVars>>

\* The name is taken, or the call fails, with the pod created or not; the nodes
\* before this one reboot all the same.
CreateRebootPodFails ==
  /\ recovery = "create"
  /\ \/ UNCHANGED pods
     \/ /\ ~Exists(RebootPod[RebootNodes[at]])
        /\ pods' = WithPod(RebootPod[RebootNodes[at]], RebootNodes[at])
  /\ RecoveryFails
  /\ UNCHANGED <<up, ready, stopped, perNode, described, collectVars>>

\* The next node of a sweep, or polling when it was the last one
SweepOn ==
  /\ at' = IF at < Len(RebootNodes) THEN at + 1 ELSE 1
  /\ recovery' = IF at < Len(RebootNodes) THEN "sweep" ELSE "poll"

\* markNodeNotReady reports a node once.
Mark(n, how) == seen' = [seen EXCEPT ![n] = IF @ = "up" THEN how ELSE @]

\* A sweep that passes over the nodes still Ready
SweepPassesReady ==
  LET n == RebootNodes[at]
  IN /\ recovery = "sweep"
     /\ SweepOn
     /\ IF n \in ready THEN UNCHANGED seen ELSE Mark(n, "NotReady")
     /\ UNCHANGED <<blocks, clusterVars, perNode, described, collectVars>>

\* nodesNotReady, the answer for one node: the first Ready node ends the sweep
\* until the next tick, nodes seen down before it are asked again.
SweepNode ==
  LET n == RebootNodes[at]
  IN /\ recovery = "sweep"
     /\ IF n \in ready
        THEN recovery' = "tick" /\ at' = 1 /\ UNCHANGED seen
        ELSE SweepOn /\ Mark(n, "NotReady")
     /\ UNCHANGED <<blocks, clusterVars, perNode, described, collectVars>>

\* isAPIUnreachable: no answer counts as NotReady.
SweepUnreachable ==
  /\ recovery = "sweep"
  /\ SweepOn /\ Mark(RebootNodes[at], "unreachable")
  /\ UNCHANGED <<blocks, clusterVars, perNode, described, collectVars>>

NextSweep ==
  /\ recovery = "tick"
  /\ recovery' = "sweep"
  /\ UNCHANGED <<at, seen, blocks, clusterVars, perNode, described, collectVars>>

\* Another error, or the five minutes of waitCtx are over.
NotReadyWaitFails ==
  /\ recovery \in {"sweep", "tick"}
  /\ RecoveryFails
  /\ UNCHANGED <<clusterVars, perNode, described, collectVars>>

\* A loop with one turn too many
PollTooOften ==
  /\ recovery = "poll"
  /\ blocks' = blocks + 1
  /\ recovery' = IF blocks = Iterations THEN "ok" ELSE "sleep"
  /\ UNCHANGED <<at, seen, clusterVars, perNode, described, collectVars>>

\* writePollBlock: a namespace whose pods cannot be listed gets an error line.
Poll ==
  /\ recovery = "poll"
  /\ blocks' = blocks + 1
  /\ recovery' = IF blocks' = Iterations THEN "ok" ELSE "sleep"
  /\ UNCHANGED <<at, seen, clusterVars, perNode, described, collectVars>>

\* pod_status.out cannot be created or written.
PollFails ==
  /\ recovery = "poll"
  /\ RecoveryFails
  /\ UNCHANGED <<clusterVars, perNode, described, collectVars>>

Sleep ==
  /\ recovery = "sleep"
  /\ recovery' = "poll"
  /\ UNCHANGED <<at, seen, blocks, clusterVars, perNode, described, collectVars>>

-----------------------------------------------------------------------------
(* A collector: collectNode, and OslatTask.Run *)

\* debugPod names its node, the user's pod is placed by the scheduler.
Hosts(c) == IF c = Oslat THEN Nodes ELSE {c}

\* A Create that takes a pod of the same name for its own
CreateOrReuse(c) ==
  /\ collector[c] = "create"
  /\ collector' = [collector EXCEPT ![c] = "wait"]
  /\ \E host \in Hosts(c) :
       pods' = IF Exists(PodName[c]) THEN pods ELSE WithPod(PodName[c], host)
  /\ UNCHANGED <<up, ready, stopped, recoveryVars, perNode, described, waitErr, failed,
                 artifact>>

CreatePod(c) ==
  /\ collector[c] = "create"
  /\ ~Exists(PodName[c])
  /\ collector' = [collector EXCEPT ![c] = "wait"]
  /\ \E host \in Hosts(c) : pods' = WithPod(PodName[c], host)
  /\ UNCHANGED <<up, ready, stopped, recoveryVars, perNode, described, waitErr, failed,
                 artifact>>

\* The name is taken, or the call fails, with the pod created or not.
CreatePodFails(c) ==
  /\ collector[c] = "create"
  /\ \/ UNCHANGED pods
     \/ /\ ~Exists(PodName[c])
        /\ \E host \in Hosts(c) : pods' = WithPod(PodName[c], host)
  /\ collector' = [collector EXCEPT ![c] = "done"]
  /\ failed' = failed \cup {c}
  /\ UNCHANGED <<up, ready, stopped, recoveryVars, perNode, described, waitErr, artifact>>

\* A wait without a deadline
WaitForTerminalOnly(c) ==
  /\ collector[c] = "wait"
  /\ pods[PodName[c]].phase \in {"Succeeded", "Failed"}
  /\ waitErr' = [waitErr EXCEPT ![c] = pods[PodName[c]].phase = "Failed"]
  /\ collector' = [collector EXCEPT ![c] = "logs"]
  /\ UNCHANGED <<clusterVars, recoveryVars, perNode, described, failed, artifact>>

\* WaitForPodTerminal returns: the pod has ended, or at any moment a Get fails
\* or the timeout expires.
WaitForPodTerminal(c) ==
  /\ collector[c] = "wait"
  /\ \/ /\ pods[PodName[c]].phase \in {"Succeeded", "Failed"}
        /\ waitErr' = [waitErr EXCEPT ![c] = pods[PodName[c]].phase = "Failed"]
     \/ waitErr' = [waitErr EXCEPT ![c] = TRUE]
  /\ collector' = [collector EXCEPT ![c] = "logs"]
  /\ UNCHANGED <<clusterVars, recoveryVars, perNode, described, failed, artifact>>

Origin(c) == [host |-> pods[PodName[c]].host, mine |-> pods[PodName[c]].mine]

\* A collector that takes the end of its pod for the end of its work
CollectUnverified(c, logsOk, writesOk) ==
  /\ collector[c] = "logs"
  /\ artifact' = [artifact EXCEPT ![c] =
       [from |-> IF logsOk THEN Origin(c) ELSE NoPod,
        complete |-> logsOk /\ writesOk /\ pods[PodName[c]].phase = "Succeeded"]]
  /\ failed' = IF waitErr[c] THEN failed \cup {c} ELSE failed
  /\ collector' = [collector EXCEPT ![c] = "done"]
  /\ waitErr' = [waitErr EXCEPT ![c] = FALSE]
  /\ UNCHANGED <<clusterVars, recoveryVars, perNode, described>>

\* GetPodLogs, and the files: all of them when the script got to its end
\* (splitCollectLogs finds both markers), else what there is, and an error.
Collect(c, logsOk, writesOk) ==
  LET whole == logsOk /\ writesOk /\ pods[PodName[c]].phase = "Succeeded"
      logErr == ~logsOk \/ ~writesOk \/ (c # Oslat /\ ~whole)
  IN /\ collector[c] = "logs"
     /\ artifact' = [artifact EXCEPT ![c] =
          [from |-> IF logsOk THEN Origin(c) ELSE NoPod, complete |-> whole]]
     /\ failed' = IF waitErr[c] \/ logErr THEN failed \cup {c} ELSE failed
     /\ collector' = [collector EXCEPT ![c] = "done"]
     /\ waitErr' = [waitErr EXCEPT ![c] = FALSE]
     /\ UNCHANGED <<clusterVars, recoveryVars, perNode, described>>

-----------------------------------------------------------------------------
(* PerNodeDataTask.Run *)

\* ListNodeNames, then one goroutine per node
ListNodes ==
  /\ perNode = "list"
  /\ perNode' = "collect"
  /\ collector' = [c \in Collectors |-> IF c \in Nodes THEN "create" ELSE collector[c]]
  /\ UNCHANGED <<clusterVars, recoveryVars, described, waitErr, failed, artifact>>

ListNodesFails ==
  /\ perNode = "list"
  /\ perNode' = "error"
  /\ UNCHANGED <<clusterVars, recoveryVars, described, collectVars>>

\* wg.Wait
AllCollected ==
  /\ perNode = "collect"
  /\ \A n \in Nodes : collector[n] = "done"
  /\ perNode' = "describe"
  /\ UNCHANGED <<clusterVars, recoveryVars, described, collectVars>>

\* writeDescribes runs whatever the nodes gave; either error is returned.
Describe(ok) ==
  /\ perNode = "describe"
  /\ described' = ok
  /\ perNode' = IF ok /\ failed \cap Nodes = {} THEN "ok" ELSE "error"
  /\ UNCHANGED <<clusterVars, recoveryVars, collectVars>>

-----------------------------------------------------------------------------
RecoveryOver == recovery \in {"absent", "ok", "error"}
PerNodeOver == perNode \in {"absent", "ok", "error"}
OslatOver == collector[Oslat] \in {"idle", "done"}

Terminated ==
  /\ RecoveryOver /\ PerNodeOver /\ OslatOver
  /\ UNCHANGED vars

RecoveryStep ==
  \/ CreateRebootPod
  \/ CreateRebootPodFails
  \/ SweepNode
  \/ SweepUnreachable
  \/ NextSweep
  \/ Poll
  \/ PollFails
  \/ Sleep

CollectorStep(c) ==
  \/ CreatePod(c)
  \/ CreatePodFails(c)
  \/ WaitForPodTerminal(c)
  \/ \E logsOk, writesOk \in BOOLEAN : Collect(c, logsOk, writesOk)

PerNodeStep ==
  \/ ListNodes
  \/ ListNodesFails
  \/ AllCollected
  \/ \E ok \in BOOLEAN : Describe(ok)

Next ==
  \/ RecoveryStep
  \/ NotReadyWaitFails
  \/ PerNodeStep
  \/ \E c \in Collectors : CollectorStep(c)
  \/ ClusterStep /\ UNCHANGED <<recoveryVars, perNode, described, collectVars>>
  \/ Terminated

(***************************************************************************)
(* Goroutines are scheduled, and each wait has a deadline.  That a single  *)
(* call returns is an assumption: Create, GetPodLogs and the listing of    *)
(* nodes have no timeout of their own.  Nodes and pods may hang for ever.  *)
(***************************************************************************)
Fairness ==
  /\ WF_vars(RecoveryStep)
  /\ WF_vars(NotReadyWaitFails)
  /\ WF_vars(PerNodeStep)
  /\ \A c \in Collectors : WF_vars(CollectorStep(c))

Spec == Init /\ [][Next]_vars /\ Fairness

-----------------------------------------------------------------------------
(***************************************************************************)
(* Properties                                                              *)
(***************************************************************************)

\* The workloads are polled only after every listed node was found down: down
\* by its reboot, or hidden by an API that did not answer.  A node that is still
\* up in the API's eyes keeps the polling from starting.
PollsAfterReboot ==
  recovery \in {"poll", "sleep", "ok"} =>
    \A i \in DOMAIN RebootNodes :
      LET n == RebootNodes[i]
      IN /\ Exists(RebootPod[n]) /\ pods[RebootPod[n]].mine
         /\ \/ seen[n] = "NotReady" /\ n \in stopped
            \/ seen[n] = "unreachable"

\* The files of a node hold the logs of a pod of this run on that very node,
\* although pod names may collide and pods of earlier runs are never deleted.
OwnLogs ==
  \A c \in Collectors :
    LET pod == artifact[c].from
    IN pod # NoPod => pod.mine /\ (c \in Nodes => pod.host = c)

\* A task that reports success has produced all it promises, even when another
\* task reboots nodes under it: files complete for every node and the describe
\* files, the announced number of snapshots, and for oslat its log.
SuccessIsComplete ==
  /\ perNode = "ok" => described /\ \A n \in Nodes : artifact[n].complete
  /\ recovery = "ok" => blocks = Iterations
  /\ collector[Oslat] = "done" /\ Oslat \notin failed => artifact[Oslat].complete

\* No task waits for ever for a node or a pod.
TasksEnd == <>(RecoveryOver /\ PerNodeOver /\ OslatOver)

==============================================================================
