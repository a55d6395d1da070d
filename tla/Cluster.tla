------------------------------- MODULE Cluster -------------------------------
(***************************************************************************)
(* The cluster the node tasks work on, as far as they can tell: nodes that *)
(* go down when a reboot pod runs on them and are seen NotReady some time  *)
(* after that, if at all; pods, which keep their names until somebody      *)
(* deletes them, and nobody does.  External to the repository.             *)
(***************************************************************************)
CONSTANTS
  Nodes,
  PodNames,
  RebootPods,        \* names of the pods that reboot their host
  OldPods,           \* names an earlier run may have used
  NoPod              \* no pod has this name

VARIABLES
  up,                \* nodes that are running
  ready,             \* nodes the API server reports Ready
  stopped,           \* history: nodes that have gone down
  pods               \* per name: host, phase, and whether this run created it

clusterVars == <<up, ready, stopped, pods>>

(***************************************************************************)
(* A pod is Running from its creation; it makes progress while its node is *)
(* up.  One whose node went down under it (Interrupted) looks Running too. *)
(***************************************************************************)
Phases == {"Running", "Interrupted", "Succeeded", "Failed"}

Pod == [host : Nodes, phase : Phases, mine : BOOLEAN]

ASSUME ClusterAssumption ==
  /\ RebootPods \subseteq PodNames /\ OldPods \subseteq PodNames
  /\ NoPod \notin Pod

ClusterTypeOK ==
  /\ up \subseteq Nodes
  /\ ready \subseteq Nodes
  /\ stopped \subseteq Nodes
  /\ pods \in [PodNames -> Pod \cup {NoPod}]

Exists(name) == pods[name] # NoPod
Runs(name) == Exists(name) /\ pods[name].phase = "Running"

\* Earlier runs may have left their pods, which have ended.
ClusterInit ==
  /\ up = Nodes
  /\ ready = Nodes
  /\ stopped = {}
  /\ pods \in [PodNames -> {NoPod} \cup [host : Nodes, phase : {"Succeeded"}, mine : {FALSE}]]
  /\ \A name \in PodNames \ OldPods : pods[name] = NoPod

\* What a Create that reaches the server does to the pods
WithPod(name, host) ==
  [pods EXCEPT ![name] = [host |-> host, phase |-> "Running", mine |-> TRUE]]

Moved(name, phase) == [pods EXCEPT ![name].phase = phase]

PodEnds(name) ==
  /\ Runs(name) /\ pods[name].host \in up /\ name \notin RebootPods
  /\ \E phase \in {"Succeeded", "Failed"} : pods' = Moved(name, phase)
  /\ UNCHANGED <<up, ready, stopped>>

On(n, phase) == {name \in PodNames : Exists(name) /\ pods[name].host = n
                                       /\ pods[name].phase = phase}

\* A reboot pod at work: every pod on the node is cut off.
NodeStops(n) ==
  /\ n \in up /\ On(n, "Running") \cap RebootPods # {}
  /\ up' = up \ {n}
  /\ stopped' = stopped \cup {n}
  /\ pods' = [name \in PodNames |-> IF name \in On(n, "Running")
                                    THEN [pods[name] EXCEPT !.phase = "Interrupted"]
                                    ELSE pods[name]]
  /\ UNCHANGED ready

NodeNoticed(n) ==
  /\ n \in ready \ up
  /\ ready' = ready \ {n}
  /\ UNCHANGED <<up, stopped, pods>>

\* The node is back; with restartPolicy Never its pods have failed.
NodeBoots(n) ==
  /\ n \in Nodes \ up
  /\ up' = up \cup {n}
  /\ pods' = [name \in PodNames |-> IF name \in On(n, "Interrupted")
                                    THEN [pods[name] EXCEPT !.phase = "Failed"]
                                    ELSE pods[name]]
  /\ UNCHANGED <<ready, stopped>>

NodeReady(n) ==
  /\ n \in up \ ready
  /\ ready' = ready \cup {n}
  /\ UNCHANGED <<up, stopped, pods>>

ClusterStep ==
  \/ \E name \in PodNames : PodEnds(name)
  \/ \E n \in Nodes : NodeStops(n) \/ NodeNoticed(n) \/ NodeBoots(n) \/ NodeReady(n)

==============================================================================
