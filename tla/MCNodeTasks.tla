----------------------------- MODULE MCNodeTasks -----------------------------
(* Two nodes, both rebooted.  Their debug pods have names of their own, but  *)
(* the user gave the oslat pod the name of one of them, and an earlier run   *)
(* may have left the other.                                                  *)
EXTENDS NodeTasks

\* The tasks meet two by two.
MCTaskSets ==
  {{"app-recovery-time", "per-node-data"}, {"app-recovery-time", "oslat"},
   {"per-node-data", "oslat"}}

MCRebootNodes == <<"n1", "n2">>
MCRebootPod == [n \in Nodes |-> IF n = "n1" THEN "reboot1" ELSE "reboot2"]
MCPodName == [c \in Collectors |-> IF c = "n2" THEN "debug2" ELSE "debug1"]
==============================================================================
