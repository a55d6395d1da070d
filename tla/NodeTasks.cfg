SPECIFICATION Spec
CONSTANTS
  Nodes = {"n1", "n2"}
  PodNames = {"reboot1", "reboot2", "debug1", "debug2"}
  RebootPods = {"reboot1", "reboot2"}
  OldPods = {"reboot2", "debug2"}
  NoPod = NoPod
  TaskSets <- MCTaskSets
  Oslat = Oslat
  RebootNodes <- MCRebootNodes
  RebootPod <- MCRebootPod
  PodName <- MCPodName
  Duration = 5
  Interval = 2
INVARIANTS
  TypeOK
  PollsAfterReboot
  OwnLogs
  SuccessIsComplete
PROPERTIES
  TasksEnd
