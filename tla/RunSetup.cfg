SPECIFICATION Spec
CONSTANTS
  Absent = Absent
  Inputs <- MCInputs
  Clusters <- MCClusters
  DefaultFrequency = 1
  DefaultDuration = 4
  Buffer = 2
  OnceLifetime = 5
  UncategorizedThreshold = 2
  SetupBound = 3
  MaxLate = 2
INVARIANTS
  TypeOK
  TokenLasts
  JobSound
  TasksSound
  WindowsForward
  DoctorForetells
PROPERTIES
  GapWithinLateness
