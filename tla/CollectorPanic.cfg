\* A sample-frequency of half a second.
SPECIFICATION Spec
CONSTANTS
  snapshot = snapshot
  cpu = cpu
  mem = mem
  disk = disk
  Kpis <- FractionalKpis
  RunOnce = {snapshot}
  SampleFrequency <- FractionalFrequency
  SamplingFreq = 2
  Duration = 4
  Second = 2
  Prompt = {1, 2}
  Horizon = 6
  MaxSamples = 6
INVARIANTS
  NeverPanics
