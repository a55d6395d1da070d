\* Two groups: frequency 1 is prompt, frequency 2 may be late by any amount.
SPECIFICATION Spec
CONSTANTS
  snapshot = snapshot
  cpu = cpu
  mem = mem
  disk = disk
  Kpis <- MixedKpis
  RunOnce = {snapshot}
  SampleFrequency <- MixedFrequency
  SamplingFreq = 1
  Duration = 3
  Second = 1
  Prompt = {1}
  Horizon = 5
  MaxSamples = 6
INVARIANTS
  TypeOK
  NoUseAfterClose
  SampleCountExact
  NotAheadOfClock
  NoGroupKilled
PROPERTIES
  InterruptStops
  ImplementsJob
