\* db remove clusters while a collection runs, on SQLite.
SPECIFICATION Spec
CONSTANTS
  c1 = c1
  c2 = c2
  load = load
  temp = temp
  cpu = cpu
  mem = mem
  none = none
  alpha = alpha
  Collectors = {c1}
  Kpis = {load, temp}
  NoKpi = NoKpi
  Categories = {cpu, mem}
  Uncategorized = none
  Names = {alpha}
  NameOf <- OneName
  Jobs <- OneJob
  Backends = {"sqlite"}
  MaxClusters = 2
  MaxCalls = 2
  MaxRemovals = 1
INVARIANTS
  RemovedClusterLeavesNothing
