\* Two collectors and one user of db remove, on both backends.
SPECIFICATION Spec
CONSTANTS
  c1 = c1
  c2 = c2
  load = load
  temp = temp
  cpu = cpu
  mem = mem
  none = none
  alpha = alpha
  Collectors = {c1, c2}
  Kpis = {load, temp}
  NoKpi = NoKpi
  Categories = {cpu, mem}
  Uncategorized = none
  Names = {alpha}
  NameOf <- OneName
  Jobs <- ChangingJobs
  Backends = {"sqlite", "postgres"}
  MaxClusters = 2
  MaxCalls = 2
  MaxRemovals = 2
SYMMETRY CollectorSymmetry
INVARIANTS
  TypeOK
  TablesExist
  SteadyFoundByName
  OneIdPerCluster
PROPERTIES
  CategoryIsKept
  ImplementsStore
