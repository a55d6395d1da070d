\* Every db show command beside two changes of the database.
SPECIFICATION Spec
CONSTANTS
  load = load
  temp = temp
  cpu = cpu
  mem = mem
  none = none
  alpha = alpha
  beta = beta
  Absent = Absent
  Kpis = {load, temp}
  Categories = {cpu, mem}
  Uncategorized = none
  Names = {alpha, beta}
  Points = {1, 2, 3}
  MaxClusters = 2
  TimeOf <- Times
  LabelsOf <- SomeLabels
  Now = 9
  Stores <- SomeStores
  Commands <- SomeCommands
  MaxChanges = 2
INVARIANTS
  TypeOK
  NothingMissed
  ShownIsSound
  TotalsWithin
