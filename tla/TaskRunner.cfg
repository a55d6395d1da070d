\* Up to three tasks, in two orders, with every choice of orchestration.
SPECIFICATION Spec
CONSTANTS
  prometheus = prometheus
  oslat = oslat
  recovery = recovery
  Prometheus = prometheus
  Recovery = recovery
  Orders <- SomeOrders
INVARIANTS
  TypeOK
  VerdictExact
  OnlyFailFastSkips
  NoOverlap
  ArchiveComplete
PROPERTIES
  RunEnds
