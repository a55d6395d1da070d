\* Ctrl+C during app-recovery-time, after a collection.
SPECIFICATION Spec
CONSTANTS
  prometheus = prometheus
  oslat = oslat
  recovery = recovery
  Prometheus = prometheus
  Recovery = recovery
  Orders <- DefaultOrder
INVARIANTS
  CtrlCFailsRecovery
