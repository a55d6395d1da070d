----------------------------- MODULE MCTaskRunner -----------------------------
(* Instances of TaskRunner for TLC. *)
EXTENDS TaskRunner

CONSTANTS prometheus, oslat, recovery

\* The default order, a reversed one, and a run of one task.
SomeOrders == {<<prometheus, oslat, recovery>>, <<recovery, oslat, prometheus>>,
               <<prometheus>>}

DefaultOrder == {<<prometheus, recovery>>}
==============================================================================
