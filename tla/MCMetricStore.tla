---------------------------- MODULE MCMetricStore ----------------------------
(* Instances of MetricStore for TLC. *)
EXTENDS MetricStore, TLC

CONSTANTS c1, c2, load, temp, cpu, mem, none, alpha

\* load keeps its category; temp has another one, or none, in other KPI files.
ChangingJobs ==
  {(load :> cpu) @@ (temp :> cpu), (temp :> mem), (temp :> none)}

\* Every run gives load the same category.
OneJob == {(load :> cpu)}

OneName == [c \in Collectors |-> alpha]

CollectorSymmetry == Permutations(Collectors)
==============================================================================
