----------------------------- MODULE MCCollector -----------------------------
(* Instances of Collector for TLC. *)
EXTENDS Collector, TLC

CONSTANTS snapshot, cpu, mem, disk

\* A run-once KPI, two KPIs at the default frequency, one with its own.
MixedKpis == {snapshot, cpu, mem, disk}
MixedFrequency == (snapshot :> 0) @@ (cpu :> 0) @@ (mem :> 0) @@ (disk :> 2)

\* A unit of half a second: the default is one second, cpu asks for 500ms.
FractionalKpis == {snapshot, cpu}
FractionalFrequency == (snapshot :> 0) @@ (cpu :> 1)
==============================================================================
