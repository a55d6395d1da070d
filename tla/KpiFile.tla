------------------------------- MODULE KpiFile -------------------------------
(***************************************************************************)
(* The pure part of package config: what makes the KPIs of a file and the  *)
(* settings around them acceptable, and what a KPI then asks Prometheus    *)
(* for.  Times are integers, a missing field is Absent.  A PromQL text is  *)
(* one of three classes: "plain", "placeholders" (it holds                 *)
(* {{RESERVED_CPUS}} or {{ISOLATED_CPUS}}) or "broken" (empty, or the      *)
(* parser rejects it); a category that SanitizeCategory rejects is         *)
(* "unusable".                                                             *)
(***************************************************************************)
EXTENDS Integers, Sequences, FiniteSets

CONSTANT Absent

Optional(S) == S \cup {Absent}

TimeRef == [isDuration : BOOLEAN, value : Int]

\* config.Query, as it is decoded
Kpi ==
  [id : STRING, promquery : {"plain", "placeholders", "broken"}, category : Optional(STRING),
   frequency : Optional(Int), queryType : Optional(STRING), runOnce : BOOLEAN,
   range : Optional([step : Optional(Int), since : Optional(TimeRef), until : Optional(TimeRef)])]

Given(x, default) == IF x = Absent THEN default ELSE x

\* Query.GetEffectiveQueryType, Query.GetEffectiveFrequency, Query.IsRunOnce
EffectiveQueryType(kpi) == Given(kpi.queryType, "instant")

EffectiveFrequency(kpi, default) ==
  IF kpi.frequency # Absent /\ kpi.frequency > 0 THEN kpi.frequency ELSE default

-----------------------------------------------------------------------------
(* Time references and range windows *)

\* TimeRef.Resolve: a duration counts back from now.
Resolve(ref, now) == IF ref.isDuration THEN now - ref.value ELSE ref.value

\* validateTimeRefPositive
PositiveRef(ref) == ref.isDuration => ref.value > 0

\* A check of the two ends one by one
ValidRangeEnds(range, now) ==
  /\ range # Absent
  /\ range.step # Absent /\ range.step > 0
  /\ range.since # Absent /\ PositiveRef(range.since)
  /\ range.until # Absent => PositiveRef(range.until)

\* validateRangeWindow; without until nothing relates since to now.
ValidRangeWindow(range, now) ==
  /\ range # Absent
  /\ range.step # Absent /\ range.step > 0
  /\ range.since # Absent /\ PositiveRef(range.since)
  /\ range.until # Absent =>
       /\ PositiveRef(range.until)
       /\ Resolve(range.since, now) < Resolve(range.until, now)

\* The window RunQueries asks for at a given time
Window(range, now) ==
  [since |-> Resolve(range.since, now),
   until |-> IF range.until = Absent THEN now ELSE Resolve(range.until, now)]

-----------------------------------------------------------------------------
(* KPIs *)

\* validateQueryType
ValidQueryType(kpi, now) ==
  \/ EffectiveQueryType(kpi) = "instant" /\ kpi.range = Absent
  \/ EffectiveQueryType(kpi) = "range" /\ ValidRangeWindow(kpi.range, now)

\* One turn of the loop of ValidateKPIs, without its test for duplicates
ValidKpi(kpi, now) ==
  /\ kpi.id # ""
  /\ kpi.promquery # "broken"
  /\ kpi.category # "unusable"
  /\ ValidQueryType(kpi, now)

UniqueIds(kpis) ==
  \A i, j \in DOMAIN kpis : kpis[i].id = kpis[j].id => i = j

ValidKpis(kpis, now) ==
  /\ \A i \in DOMAIN kpis : ValidKpi(kpis[i], now)
  /\ UniqueIds(kpis)

\* promptIfManyUncategorized
ManyUncategorized(kpis, threshold) ==
  Cardinality({i \in DOMAIN kpis : kpis[i].category = Absent}) >= threshold

\* RequiresCPUSubstitution, SubstituteCPUPlaceholders
HasPlaceholders(kpis) == \E i \in DOMAIN kpis : kpis[i].promquery = "placeholders"

Substituted(kpis) ==
  [i \in DOMAIN kpis |->
    IF kpis[i].promquery = "placeholders"
    THEN [kpis[i] EXCEPT !.promquery = "plain"]
    ELSE kpis[i]]

\* A check that overlooks sample-frequency
DefaultFrequencyFits(kpi, default) ==
  EffectiveQueryType(kpi) = "range" /\ kpi.range # Absent
    /\ kpi.range.since # Absent /\ kpi.range.since.isDuration
  => default <= kpi.range.since.value

\* validateRangeFrequency: a look-back shorter than the sampling period would
\* leave gaps.
FrequencyFits(kpi, default) ==
  EffectiveQueryType(kpi) = "range" /\ kpi.range # Absent
    /\ kpi.range.since # Absent /\ kpi.range.since.isDuration
  => EffectiveFrequency(kpi, default) <= kpi.range.since.value

-----------------------------------------------------------------------------
(* Tasks files *)

\* validateOrder, and the default order when the file gives none
ValidOrder(order, present) ==
  order = <<>> \/
    /\ \A i \in DOMAIN order : order[i] \in present
    /\ \A i, j \in DOMAIN order : order[i] = order[j] => i = j
    /\ \A name \in present : \E i \in DOMAIN order : order[i] = name

==============================================================================
