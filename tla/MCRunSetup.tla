------------------------------ MODULE MCRunSetup ------------------------------
(* Inputs for RunSetup and Doctor: one family per part of the input that matters. *)
EXTENDS Doctor

Dur(d) == [isDuration |-> TRUE, value |-> d]
At(t) == [isDuration |-> FALSE, value |-> t]

Unset == [frequency |-> Absent, duration |-> Absent, database |-> Absent,
          url |-> FALSE, once |-> Absent]

Instant == [id |-> "a", promquery |-> "plain", category |-> Absent,
            frequency |-> Absent, queryType |-> Absent, range |-> Absent,
            runOnce |-> FALSE]

Ranged(since, until) ==
  [Instant EXCEPT !.queryType = "range",
                  !.range = [step |-> 1, since |-> since, until |-> until]]

\* Sections with inline fields, as every task of them needs
Inline(list) ==
  [configFile |-> Absent,
   fields |-> [namespaces |-> TRUE, nodes |-> TRUE, interval |-> 1, duration |-> 2,
               image |-> TRUE, isolcpus |-> list, pod |-> "complete"]]

Sections(present, list) ==
  [name \in OtherTasks |-> IF name \in present THEN Inline(list) ELSE Absent]

InFile(fields) ==
  [configFile |-> [rootKey |-> TRUE, nested |-> FALSE, fields |-> fields],
   fields |-> NoFields]

Base ==
  [tasksFile |-> FALSE, kubeconfig |-> TRUE, token |-> FALSE, yes |-> TRUE, envUrl |-> FALSE,
   cli |-> Unset, file |-> Unset, prometheus |-> TRUE, sections |-> Sections({}, <<>>),
   policy |-> TRUE, order |-> <<>>, configFile |-> TRUE, kpis |-> <<Instant>>]

TasksBase == [Base EXCEPT !.tasksFile = TRUE]

\* Settings given on the command line, in the file, in both or in neither
SettingsSpace ==
  [frequency : {Absent, 2}, duration : {Absent, 0, 6}, database : {Absent},
   url : {FALSE}, once : {Absent, TRUE}]

SettingsInputs ==
  {[Base EXCEPT !.cli = c, !.file = f] : c \in SettingsSpace, f \in SettingsSpace}
    \cup {[TasksBase EXCEPT !.file = f, !.configFile = b, !.cli.frequency = g] :
            f \in SettingsSpace, b \in BOOLEAN, g \in {Absent, 2}}

DatabaseInputs ==
  {[Base EXCEPT !.kubeconfig = ~t, !.token = u, !.file.database = d, !.file.url = b,
                !.cli.database = c, !.cli.url = e, !.envUrl = v] :
     t \in BOOLEAN, u \in BOOLEAN, b \in BOOLEAN, e \in BOOLEAN, v \in BOOLEAN,
     d \in {Absent, "postgres", "other"},
     c \in {Absent, "sqlite", "postgres", "other"}}

\* KPIs of every kind of window, alone and in pairs
Windows ==
  {Ranged(since, until) : since \in {Dur(0), Dur(1), Dur(3), At(1), At(8)},
                          until \in {Absent, Dur(1), Dur(2), At(2)}}

KpiSpace ==
  Windows
    \cup {[w EXCEPT !.frequency = f, !.runOnce = o] :
            w \in {Ranged(Dur(2), Absent), Ranged(Dur(3), Dur(1))},
            f \in {0, 2, 3}, o \in BOOLEAN}
    \cup {Instant, [Instant EXCEPT !.id = "b", !.promquery = "placeholders"],
          [Instant EXCEPT !.promquery = "broken"], [Instant EXCEPT !.id = ""],
          [Instant EXCEPT !.category = "unusable"], [Instant EXCEPT !.category = "cpu"],
          [Instant EXCEPT !.queryType = "scalar"], [Instant EXCEPT !.queryType = "range"]}

KpiInputs ==
  {[Base EXCEPT !.kpis = <<k>>, !.cli.frequency = f] : k \in KpiSpace, f \in {Absent, 4}}
    \cup {[Base EXCEPT !.kpis = <<Instant, k>>, !.yes = FALSE] : k \in KpiSpace}
    \cup {[Base EXCEPT !.kpis = <<>>]}

\* Tasks files: which sections, in which order, with or without what they need
Orders ==
  {<<>>, <<"prometheus">>, <<"oslat", "prometheus">>,
   <<"per-node-data", "per-node-data", "prometheus">>,
   <<"app-recovery-time", "prometheus", "per-node-data">>}

TasksInputs ==
  {[TasksBase EXCEPT !.prometheus = p, !.sections = Sections(s, c), !.order = o,
                     !.kubeconfig = k, !.token = ~k,
                     !.kpis = <<[Instant EXCEPT !.promquery = q]>>] :
     p \in BOOLEAN, s \in SUBSET OtherTasks, c \in {<<>>, <<3>>}, o \in Orders,
     k \in BOOLEAN, q \in {"plain", "placeholders"}}
    \cup {[TasksBase EXCEPT !.policy = FALSE],
          [TasksBase EXCEPT !.kpis = <<>>],
          [TasksBase EXCEPT !.kpis = <<>>, !.configFile = FALSE]}

\* Sections that lack a field or have a wrong one, inline and in a file
Flawed ==
  LET full == Inline(<<>>).fields
  IN {full, NoFields}
       \cup {[full EXCEPT !.namespaces = FALSE], [full EXCEPT !.nodes = FALSE],
             [full EXCEPT !.duration = 0], [full EXCEPT !.interval = 0],
             [full EXCEPT !.interval = 2], [full EXCEPT !.image = FALSE],
             [full EXCEPT !.pod = Absent], [full EXCEPT !.pod = "incomplete"]}

FlawedSections ==
  {[Inline(<<>>) EXCEPT !.fields = f] : f \in Flawed}
    \cup {InFile(f) : f \in Flawed}
    \cup {[InFile(Inline(<<>>).fields) EXCEPT !.configFile.rootKey = FALSE],
          [InFile(Inline(<<>>).fields) EXCEPT !.configFile.nested = TRUE],
          [InFile(Inline(<<>>).fields) EXCEPT !.fields.image = TRUE]}

SectionInputs ==
  {[TasksBase EXCEPT !.sections[name] = section] : name \in OtherTasks, section \in FlawedSections}

MCInputs == SettingsInputs \cup DatabaseInputs \cup KpiInputs \cup TasksInputs \cup SectionInputs

\* CPU sets: none, "2-3" with "0", "5-4", and one that is no number
ProfileOf(reserved, isolated) == [reserved |-> reserved, isolated |-> isolated]
Part(first, last) == [first |-> first, last |-> last]

MCClusters ==
  {<<>>,
   <<ProfileOf(<<Part(0, 1)>>, <<Part(3, 4), Part(2, 3)>>), ProfileOf(<<Part(0, 0)>>, <<>>)>>,
   <<ProfileOf(<<Part(0, 0)>>, <<>>)>>,
   <<ProfileOf(<<>>, <<Part(5, 4)>>)>>,
   <<ProfileOf(<<Absent>>, <<Part(1, 1)>>)>>}

===============================================================================
