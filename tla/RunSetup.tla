------------------------------- MODULE RunSetup -------------------------------
(***************************************************************************)
(* The run command from its flags to its last query: commands.runTasks     *)
(* validates the flags, merges the settings of the file into them, obtains *)
(* a token, prepares the KPIs, builds the tasks and runs them in order;    *)
(* the Prometheus task collects with the settings, KPIs and token it       *)
(* captured when it was built.                                             *)
(*                                                                         *)
(* Everything takes any time, the queries of the collection too, which a   *)
(* group asks one after the other while its ticker goes on.  What is asked *)
(* and when is all that matters here: module Collector has the failures,   *)
(* the storing and the shutdown.  The files are not edited meanwhile.      *)
(***************************************************************************)
EXTENDS TaskSections

CONSTANTS
  Inputs,                \* command lines with the files they name, see below
  Clusters,              \* PerformanceProfiles a cluster may have: sequences of them
  DefaultFrequency,      \* default of --frequency
  DefaultDuration,       \* default of --duration
  Buffer,                \* ten minutes, added to a token's lifetime
  OnceLifetime,          \* one hour, a token's lifetime with --once
  UncategorizedThreshold,\* KPIs without category before the user is asked
  SetupBound,            \* bound: time units all but the collection may take
  MaxLate                \* bound: time units a query may be late for its tick

TaskNames == {"prometheus"} \cup OtherTasks

\* knownTaskConfigs: the order that the tasks of a file run in by default
DefaultOrder(present) ==
  LET Only(name) == IF name \in present THEN <<name>> ELSE <<>>
  IN Only("prometheus") \o Only("per-node-data") \o Only("oslat") \o Only("app-recovery-time")

ASSUME SettingsAssumption ==
  /\ DefaultFrequency \in Nat \ {0}
  /\ DefaultDuration \in Nat \ {0}
  /\ Buffer \in Nat \ {0}
  /\ OnceLifetime \in Nat \ {0}
  /\ UncategorizedThreshold \in Nat \ {0}
  /\ SetupBound \in Nat
  /\ MaxLate \in Nat

(***************************************************************************)
(* An input has the fields tasksFile (--tasks rather than                  *)
(* --prom-kpis-config), kubeconfig, token, yes (flags given or not),       *)
(* envUrl (KPI_COLLECTOR_DB_URL is set), cli and file (settings of the     *)
(* command line and of the YAML file, Absent when not given), prometheus   *)
(* and sections (what a tasks file has), policy and order (its             *)
(* orchestration: mode and on-failure are known words), configFile (the    *)
(* KPIs are in a file of their own) and kpis.                              *)
(***************************************************************************)
\* Types of database that run, and any that does not
Databases == {"sqlite", "postgres", "other"}

GivenSettings ==
  [frequency : Optional(Int), duration : Optional(Int), database : Optional(Databases),
   url : BOOLEAN, once : Optional(BOOLEAN)]

ASSUME InputAssumption ==
  \A in \in Inputs :
    /\ in.cli \in GivenSettings /\ in.file \in GivenSettings
    /\ in.tasksFile => in.file.database = Absent /\ ~in.file.url
    /\ ~in.tasksFile => in.configFile
    /\ {in.tasksFile, in.kubeconfig, in.token, in.yes, in.envUrl, in.configFile,
        in.prometheus, in.policy} \subseteq BOOLEAN
    /\ in.sections \in [OtherTasks -> Optional(Section)]
    /\ in.order \in Seq(STRING) /\ in.kpis \in Seq(Kpi)

Token == [made : Nat, expires : Int]

\* A query: its time and window
Moment == [at : Nat, window : Optional([since : Int, until : Int])]

ASSUME ClustersAssumption == Clusters \subseteq Seq(Profile)

\* The goroutine of a frequency: when its ticker fires next, the tick in the
\* ticker's channel, the one it is at, and the KPIs it has yet to ask for that one
Group == [next : Int, tick : Optional(Int), due : Int, left : SUBSET Nat]

ASSUME AbsentAssumption == Absent \notin Token \cup Moment \cup Int

VARIABLES
  input,      \* the command line and its files
  pc,         \* the next step of runTasks
  now,        \* the clock
  flags,      \* InputFlags: the settings, merged step by step
  token,      \* a token minted through the kubeconfig: when, and its expiry
  spec,       \* the tasks file: configFile and kpis (prometheus), other sections
  cpus,       \* the PerformanceProfile CPU sets, once fetched
  job,        \* what the PromKPITask captured: settings, KPIs, token; or Absent
  tasks,      \* the tasks in the order they run
  pos,        \* how many of them are over
  timerAt,    \* when the duration timer was started, or Absent
  asked,      \* history: per KPI, when it was last queried and for which window
  groups      \* the goroutines of the collection loop, per frequency, while it runs

inputVars == <<input, now>>
prepVars  == <<flags, token, spec, cpus>>
runVars   == <<job, tasks, pos>>
queryVars == <<timerAt, asked, groups>>
vars == <<pc, inputVars, prepVars, runVars, queryVars>>

Settings ==
  [frequency : Int, duration : Int, database : Databases, url : BOOLEAN, once : BOOLEAN]

TypeOK ==
  /\ pc \in {"flags", "load", "auth", "settings", "kpis", "prompt", "substitute",
             "isolcpus", "build", "tasks", "once", "collect", "done", "failed"}
  /\ now \in Nat
  /\ flags \in Settings
  /\ token \in Optional(Token)
  /\ spec.configFile \in BOOLEAN
  /\ \A name \in OtherTasks : spec.sections[name] \in Optional(Section)
  /\ cpus \in Optional([reserved : Seq(Nat), isolated : Seq(Nat)])
  /\ pos \in 0 .. Len(tasks)
  /\ timerAt \in Optional(Nat)
  /\ asked \in [DOMAIN input.kpis -> Optional(Moment)]
  /\ DOMAIN groups \subseteq Nat \ {0}
  /\ \A f \in DOMAIN groups : groups[f] \in Group

\* TasksSpec.PresentTaskConfigs; --prom-kpis-config is one prometheus task.
Present ==
  IF input.tasksFile
  THEN {name \in TaskNames : IF name = "prometheus" THEN input.prometheus
                              ELSE input.sections[name] # Absent}
  ELSE {"prometheus"}

\* The tasks file as it is decoded
Decoded ==
  [configFile |-> input.configFile,
   kpis |-> IF input.configFile THEN <<>> ELSE input.kpis,
   sections |-> input.sections]

\* Flags as cobra leaves them
FromCommandLine(cli) ==
  [frequency |-> Given(cli.frequency, DefaultFrequency),
   duration |-> Given(cli.duration, DefaultDuration),
   database |-> Given(cli.database, "sqlite"),
   url |-> cli.url,
   once |-> Given(cli.once, FALSE)]

Init ==
  /\ input \in Inputs
  /\ pc = "flags"
  /\ now = 0
  /\ flags = FromCommandLine(input.cli)
  /\ token = Absent
  /\ spec = Decoded
  /\ cpus = Absent
  /\ job = Absent
  /\ tasks = <<>>
  /\ pos = 0
  /\ timerAt = Absent
  /\ asked = [i \in DOMAIN input.kpis |-> Absent]
  /\ groups = <<>>

\* A step of runTasks: on to the next one, or out with an error.
StepTo(ok, next) == pc' = IF ok THEN next ELSE "failed"

-----------------------------------------------------------------------------
(* Flags, settings and credentials *)

\* cobra's exclusions, then ValidateFlags
ValidFlags ==
  LET once == input.cli.once # Absent
      sampling == input.cli.frequency # Absent \/ input.cli.duration # Absent
  IN /\ ~(once /\ sampling)
     /\ input.tasksFile => ~once /\ ~sampling
     /\ input.token # input.kubeconfig

ValidateFlags ==
  /\ pc = "flags"
  /\ StepTo(ValidFlags, IF input.tasksFile THEN "load" ELSE "auth")
  /\ UNCHANGED <<inputVars, prepVars, runVars, queryVars>>

\* ValidateTasksSpec, validatePrometheusTaskConfig, validateOrchestration
ValidTasksSpec(s) ==
  /\ Present # {}
  /\ "prometheus" \in Present => s.configFile # (s.kpis # <<>>)
  /\ \A name \in Present \ {"prometheus"} : ValidSection(name, s.sections[name])
  /\ input.policy
  /\ ValidOrder(input.order, Present)

\* What ValidateTasksSpec leaves of the sections
ResolvedSpec(s) ==
  [s EXCEPT !.sections = [name \in OtherTasks |->
     IF name \in Present THEN Resolved(@[name]) ELSE @[name]]]

\* A copy of the section that overlooks fields left out
WithTasksFileUnset(f, file) ==
  [f EXCEPT !.frequency = file.frequency, !.duration = file.duration, !.once = file.once]

\* ApplyPromTaskConfig
WithTasksFile(f, file) ==
  IF "prometheus" \notin Present THEN f
  ELSE [f EXCEPT !.frequency = Given(file.frequency, @),
                 !.duration = Given(file.duration, @),
                 !.once = Given(file.once, @)]

\* ApplyKPIsDefaults, for the flags changedPromFlags does not report
WithKpiFile(f, file, cli) ==
  [f EXCEPT !.frequency = Given(cli.frequency, Given(file.frequency, @)),
            !.duration = Given(cli.duration, Given(file.duration, @)),
            !.database = Given(cli.database, Given(file.database, @)),
            !.url = @ \/ file.url,
            !.once = Given(cli.once, Given(file.once, @))]

\* A first load that leaves the settings for later
LoadTasksOnly ==
  /\ pc = "load"
  /\ StepTo(ValidTasksSpec(spec), "auth")
  /\ UNCHANGED <<inputVars, prepVars, runVars, queryVars>>

\* The first load of the tasks file, for the settings the token depends on
LoadTasks ==
  /\ pc = "load"
  /\ StepTo(ValidTasksSpec(spec), "auth")
  /\ flags' = IF ValidTasksSpec(spec) THEN WithTasksFile(flags, input.file) ELSE flags
  /\ UNCHANGED <<inputVars, token, spec, cpus, runVars, queryVars>>

\* tokenDurationForCollection
TokenLifetime(f) == IF f.once THEN OnceLifetime ELSE f.duration + Buffer

\* setupKubeconfigAuthIfNeeded: the route and the token, by two API calls
SetupKubeconfigAuth ==
  /\ pc = "auth"
  /\ token' = IF input.kubeconfig
              THEN [made |-> now, expires |-> now + TokenLifetime(flags)] ELSE token
  /\ pc' = "settings"
  /\ UNCHANGED <<inputVars, flags, spec, cpus, runVars, queryVars>>

AuthFails ==
  /\ pc = "auth" /\ input.kubeconfig
  /\ pc' = "failed"
  /\ UNCHANGED <<inputVars, prepVars, runVars, queryVars>>

\* ValidatePromSettings
ValidSettings(f) ==
  /\ f.frequency > 0
  /\ f.duration > 0
  /\ f.database \in {"sqlite", "postgres"}
  /\ f.database = "postgres" => f.url

Merged ==
  IF input.tasksFile THEN WithTasksFile(flags, input.file)
                     ELSE WithKpiFile(flags, input.file, input.cli)

AfterSettings == IF "prometheus" \in Present THEN "kpis" ELSE "isolcpus"

\* Settings validated before the file is merged into them
ApplySettingsLate ==
  /\ pc = "settings"
  /\ flags' = Merged
  /\ StepTo(ValidSettings(flags), AfterSettings)
  /\ spec' = IF input.tasksFile THEN ResolvedSpec(spec) ELSE spec
  /\ UNCHANGED <<inputVars, token, cpus, runVars, queryVars>>

\* resolveTasksFromSpec, which loads the tasks file again, and setupPromKPIs,
\* as far as ValidatePromSettings
ApplySettings ==
  /\ pc = "settings"
  /\ flags' = Merged
  /\ StepTo(ValidSettings(Merged), AfterSettings)
  /\ spec' = IF input.tasksFile THEN ResolvedSpec(spec) ELSE spec
  /\ UNCHANGED <<inputVars, token, cpus, runVars, queryVars>>

-----------------------------------------------------------------------------
(* The KPIs and the CPU sets *)

\* LoadPrometheusKPIs, LoadKPIs
LoadedKpis == IF spec.configFile THEN input.kpis ELSE spec.kpis

\* prepareLoadedKPIs: the validation, and whether the user must be asked
ValidateKpis ==
  /\ pc = "kpis"
  /\ StepTo(ValidKpis(LoadedKpis, now),
            IF ~input.yes /\ ManyUncategorized(LoadedKpis, UncategorizedThreshold)
            THEN "prompt" ELSE "substitute")
  /\ UNCHANGED <<inputVars, prepVars, runVars, queryVars>>

UserAnswers(yes) ==
  /\ pc = "prompt"
  /\ StepTo(yes, "substitute")
  /\ UNCHANGED <<inputVars, prepVars, runVars, queryVars>>

\* fetchCPUPlaceholders: profiles were found and make sense; a set may be empty.
FetchedCpus ==
  IF input.kubeconfig
  THEN {AggregateCPUs(profiles) : profiles \in {c \in Clusters : Aggregable(c)}} ELSE {}

\* substituteCPUsIfNeeded, the frequency check of prepareLoadedKPIs, and the
\* KPIs kept in place of the file
PrepareKpis ==
  /\ pc = "substitute"
  /\ IF HasPlaceholders(LoadedKpis) THEN cpus' \in FetchedCpus ELSE UNCHANGED cpus
  /\ spec' = [spec EXCEPT !.configFile = FALSE, !.kpis = Substituted(LoadedKpis)]
  /\ StepTo(flags.once \/ \A i \in DOMAIN LoadedKpis :
                            FrequencyFits(LoadedKpis[i], flags.frequency),
            "isolcpus")
  /\ UNCHANGED <<inputVars, flags, token, runVars, queryVars>>

\* No kubeconfig, an API error, no profile at all, or a CPU set that makes no sense
PrepareKpisFails ==
  /\ pc = "substitute" /\ HasPlaceholders(LoadedKpis)
  /\ pc' = "failed"
  /\ UNCHANGED <<inputVars, prepVars, runVars, queryVars>>

PerNodeData == spec.sections["per-node-data"].fields

NeedsIsolcpus == "per-node-data" \in Present /\ PerNodeData.isolcpus = <<>>

\* resolveTasksFromSpec: CPU sets fetched before serve again; an isolated set
\* that is empty is refused by setPerNodeDataIsolcpus.
SetIsolcpus ==
  /\ pc = "isolcpus"
  /\ IF NeedsIsolcpus /\ cpus = Absent THEN cpus' \in FetchedCpus ELSE UNCHANGED cpus
  /\ spec' = IF NeedsIsolcpus
             THEN [spec EXCEPT !.sections["per-node-data"].fields.isolcpus = cpus'.isolated]
             ELSE spec
  /\ StepTo(NeedsIsolcpus => cpus'.isolated # <<>>, "build")
  /\ UNCHANGED <<inputVars, flags, token, runVars, queryVars>>

SetIsolcpusFails ==
  /\ pc = "isolcpus" /\ NeedsIsolcpus /\ cpus = Absent
  /\ pc' = "failed"
  /\ UNCHANGED <<inputVars, prepVars, runVars, queryVars>>

-----------------------------------------------------------------------------
(* The tasks *)

Order ==
  IF input.tasksFile /\ input.order # <<>> THEN input.order
  ELSE DefaultOrder(Present)

\* ResolveFromTasksSpec validates the section again, KPIs in place; every
\* builder but the prometheus one wants a kubeconfig.
Buildable ==
  /\ input.tasksFile => ValidTasksSpec(spec)
  /\ Present # {"prometheus"} => input.kubeconfig

BuildTasks ==
  /\ pc = "build"
  /\ StepTo(Buildable, "tasks")
  /\ tasks' = IF Buildable THEN Order ELSE <<>>
  /\ job' = IF Buildable /\ "prometheus" \in Present
            THEN [flags |-> flags, kpis |-> LoadedKpis, token |-> token] ELSE Absent
  /\ UNCHANGED <<inputVars, prepVars, pos, queryVars>>

\* CheckAppRecoveryAccess finds a permission missing.
PreflightFails ==
  /\ pc = "build" /\ "app-recovery-time" \in Present
  /\ pc' = "failed"
  /\ UNCHANGED <<inputVars, prepVars, runVars, queryVars>>

\* A task other than prometheus runs; TimePasses meanwhile.
OtherTaskEnds ==
  /\ pc = "tasks" /\ pos < Len(tasks) /\ tasks[pos + 1] # "prometheus"
  /\ pos' = pos + 1
  /\ UNCHANGED <<pc, inputVars, prepVars, job, tasks, queryVars>>

CollectionStarts ==
  /\ pc = "tasks" /\ pos < Len(tasks) /\ tasks[pos + 1] = "prometheus"
  /\ pc' = "once"
  /\ UNCHANGED <<inputVars, prepVars, runVars, queryVars>>

RunEnds ==
  /\ pc = "tasks" /\ pos = Len(tasks)
  /\ pc' = "done"
  /\ UNCHANGED <<inputVars, prepVars, runVars, queryVars>>

-----------------------------------------------------------------------------
(* The collection *)

RunOnce == {i \in DOMAIN job.kpis : job.flags.once \/ job.kpis[i].runOnce}
Repeating == DOMAIN job.kpis \ RunOnce
Frequency(i) == EffectiveFrequency(job.kpis[i], job.flags.frequency)

\* The time of a query and the window RunQueries gives it
Query(i, time) ==
  [at |-> time,
   window |-> IF job.kpis[i].range = Absent THEN Absent
              ELSE Window(job.kpis[i].range, time)]

\* The next of the run-once KPIs, which RunQueries asks in the order of the file
QueryOnce(i) ==
  /\ pc = "once" /\ i \in RunOnce /\ asked[i] = Absent
  /\ \A j \in RunOnce : j < i => asked[j] # Absent
  /\ asked' = [asked EXCEPT ![i] = Query(i, now)]
  /\ UNCHANGED <<pc, inputVars, prepVars, runVars, timerAt, groups>>

OnceDone == \A i \in RunOnce : asked[i] # Absent

\* groupKPIsByFrequency
Frequencies == {Frequency(i) : i \in Repeating}
Members(f) == {i \in Repeating : Frequency(i) = f}

\* RunKPIs starts a goroutine per frequency and its timer: each has a ticker, and
\* is at its first sample.
StartTimer ==
  /\ pc = "once" /\ OnceDone /\ Repeating # {}
  /\ pc' = "collect"
  /\ timerAt' = now
  /\ groups' = [f \in Frequencies |->
       [next |-> now + f, tick |-> Absent, due |-> now, left |-> Members(f)]]
  /\ UNCHANGED <<inputVars, prepVars, runVars, asked>>

\* RunQueries asks the next KPI of a group, at a time of its own.
QueryDue(i) ==
  /\ pc = "collect" /\ i \in Repeating
  /\ LET left == groups[Frequency(i)].left
     IN /\ i \in left /\ \A j \in left : i <= j
        /\ groups' = [groups EXCEPT ![Frequency(i)].left = left \ {i}]
  /\ asked' = [asked EXCEPT ![i] = Query(i, now)]
  /\ UNCHANGED <<pc, inputVars, prepVars, runVars, timerAt>>

\* The last query of a group is over, however long it took, and the loop of
\* runKPIGroupLoop finds a tick.
TakeTick(f) ==
  /\ pc = "collect" /\ groups[f].left = {} /\ groups[f].tick # Absent
  /\ groups' = [groups EXCEPT ![f].due = groups[f].tick, ![f].tick = Absent,
                              ![f].left = Members(f)]
  /\ UNCHANGED <<pc, inputVars, prepVars, runVars, timerAt, asked>>

\* A ticker that fires while its channel holds a tick drops the new one.
Fired(g, f, time) ==
  IF time # g.next THEN g
  ELSE [g EXCEPT !.next = @ + f, !.tick = IF @ = Absent THEN time ELSE @]

\* The tick that a group has yet to answer, if there is one
Unanswered(g) == IF g.left # {} THEN g.due ELSE g.tick

\* A unit passes in the collection.
Tick ==
  /\ pc = "collect" /\ now < timerAt + job.flags.duration + MaxLate
  /\ \A f \in DOMAIN groups :
       Unanswered(groups[f]) # Absent => now < Unanswered(groups[f]) + MaxLate
  /\ now' = now + 1
  /\ groups' = [f \in DOMAIN groups |-> Fired(groups[f], f, now')]
  /\ UNCHANGED <<pc, input, prepVars, runVars, timerAt, asked>>

\* There is nothing to repeat, or the duration is over and every group returns from
\* the sample it is at; a tick that is left may be taken before that, or not.
CollectionEnds ==
  /\ \/ pc = "once" /\ OnceDone /\ Repeating = {}
     \/ /\ pc = "collect" /\ now >= timerAt + job.flags.duration
        /\ \A f \in DOMAIN groups : groups[f].left = {}
  /\ pc' = "tasks"
  /\ pos' = pos + 1
  /\ groups' = <<>>
  /\ UNCHANGED <<inputVars, prepVars, job, tasks, timerAt, asked>>

\* The user, the cluster, other tasks and run-once queries take their time.
TimePasses ==
  /\ pc \notin {"collect", "done", "failed"}
  /\ now < SetupBound
  /\ now' = now + 1
  /\ UNCHANGED <<pc, input, prepVars, runVars, queryVars>>

Terminated ==
  /\ pc \in {"done", "failed"}
  /\ UNCHANGED vars

-----------------------------------------------------------------------------
Next ==
  \/ ValidateFlags
  \/ LoadTasks
  \/ SetupKubeconfigAuth
  \/ AuthFails
  \/ ApplySettings
  \/ ValidateKpis
  \/ \E yes \in BOOLEAN : UserAnswers(yes)
  \/ PrepareKpis
  \/ PrepareKpisFails
  \/ SetIsolcpus
  \/ SetIsolcpusFails
  \/ BuildTasks
  \/ PreflightFails
  \/ OtherTaskEnds
  \/ CollectionStarts
  \/ RunEnds
  \/ \E i \in DOMAIN asked : QueryOnce(i)
  \/ StartTimer
  \/ \E i \in DOMAIN asked : QueryDue(i)
  \/ \E f \in DOMAIN groups : TakeTick(f)
  \/ Tick
  \/ CollectionEnds
  \/ TimePasses
  \/ Terminated

Spec == Init /\ [][Next]_vars

-----------------------------------------------------------------------------
(***************************************************************************)
(* Properties                                                              *)
(***************************************************************************)

\* The buffer is all that a token has to spare, and it is there to spend: a periodic
\* query finds the token alive if the time from the token to the start of the
\* duration timer and the query's lateness beyond the duration take no more than
\* the buffer together; unless a KPI file changes the duration after the token.
KeepsDuration ==
  input.tasksFile \/ input.cli.duration # Absent \/ input.file.duration = Absent

TokenLasts ==
  KeepsDuration /\ token # Absent /\ timerAt # Absent =>
    \A i \in Repeating :
      LET delay   == timerAt - token.made
          overrun == asked[i].at - (timerAt + job.flags.duration)
      IN asked[i] # Absent /\ delay + overrun <= Buffer => asked[i].at <= token.expires

\* What the documentation says of the token, with no exception for the KPI file:
\* here for the queries within the duration, of a timer started within the buffer.
TokenNeverExpires ==
  token # Absent /\ timerAt # Absent /\ timerAt <= token.made + Buffer =>
    \A i \in Repeating :
      asked[i] # Absent /\ asked[i].at <= timerAt + job.flags.duration
      => asked[i].at <= token.expires

\* Whatever order the merges, loads and checks came in, the collection runs
\* with valid settings that honour the command line, with distinct KPIs, no
\* placeholder left in a query, and a token when there is a kubeconfig.
JobSound ==
  job # Absent =>
    /\ ValidSettings(job.flags)
    /\ \A name \in {"frequency", "duration", "database", "once"} :
         input.cli[name] # Absent => job.flags[name] = input.cli[name]
    /\ UniqueIds(job.kpis) /\ ~HasPlaceholders(job.kpis)
    /\ input.kubeconfig => job.token # Absent

\* A file that loaded is not refused for its structure afterwards, when the run
\* command has rewritten it, unless its KPI file is empty.  The tasks that run are
\* those of the file, each once, every section complete, and none without what it
\* needs: a kubeconfig, a CPU list for per-node-data.
TasksSound ==
  /\ pc = "build" /\ input.tasksFile /\ input.kpis # <<>> => ValidTasksSpec(spec)
  /\ pc \in {"tasks", "once", "collect", "done"} =>
       /\ {tasks[i] : i \in DOMAIN tasks} = Present
       /\ Len(tasks) = Cardinality(Present)
       /\ Present # {"prometheus"} => input.kubeconfig
       /\ \A name \in Present \ {"prometheus"} :
            ValidFields(name, spec.sections[name].fields)
       /\ "per-node-data" \in Present => PerNodeData.isolcpus # <<>>

\* Between consecutive windows of a KPI that looks back from now there is no gap
\* longer than the second query is late for the tick it answers: none when it is on
\* time.  A slow group is late by its slow queries and by the ticks it dropped.
LooksBack(range) ==
  range # Absent /\ range.since.isDuration /\ range.until = Absent

GapWithinLateness ==
  [][\A i \in DOMAIN asked :
       /\ asked[i] # Absent /\ asked'[i] # asked[i]
       /\ LooksBack(input.kpis[i].range)
       => LET gap == asked'[i].window.since - asked[i].window.until
          IN gap <= asked'[i].at - groups[Frequency(i)].due]_asked

\* The comments on validateRangeFrequency: a frequency that leaves gaps in what a
\* KPI that looks back collects is an error.  Here for a query at the very moment of
\* its tick, beside the window one period earlier.
NoDataGaps ==
  pc = "collect" =>
    \A i \in Repeating :
      LET range == input.kpis[i].range
          due   == groups[Frequency(i)].due
      IN /\ asked[i] # Absent /\ asked[i].at = due /\ due > timerAt
         /\ range # Absent /\ range.since.isDuration
         /\ range.until # Absent => range.until.isDuration
         => asked[i].window.since <= Window(range, due - Frequency(i)).until

\* A window never ends before it starts, however late its query: the time
\* that passes after the validation cannot turn it round, but for a moving
\* start with a fixed end, and a fixed start with no end.
Steady(range) ==
  IF range.until = Absent THEN range.since.isDuration
  ELSE range.since.isDuration => range.until.isDuration

WindowsForward ==
  \A i \in DOMAIN asked :
    asked[i] # Absent /\ input.kpis[i].range # Absent /\ Steady(input.kpis[i].range)
    => asked[i].window.since < asked[i].window.until

===============================================================================
