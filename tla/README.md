# A TLA+ model of kpi-collector

This directory holds a verification development for the collector: TLA+ modules
that follow the Go sources, TLC instances that check them, and TLAPS proofs of
every safety property that the passing runs check.
It states correctness properties only. File names below are relative to
`src/internal/` unless they start with `src/`.

Contents: 1 the system, 2 the plan, 3 the modules and the code, 4 the runs,
5 bounds, 6 fairness, 7 proofs, 8 disagreements between code and documentation,
9 what is not modelled.

## 1. The system

`kpi-collector run` collects Prometheus metrics and runs validation tasks on an
OpenShift cluster; `kpi-collector db` shows and removes what was collected;
`kpi-collector doctor` looks at the flags and files of a run before it.

| Part | State it keeps | Operations | Talks to |
|---|---|---|---|
| Run setup (`commands/run.go`, `config/`, `task/resolve_from_spec.go`, `kubernetes/performanceprofile.go`) | the flags, merged step by step; the tasks spec; the token; CPU sets | validate flags, load and merge YAML, resolve sections, authenticate, validate KPIs, ask the user, substitute placeholders, build tasks | the Kubernetes API, the user; hands settings, KPIs and token to the Prometheus task by value |
| Task runner (`runAllTasks`, `commands/tar.go`) | `failedTasks` under a mutex, a WaitGroup, the exit code | run tasks in order or as goroutines, fail-fast, archive | tasks (`task.Task.Run`), signals |
| Collection loop (`collector/collector.go`, `prometheus/client.go`) | timer, tickers, a context, a WaitGroup, `hadFailures`, the shared `*sql.DB` | run-once KPIs, one goroutine per frequency, shutdown on duration or Ctrl+C | Prometheus (one HTTP query at a time per goroutine), the database |
| Metrics database (`database/`, `database/schema/`) | tables `clusters`, `kpi_registry`, `query_results`, `kpi_<category>`, `query_errors`; per process `knownTables` | get or create a cluster, check categories, create and register tables, store rows, count errors | several collectors and `db` commands at once, through SQL statements without transactions |
| `db remove` (`commands/db_remove.go`) | the tables it has still to delete from | remove clusters, KPIs, a category, errors | the database, while collectors run |
| `db show` (`commands/db_show.go`) | the tables it has still to read, the results so far | validate flags and filters, list tables, query them one by one, sort, cut | the database, while others write to it; the chart viewer |
| Chart viewer (`output/interactive.go`, `output/chart.go`) | a window over the samples, the terminal's mode | read keys, pan, zoom, draw, restore the terminal | stdin byte by byte, a terminal that may be resized |
| App recovery task (`task/app_recovery_time.go`, `kubernetes/recovery.go`) | which nodes were reported down, the poll count | create reboot pods, sweep until all nodes are NotReady, poll pods | nodes and pods of the cluster |
| Per-node data and oslat tasks (`task/per_node_data.go`, `task/oslat.go`, `kubernetes/pod.go`, `kubernetes/nodes.go`) | one goroutine per node, the errors of each, the files | create a pod, wait for its end, fetch logs, write files | the same nodes and pods |
| `doctor` (`commands/doctor.go`) | a list of checks | repeat the run command's checks of flags, files and database in code of its own | the flags and files a run would be given |
| Output, Grafana, `kpis generate`, `src/cmd` | none that another part reads | print, write files, call docker or podman | the terminal, files, containers |

What is hard here, and what makes each part correct:

- **Collection loop.** A random `select` between a tick and cancellation; tickers
  that drop ticks; the last sample and the duration timer due at one moment; a
  Ctrl+C that kills before `signal.Notify` and drains after it; a failure flag
  written by many and read once. Correct: it ends, with every group drained
  before the database closes; it takes the number of samples it announces; its
  error says exactly whether anything failed; every KPI was attempted or refused.
- **Task runner.** Concurrent appends, `wg` counts, fail-fast only in sequence,
  an archive at the end. Correct: the verdict names the failed tasks and no
  other; only fail-fast skips a task; sequential tasks never overlap; the archive
  is made when nobody writes; the run ends.
- **Metrics database.** Statement-level interleavings of processes, caches of
  tables, statements that fail between two others. Correct: no registered table is
  missing; one id per cluster; a registered KPI keeps its category; `--name` finds
  the rows of a KPI whose category never changes; whoever reads it sees no change
  but those the abstract store allows.
- **db show.** The list of tables and each table are read at different moments;
  bounds are cut to whole seconds and samples are not; the limit applies across
  tables. Correct: nothing that was there all the time is missed, nothing that
  never was is shown, counts lie between the two.
- **Chart viewer.** Keys in any order near the ends of the data; a tenth of a
  small window is nothing; an Esc is taken for the start of an arrow key; the
  terminal is resized or stdin ends. Correct: the window stays inside the samples,
  every key does its work, the frame fits, quitting ends it and restores the
  terminal.
- **Run setup.** Three sources of settings merged at two moments around the making
  of a token; files loaded twice; a spec rewritten and validated again. Correct:
  the token outlives the collection; the collection runs with valid settings that
  honour the command line; the tasks are those of the file, each once; query
  windows leave no gap that lateness does not explain and never end before they
  start.
- **doctor.** A second implementation of the same rules, on other flags. Correct:
  where it can know, what it passes is not refused by the run, and what the run
  accepts it passes.
- **Node tasks.** Nodes that go down under other tasks' pods, API calls that fail
  after they took effect, leftovers with the same names. Correct: polling starts
  only after every node was seen down; a node's files hold its own pod's logs;
  success means complete data; every wait ends.

The list of hazards with their source lines is in `PROJECT.json`.

## 2. The plan

Modules in the order they were written, the most important behaviour first, and
what is left.

1. `CollectionJob` (abstract), `Collector` (implements it), `CollectorProofs`. Done.
2. `KpiStore` (abstract), `MetricStore` (implements it): the database between
   collectors and `db remove`; `MetricStoreProofs`. Done.
3. `TaskRunner`: tasks, verdict, Ctrl+C; `TaskRunnerProofs`. Done.
4. `KpiFile` and `TaskSections` (pure), `RunSetup` (extends them), `Doctor`
   (extends `RunSetup`, to compare the two). Done.
5. `Cluster` (the environment) and `NodeTasks` (extends it). Done.
6. `DbShow` (extends `KpiStore` and `Chart`): a reader beside writers. Done.
7. `Chart` (pure), `ChartViewer` (extends it), `ChartViewerProofs`. Done.
8. `NodeTasksProofs`, `KpiStoreProofs`, `DbShowProofs` (which uses it) and
   `RunSetupProofs` (about `RunSetup` and `Doctor`). Done.
9. Left, models: the life of the Grafana container between `grafana start` and
   `grafana stop`, whose state is outside the program (section 9).

Compositions: `RunSetup` runs the collection loop too, with the times of its ticks
and queries and without its failures and shutdown (`Collector` has those), so that
its token and windows are about queries and not about promises; `Doctor`
composes the doctor's checks with the whole of `RunSetup`; `NodeTasks` composes
three tasks over one `Cluster`; `MetricStore` composes collectors and a remover
over one database; `DbShow` composes its reader with the changes of `KpiStore`,
which `MetricStore` is shown to make no others than.

## 3. The modules and the code

`PROJECT.json` maps every definition to its lines. In short:

**CollectionJob** is what `PromKPITask.Run` promises: status, what was attempted
or refused, whether anything went bad (a query, or what was fetched and then lost
in a failing store).

**Collector** is `RunKPIs`, `RunKPIsOnce` and `RunQueries`. `main` is the program
counter of the main goroutine, `loop[g]` of the group goroutine with frequency
`g`; `tick[g]` is the ticker's channel, `timer` the duration timer's,
`interrupt` the signal channel. One action per step between two points where the
goroutines can interleave: `BeginQueries`; `SetupEnds` or `SetupFails` (the
database and the client before the first query), `QueryEnds` (Prometheus answered
one query or its timeout expired) and `StoreEnds` (the database took its results,
or counted its error), between which `stage` says where a `RunQueries` call is;
`SampleEnds`, `TakeTick` and `StopOnDone` (the two cases of the group's select),
`SelectTimer` and `SelectInterrupt` (the main select), `AllStopped` (`shutdown`).
`wg` is the WaitGroup's counter. Time advances in units; a group in `Prompt`
finishes its collection within the unit, another may take any time.

**KpiStore** is what the contents of the database may become by one SQL statement
of anyone: an action per kind of statement, with only the guards a reader may rely
on (a KPI is registered under a table that exists; rows are stored under an id
that was handed out, whether or not its cluster is still there).

**MetricStore** is `executeQuery` and the database package, one action per SQL
statement, on SQLite (foreign keys off, `INSERT OR IGNORE`) and on PostgreSQL
(foreign keys on). `ProcessEnds` and `StatementFails` may happen between any two
statements. A row of the model stands for all the points of one KPI and cluster
in one table, because the dedup index makes storing a point again no change.
`ImplementsStore` maps it to `KpiStore`.

**DbShow** is one `db show` command: `Start` validates flags, time window and
label filters and connects; `ValidateCategory`, `LookupKpi` and `ListTables`
decide which tables to read; `QueryTable` and `CountTable` read one of them, the
last of them sorting and cutting too. `Interfere` is a step of `KpiStore` between
two statements. `always` and `ever` record what was in the reach of the command
all the time and what was in the database at any time.

**TaskRunner** is `runTasks` and `runAllTasks`: goroutine creation and start are
separate, the append to `failedTasks` is a read and a write under the mutex, the
deferred `wg.Done` is its own step. Ctrl+C kills the process until a collection
has subscribed, and then only fills a channel.

**KpiFile** holds the pure operators on KPIs: `ValidRangeWindow`, `FrequencyFits`,
`Window`, `ValidOrder` and their like, each named for the function it translates.
PromQL texts and categories are classes (plain, with placeholders, broken).

**TaskSections** holds those on the other sections of a tasks file: fields inline
or in a file of their own, resolution, the checks of every field; and the CPU
ranges of the PerformanceProfiles, parsed and united.

**RunSetup** is `runTasks` as a program counter over one input (a command line with
its files): `LoadTasks` is the first load of a tasks file, `SetupKubeconfigAuth`
the token, `ApplySettings` the second merge and the validation, then the KPIs, the
CPU sets, the build and the tasks. The Prometheus task captures `job` by value.
`StartTimer` starts a goroutine per frequency, kept in `groups`: its ticker with
the one tick it can hold, the tick it is at, and the KPIs it has yet to ask for
that one. `QueryDue` asks the next of them at a time of its own, `TakeTick` goes on
with the tick in the channel, and `Fired` drops one that finds the channel full;
the clock (`Tick`) may run between any two of them. Each query is recorded in
`asked` with its time and window.

**Doctor** has no state: the doctor changes nothing, so it is the set of its failed
checks on the same input, and `DoctorForetells` relates it to every state of the
run. `InDoctorsReach` names what it cannot know.

**Chart** is the geometry of a chart: the canvas, the labels, what is left for the
plot. A value is its sign, the power of ten it reaches, and the scales under which
the three decimals of its label round it up to the next one (`Rounded`).
**ChartViewer** is
`RunInteractiveChart`: `ReadKey` and `ReadEscapeSeq` take bytes from `pending`,
`RenderFrame` draws, `Return` restores the terminal; the user's `Press`,
`CloseInput` and `Resize` come between any two of them.

**Cluster** is external: nodes that go down when a reboot pod runs on them, are
noticed some time later or never, and come back; pods with unique names that
nobody deletes. **NodeTasks** is `AppRecoveryTimeTask.Run`, `PerNodeDataTask.Run`
with its goroutines and `OslatTask.Run`; a collector is one `collectNode` or the
oslat task. `Collect` keeps where the logs came from and whether they are whole.

`MC*` modules give the constants their values for TLC and nothing else; `*Proofs`
hold theorems about the module they are named for.

## 4. The runs

| Run | Question | Result |
|---|---|---|
| `Collector` | Does a collection shut down cleanly, take its samples and report its failures, under every timing? | holds |
| `CollectorPanic` | Can every accepted frequency be collected at? | no, below a second it panics |
| `MetricStore` | Do tables, registry, ids and categories stay consistent between two collectors and `db remove`, and may a reader rely on `KpiStore`? | holds |
| `MetricStoreRemoved` | Does `db remove clusters` leave nothing? | not beside a running collection |
| `DbShow` | Does every `db show` command show what was there, and only that, beside writers? | holds |
| `TaskRunner` | Are verdict, order, archive and termination right in every mode? | holds |
| `TaskRunnerCtrlC` | Does Ctrl+C fail app-recovery-time? | not after a collection |
| `RunSetup` | What do settings, KPIs and tasks look like when the tasks run, do token and windows hold through the run, and did the doctor foretell it? | holds |
| `RunSetupToken` | Does the token never expire mid-run? | not with a duration in the KPI file |
| `RunSetupGaps` | Is a frequency that leaves gaps refused? | not when the KPI has an `until` |
| `NodeTasks` | What do reboot, collection and oslat leave behind when they share the cluster? | holds |
| `ChartViewer` | Do all sequences of keys keep the window, the frame and the terminal right? | holds |

The properties of the passing runs, beside one type invariant each:

- `Collector`: `NoUseAfterClose`, `NoGroupKilled`, `SampleCountExact`,
  `NotAheadOfClock`, `InterruptStops`, and the refinement `ImplementsJob` (safety
  and termination).
- `MetricStore`: `TablesExist`, `SteadyFoundByName`, `OneIdPerCluster`,
  `CategoryIsKept`, and the refinement `ImplementsStore`.
- `DbShow`: `NothingMissed` (a row asked for and in reach all the time is shown, or
  the limit cut it off behind rows that sort before it), `ShownIsSound` (a row
  shown was in the database, within its bounds to the second), `TotalsWithin`
  (a cluster's count lies between its rows that stayed and all it ever had).
- `TaskRunner`: `VerdictExact`, `OnlyFailFastSkips`, `NoOverlap`,
  `ArchiveComplete`, `RunEnds`.
- `RunSetup`: `TokenLasts`: the token outlives a periodic query if the delay from
  the token to the duration timer and the query's lateness beyond the duration take
  no more than the ten-minute buffer together, and no KPI file changes the duration
  late. Nothing in the code bounds that delay (the prompt, tasks in sequence) or that
  lateness, so a token may still expire when they take more. `JobSound`, `TasksSound`.
  `GapWithinLateness`: between consecutive windows that look back from now no gap is
  longer than the second query is late for the tick it answers. `WindowsForward`: a
  window never ends before it starts, for the shapes where the validation at load can
  promise it; a relative `since` with an absolute `until`, and an absolute `since`
  without `until`, are exempted, because the code does let time turn them round.
  `DoctorForetells`: in the doctor's reach, what passes is refused by no check of the
  run, and what the run starts with had no failed check.
- `NodeTasks`: `PollsAfterReboot`: polling starts only when each listed node was
  found NotReady after its own reboot, or hidden by an unreachable API. `OwnLogs`,
  `SuccessIsComplete`, `TasksEnd`. The user's oslat pod has the name of one node's debug
  pod, so that one of the two may fail; per-node-data may also succeed for every node.
- `ChartViewer`: `WindowInside`, `FrameFits` (on a terminal of more than five rows the
  frame fits; on one of at least 80 columns the labels leave the plot 60 of them, for
  values printed below 10^17; `--interactive` accepts smaller terminals, of which
  nothing is said), `ArrowKeys` (every arrow key moves or zooms until an edge, a zoom
  keeps the middle, nothing but the bytes of the four arrows moves the window),
  `QuitEnds`.

`SteadyFoundByName` exempts, by name, three ways in which rows escape the registry (a
KPI that is not `Steady`, or is in `unlisted`): one stored before it had a category,
one that two collectors categorise differently at once, and one a `db remove` unlists
while a collector stores it. The code allows all three; no run exhibits
them (section 8 records the first).

Every property has a mutant in `PROJECT.json`: a plausible bug in one definition
(defined just before the one it changes) under which TLC finds it violated.

## 5. Bounds

| Run | Instance | Why it is enough |
|---|---|---|
| `Collector` | 4 KPIs: run-once, two of one frequency, one of another; duration 3; horizon 5 | every kind of KPI; a prompt and a slow group; a period that divides the duration and one that does not; room for late ticks after the end |
| `CollectorPanic` | units of half a second, a frequency of one unit | the smallest fraction |
| `MetricStore` | 2 collectors, 2 KPIs, 2 categories, 3 KPI files, 1 cluster name, 2 ids, 2 calls, 2 removals, both backends | a steady and a changing KPI in one call; a second call, of the same collector with its table cache or of another one; a cluster removed, created again and removed again |
| `MetricStoreRemoved` | 1 collector, a removal | the smallest case |
| `DbShow` | 2 databases (one with rows of a removed cluster), 2 KPIs, 2 categories, 2 cluster names, 3 points, families of command lines, 2 changes | a change before and one after each table is read; samples within, at and outside the second a bound is cut to; a limit below and at the number of rows |
| `TaskRunner` | up to 3 tasks, 2 orders, all modes | a task before, at and after a failure |
| `RunSetup` | families of inputs, one per part that matters (settings, databases, KPIs, tasks files, flawed sections) with five sets of PerformanceProfiles; default duration 4, buffer 2, 3 units of setup, queries up to 2 units late (`MaxLate`) | settings given nowhere, on one side, on both; every window shape; each field missing or wrong, inline and in a file; profiles that overlap, are empty or malformed; setup that outlasts the buffer; a query late enough to drop a tick |
| `NodeTasks` | 2 nodes, both rebooted, with debug pods of their own names, one of them also the name of the oslat pod; leftovers of an earlier run for the other; tasks two by two; 2 polls | a node Ready while the other is down; collections that succeed for both nodes, that collide, that are cut off by a reboot. Two nodes with one pod name are left to the theorem `LogsAreOwn`, which holds for any `PodName` |
| `ChartViewer` | 1, 2, 3 and 21 samples, newest first, values of every magnitude up to the widest labels that fit and one beyond, of both signs, near the next power of ten or not; 2 terminals; 3 bytes typed ahead | a window that cannot shrink, one whose tenth is nothing, one whose tenth is two; a sequence split over reads |

Counters are bounded in guards: `Horizon` and `MaxSamples` (the clock and the
sample count stop being counted), `MaxClusters`, `MaxCalls`, `MaxRemovals`,
`MaxChanges`, `MaxPending`, `SetupBound`, `MaxLate` (any number in the proofs).
The clocks are coarse: a group's goroutine starts in the unit in which the duration
timer is armed. `NotAheadOfClock` is not about the
horizon itself. Symmetry is used only in `MetricStore`, over collectors, and no
liveness is checked there.

## 6. Fairness

- `Collector`: weak fairness for the steps of goroutines (the Go scheduler) and for
  the answer to a query (30 s and 10 min timeouts); strong fairness for the Done case
  of the group's select, because a Go select picks uniformly among ready cases, so a
  case ready infinitely often is taken; time passes. No fairness for Ctrl+C nor for
  late ticks. `DatabaseReturns` is an assumption, not something the code sees to:
  opening the database, `GetOrCreateCluster`, `ValidateCategoryConsistency`,
  `StoreQueryResults` and `IncrementQueryError` return, well or badly. None of them
  has a timeout (`prometheus/client.go:31-32` says so of the store), and one that
  hangs keeps `wg.Wait`, and so `RunKPIs`, from returning after Ctrl+C.
  `InterruptStops` and the termination part of `ImplementsJob` rest on it; the safety
  properties do not.
- `TaskRunner`: goroutines run and tasks end at their own timeouts.
- `NodeTasks`: goroutines run, and each wait has a deadline (five minutes for NotReady,
  the pod timeouts). That a single call returns is an assumption: creating a pod,
  fetching its logs and listing nodes have no timeout of their own. Nothing is asked of the cluster: nodes
  may stay up or down for ever, pods may never end.
- `ChartViewer`: the viewer's own steps, which block only while nothing was typed.
  Nothing is asked of the user: `QuitEnds` is about keys already pressed, three
  times because an Esc before them may swallow two.
- `MetricStore`, `DbShow` and `RunSetup` are checked for safety only.

## 7. Proofs

TLAPS proves, for every value of the constants:

| Module | Theorem | Says |
|---|---|---|
| `CollectorProofs` | `TypeCorrect` | `[]TypeOK` |
| | `InvCorrect` | the inductive invariant `CollectorInv` |
| | `DatabaseOutlivesQueries` | `[]NoUseAfterClose` |
| | `GroupsAreNotKilled` | `[]NoGroupKilled` |
| | `CollectorImplementsJob` | the safety part of the refinement of `CollectionJob` |
| | `ClockCorrect` | the invariant `ClockInv` that ties samples to the clock |
| | `GroupsFollowClock` | `[]NotAheadOfClock` |
| | `SampleCountsAreExact` | `[]SampleCountExact` |
| `MetricStoreProofs` | `TypeCorrect` | `[]TypeOK` |
| | `TablesAlwaysExist` | `[]TablesExist` |
| | `ClustersHaveOneId` | `[]OneIdPerCluster` |
| | `CategoryAlwaysKept` | `CategoryIsKept` |
| | `SteadyAlwaysFound` | `[]SteadyFoundByName` |
| | `StoreImplemented` | the refinement of `KpiStore` |
| `TaskRunnerProofs` | `RunInvariant` | the inductive invariant `RunInv` |
| | `TypeCorrect` | `[]TypeOK` |
| | `VerdictAlwaysExact` | `[]VerdictExact` |
| | `OnlyFailFastEverSkips` | `[]OnlyFailFastSkips` |
| | `TasksNeverOverlap` | `[]NoOverlap` |
| | `ArchiveAlwaysComplete` | `[]ArchiveComplete` |
| `ChartViewerProofs` | `TypeCorrect` | `[]TypeOK` |
| | `WindowAlwaysInside` | `[]WindowInside` |
| | `ArrowKeysWork` | `ArrowKeys` |
| | `FrameAlwaysFits` | `[]FrameFits` |
| `NodeTasksProofs` | `NodeInvariant` | the inductive invariant `NodeInv` |
| | `TypeCorrect` | `[]TypeOK` |
| | `PollingFollowsReboot` | `[]PollsAfterReboot` |
| | `LogsAreOwn` | `[]OwnLogs` |
| | `SuccessAlwaysComplete` | `[]SuccessIsComplete` |
| `KpiStoreProofs` | `StoreInvariant` | the invariant `StoreInv` of the abstract database |
| `DbShowProofs` | `ShowInvariant` | the inductive invariant `ShowInv` |
| | `TypeCorrect` | `[]TypeOK` |
| | `NothingIsMissed` | `[]NothingMissed` |
| | `ShownAlwaysSound` | `[]ShownIsSound` |
| | `TotalsAlwaysWithin` | `[]TotalsWithin` |
| `RunSetupProofs` | `SetupInvariant` | the inductive invariant `SetupInv` |
| | `TypeCorrect` | `[]TypeOK` |
| | `TokenOutlivesQueries` | `[]TokenLasts` |
| | `JobAlwaysSound` | `[]JobSound` |
| | `TasksAlwaysSound` | `[]TasksSound` |
| | `WindowsAlwaysForward` | `[]WindowsForward` |
| | `GapAlwaysWithinLateness` | `GapWithinLateness` |
| | `DoctorAlwaysForetells` | `[]DoctorForetells` |

They rest on the assumptions of the modules, which TLC evaluates in every run of
them. None says more of the constants than what they stand for:

- `Collector`: `InputAssumption` and `BoundAssumption` (there are finitely many KPIs,
  frequencies and the duration are positive, run-once KPIs are KPIs, the horizon lies
  after the duration).
- `KpiStore`: `KpiStoreAssumption` (the bound on ids is a number).
  `MetricStore`: `StoreAssumption` (its KPI files give KPIs a table).
- `TaskRunner`: `OrderAssumption` (an order is a sequence that names no task twice).
- `ChartViewer`: `ViewerAssumption` (samples are typed, and there is one, as
  `runShowKPIs` makes sure).
- `Cluster`: `ClusterAssumption` (pods of known names; `NoPod` is no pod).
  `NodeTasks`: `TaskAssumption` (some nodes to reboot are listed, reboot pods have
  names of their own, the interval is below the duration, as `validatePollConfig`
  makes sure).
- `DbShow`: `ShowAssumption` (finite sets; a reader finds a database its writers can
  leave behind; each command has the flags it registers).
- `RunSetup`: `SettingsAssumption`, `InputAssumption` (files decode to typed records;
  settings of a tasks file and of the flags are where the code reads them),
  `ClustersAssumption` and `AbsentAssumption` (types), and that the bound `MaxLate` is
  a number.

**The collection.** `NoUseAfterClose` is not inductive: nothing in it says that the
WaitGroup's counter is the number of groups that are alive. `LifecycleInv` does (a
cardinality, which `LiveMoves` follows through `wg.Add` and `wg.Done`), together with
`PhaseInv`, where the main goroutine is and what it has started by then. For the refinement two more facts are needed when
the job returns: `FailureInv`, that a failure is in `hadFailures` or in a call
that has still to report it, and `CoverageInv`, that a KPI nobody attempted or
refused is in a call that has still to do so. `CollectorInv` is `TypeOK` with these
three. The counts need arithmetic: `ClockInv` says that samples plus pending
ticks are at most, and for a prompt group exactly, the number of periods that
have begun, and lemmas on division carry it over a unit of time. The refinement
has one step per action, each shown to be an action of `CollectionJob` or a
stutter under `JobStatus`.

**The database.** `Typed` adds to `TypeOK` what a call and a removal hold at each
of their statements. `TablesOK` says that what a collector caches or is about to
register has its table: `TablesExist` alone says nothing of the collector between
two statements. `IdsOK` says that a held id is that of its name unless it was
removed, and that no id exceeds the last one handed out. `SteadyOK` says that
rows and registry of a steady KPI agree with every KPI file, and that a collector
about to store has registered it, unless a `db remove` unlisted it since. With the
first three, every action of `MetricStore` is an action of `KpiStore` or a stutter;
`DbShow` reads that store, so what is proved of it holds beside the collectors and
removals of `MetricStore`.

**The task runner.** `StartsOK` ties the loop's position to the states of the
tasks, `NamesOK` says that whoever holds the mutex has read the list as it is and
that a failure is in the list or in a goroutine that has still to append it,
`CountOK` that the WaitGroup counts the open goroutines (a cardinality, which
changes by one when a task opens or ends) and `SkipsOK` how fail-fast leaves the
loop. `RunInv` is their conjunction with the types.

**The chart viewer.** Lemmas on `PanLeft`, `PanRight`, `ZoomIn` and `ZoomOut` say,
for a window of any size, that each keeps it inside the samples, does its work
until an edge, and that zooms keep the middle to half a sample. The invariant is
that the window is inside and is one over all the samples, which `ByTime` keeps
(`ByTimeSorts`: it is a permutation into time order); `ArrowKeysWork` follows from
it and the lemmas. `FrameAlwaysFits` needs that a slice has a least and a greatest
value (`Extremes`, by well-foundedness, as long as magnitudes are bounded), that the scale
chosen leaves five digits at most (`ScaleFits`), and that rounding to three decimals
adds none to them (`RoundedFits`).

**The node tasks.** `OwnLogs` is inductive only with where the logs come from:
`PodsOK` says that a collector that waits for a pod, or is about to read its logs,
waits for one that this run created and, for a node's collector, on that node; it
stays so because nobody deletes pods. `DownOK` says that a node that is down,
reported NotReady or found so has stopped, `ProgressOK` how far reboot and sweep
have got through the list, `ResultsOK` what a collector that ended without an
error has left. Each of the three groups of variables (recovery, collectors,
cluster) has a lemma on what its steps leave alone of the others.

**The abstract database.** `StoreInv` adds to the types that ids are those handed
out, no two clusters sharing one, and that rows and registry refer to tables that
exist. The assumption of `DbShow` on its initial contents is this invariant, so
every later contents it reads are ones `KpiStore` can have.

**db show.** `HistoryOK` keeps the two histories around the database: what was
there all the time is in reach now, and what is there now was there at some time.
`FoundOK` says that of what was there all the time and asked for, whatever has not
been found is in a table still to be read; `CountOK` says the same of counts, as
cardinalities over the tables already read. When the last table is read, only the
limit remains: `Cut` keeps as many results as it may, none of which comes after
one that it drops. The counts need unique ids: the rows
under an id are then the joined rows of one cluster, and the two histories differ
from them by cardinality alone.

**The run setup.** The input never changes, so what a check let through stays true
(`ChecksOK`, `KpisOK`). `FlagsOK` gives the settings at each step in closed form:
those of the command line, then `AuthFlags`, with the tasks file merged in once,
for which the token is made, then `FinalFlags`. Merging a tasks file twice is merging
it once, and the command line wins in both (`CommandLineWins`). `SpecOK` follows the tasks file: decoded, then
resolved section by section, then with placeholders substituted (and the CPU list
filled in). `TasksOK` says that the tasks are those of the file, each once, in the
given order or the default one, and that the captured job is made of the final
settings and KPIs. `AskedOK` says what has been asked so far, each with the window of
its moment. `GroupsOK` follows the tickers: `OnTrack` says that, however late a group
is and whatever ticks it dropped, the tick a KPI is asked for next comes no later than
one period after its last query. `GapAlwaysWithinLateness` follows (`DueGap`):
`FrequencyFits` says that the period is no more than the look-back, so a query at its
tick would reach back to the last one, and a later one falls short by its lateness.
`TokenOutlivesQueries` compares the time of a query with the token's expiry. `WindowsForward` depends on the time at which KPIs were
validated, which is some earlier moment; lemmas say which checks do not depend on
the time (`KpisTimeless`). `DoctorAlwaysForetells` compares the doctor's checks with
`FinalFlags` and with the loaded KPIs (`SettingsForetold`, `KpisForetold`). CPU sets
have an ordered list (`CpuIDsInOrder`) because a finite set of numbers can be ranked.

Only model-checked: liveness (`InterruptStops`, `RunEnds`, `TasksEnd`, `QuitEnds`,
the termination part of `ImplementsJob`), which the prover cannot do under
fairness. Every invariant and action property of the passing runs is proved.

## 8. Disagreements between the code and what is said of it

Each of these has a run that exhibits it and an entry in `PROJECT.json`.

1. A `sample-frequency` under one second is accepted and divides by zero
   (`CollectorPanic`).
2. `db remove clusters` beside a collection leaves rows without a cluster on SQLite
   (`MetricStoreRemoved`).
3. Ctrl+C is swallowed after a collection has subscribed to it (`TaskRunnerCtrlC`).
4. The token is made before the KPI file's duration is applied (`RunSetupToken`).
5. A frequency is compared with `since` alone, so a KPI with an `until` may leave
   gaps between its windows (`RunSetupGaps`), even with every query on time.

Met while modelling, without a run of their own; the models follow the code:

- A frequency that divides the duration is sampled once more than two texts say: the
  comment on `calculateTotalSamples` (`collector/collector.go:225`, "up to < D") and
  `src/docs/kpis-file-configuration.md:139` (duration / frequency; its table gives 45
  samples for 60s over 45m, the code takes 46). The code takes one at the end of the
  duration as well, and the comment on `durationBuffer` (`collector/collector.go:24`)
  says it means to. `SampleCountExact`, checked in `Collector` and proved as
  `SampleCountsAreExact`, states that last reading: it refutes the other two.
- A KPI first collected without a category is not in the registry
  (`database/shared.go:152`); a category given later hides its older rows from `--name`
  (against `src/docs/kpis-file-configuration.md:92`).
- A frequency equal to `since` is accepted (`commands/run.go:516`) and leaves a gap
  whenever a query is late for its tick: behind slow queries of its group, whose ticks
  are dropped meanwhile (`collector/collector.go:194`). The gap is no longer than the
  lateness (`GapWithinLateness`).
- fail-fast is ignored with parallel tasks (`commands/run.go:421`, against
  `src/docs/tasks-configuration.md:85`); the comment at `commands/run.go:396` says so.
- With `--once` the token lasts one hour, not the ten minutes of
  `src/docs/collecting-metrics.md:62`.
- A category may be any text (`src/docs/kpis-file-configuration.md:96`), but
  `registry` names the table `kpi_registry` (`config/kpis_loader.go:161`,
  `database/shared.go:14`).
- In the chart viewer an Esc pressed alone swallows the next two bytes, `q` and
  Ctrl+C among them (`output/interactive.go:262`).
- An empty KPI file named by a tasks file fails the second validation of the spec,
  after the doctor has passed it.
- `doctor` is called a full pre-flight check (`commands/doctor.go:63`), but sees
  neither settings given in files, nor what tasks other than `prometheus` need, nor
  the exclusions cobra checks; and it takes `KPI_COLLECTOR_DB_URL`
  (`commands/doctor.go:436`), which the run command does not read.

## 9. What is not modelled, and what is assumed

- Contents: PromQL, values, labels, log texts, YAML syntax. They are classes where
  a branch depends on them.
- The KPI and tasks files are not edited while the command runs; they parse.
- In `RunSetup` a query takes no time of its own, but any of them may come late, and
  tasks run one after the other; failures, slow shutdown and Ctrl+C are `Collector`'s,
  parallel tasks `TaskRunner`'s.
- The ageing of the token beyond its buffer, during the prompt and earlier tasks, is
  in the model, but no property excludes it: the code does not.
- In `NodeTasks` nodes go down only through reboot pods, and a debug pod that
  succeeds has printed both markers (its script runs under `set -e`).
- In `DbShow` which of several errors is printed, and the order of rows with one
  time, are left open. Its number of concurrent changes is bounded.
- `doctor`: its warnings, the cluster's type and whether files exist. They do not
  touch what a run does. `InDoctorsReach` leaves out every disagreement known
  (section 8): `DoctorForetells` says that there is no other.
- Output: tables, JSON, CSV, banners, the drawing of a chart beyond its geometry,
  and the log. Text of no state the other parts depend on.
- Grafana (`commands/grafana_*.go`): it writes provisioning files and calls docker
  or podman, in order and without retry. All state is in the container and its
  runtime, outside the program. Worth knowing: the files are rewritten before the
  old container is removed, so a start that fails in between leaves a running
  container that rereads them; and `stop` looks in the runtime it finds
  working first, which need not be the one `start` used.
- `kpis generate` copies embedded profiles to a file; the command-line library and
  `src/cmd` only register flags and commands; `commands/tar.go` writes an archive
  in one step whose failure `TaskRunner` models.
