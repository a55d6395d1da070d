------------------------------ MODULE Collector ------------------------------
(***************************************************************************)
(* collector.RunKPIs and RunKPIsOnce, with prometheus.RunQueries at the    *)
(* grain of one query: the main goroutine runs the run-once KPIs, starts   *)
(* one goroutine per sampling frequency, waits for the duration timer or   *)
(* Ctrl+C, cancels the goroutines and waits for them.  A group is named by *)
(* its frequency, as in the map groupKPIsByFrequency builds; 0, the        *)
(* frequency RunQueries is given outside a group, names the main goroutine.*)
(*                                                                         *)
(* Time is counted in units; durationBuffer is a part of one unit.         *)
(***************************************************************************)
EXTENDS Integers, FiniteSets

CONSTANTS
  Kpis,              \* the KPIs of the job
  RunOnce,           \* those with run-once: true
  SampleFrequency,   \* per KPI, its sample-frequency in units (0: not given)
  SamplingFreq,      \* --frequency
  Duration,          \* --duration
  Second,            \* units in a second
  Prompt,            \* frequencies whose collections end within one unit
  Horizon,           \* bound: the clock stops being counted here
  MaxSamples         \* bound: sampleCount stops being counted here

(***************************************************************************)
(* Frequencies and durations are positive (ValidatePromSettings).  A KPI   *)
(* file may be empty.                                                      *)
(***************************************************************************)
ASSUME InputAssumption ==
  /\ IsFiniteSet(Kpis)
  /\ RunOnce \subseteq Kpis
  /\ SampleFrequency \in [Kpis -> Nat]
  /\ SamplingFreq \in Nat \ {0}
  /\ Duration \in Nat \ {0}
  /\ Second \in Nat \ {0}

ASSUME BoundAssumption ==
  /\ Horizon \in Nat /\ Horizon > Duration
  /\ MaxSamples \in Nat /\ MaxSamples >= Horizon

Main == 0

\* Query.GetEffectiveFrequency
EffectiveFrequency(k) ==
  IF SampleFrequency[k] > 0 THEN SampleFrequency[k] ELSE SamplingFreq

\* splitRunOnceQueries
Repeating == Kpis \ RunOnce

\* groupKPIsByFrequency: the frequencies, and the KPIs of each.
Groups == {EffectiveFrequency(k) : k \in Repeating}
Group(g) == {k \in Repeating : EffectiveFrequency(k) = g}

Executors == Groups \cup {Main}

\* calculateTotalSamples, for a frequency of a second or more
TotalSamples(frequency) ==
  ((Duration \div Second) \div (frequency \div Second)) + 1

VARIABLES
  singleRun,         \* --once: RunKPIsOnce instead of RunKPIs
  main,              \* where the main goroutine is
  db,                \* the *sql.DB the whole job shares
  hadFailures,       \* the atomic.Bool of RunKPIs
  exitErr,           \* the job returned an error
  now,               \* units since the duration timer was started
  timer,             \* a value waits in durationTimer.C
  notified,          \* signal.Notify was called
  interrupt,         \* a signal waits in interruptChan (capacity 1)
  shutdownReason,    \* which case of the main select was taken
  cancelled,         \* ctx.Done() is closed
  wg,                \* the WaitGroup's counter
  loop,              \* where the goroutine of each group is
  tick,              \* a value waits in ticker.C (capacity 1)
  samples,           \* sampleCount
  stage,             \* where the current RunQueries call is
  todo,              \* KPIs it has still to query
  failed,            \* its failedCount is not 0, or it failed before the first query
  attempted,         \* history: KPIs queried at least once
  refused,           \* history: KPIs of calls that failed before the first query
  bad                \* history: some query or call failed

jobVars   == <<singleRun, db, hadFailures, exitErr>>
clockVars == <<now, timer>>
stopVars  == <<notified, interrupt, shutdownReason, cancelled>>
groupVars == <<wg, loop, tick, samples>>
queryVars == <<stage, todo, failed, attempted, refused, bad>>
vars == <<main, jobVars, clockVars, stopVars, groupVars, queryVars>>

TypeOK ==
  /\ singleRun \in BOOLEAN
  /\ main \in {"init", "queries", "arm", "spawn", "select", "wait",
               "returned", "killed", "panicked"}
  /\ db \in {"closed", "open"}
  /\ hadFailures \in BOOLEAN
  /\ exitErr \in BOOLEAN
  /\ now \in 0 .. Horizon
  /\ timer \in BOOLEAN
  /\ notified \in BOOLEAN
  /\ interrupt \in BOOLEAN
  /\ shutdownReason \in {"none", "duration", "interrupted"}
  /\ cancelled \in BOOLEAN
  /\ wg \in 0 .. Cardinality(Groups)
  /\ loop \in [Groups -> {"unstarted", "created", "querying", "select", "done"}]
  /\ tick \in [Groups -> BOOLEAN]
  /\ samples \in [Groups -> 0 .. MaxSamples]
  /\ stage \in [Executors -> {"setup", "query", "store"}]
  /\ todo \in [Executors -> SUBSET Kpis]
  /\ failed \in [Executors -> BOOLEAN]
  /\ attempted \in SUBSET Kpis
  /\ refused \in SUBSET Kpis
  /\ bad \in BOOLEAN

Init ==
  /\ singleRun \in BOOLEAN
  /\ main = "init"
  /\ db = "closed"
  /\ hadFailures = FALSE
  /\ exitErr = FALSE
  /\ now = 0
  /\ timer = FALSE
  /\ notified = FALSE
  /\ interrupt = FALSE
  /\ shutdownReason = "none"
  /\ cancelled = FALSE
  /\ wg = 0
  /\ loop = [g \in Groups |-> "unstarted"]
  /\ tick = [g \in Groups |-> FALSE]
  /\ samples = [g \in Groups |-> 0]
  /\ stage = [e \in Executors |-> "setup"]
  /\ todo = [e \in Executors |-> {}]
  /\ failed = [e \in Executors |-> FALSE]
  /\ attempted = {}
  /\ refused = {}
  /\ bad = FALSE

Alive == main \notin {"killed", "panicked"}

-----------------------------------------------------------------------------
(***************************************************************************)
(* RunQueries, called by the main goroutine or by a group.  The KPIs are   *)
(* queried one after the other; their order is left open.                  *)
(***************************************************************************)
Running(e) == IF e = Main THEN main = "queries" ELSE Alive /\ loop[e] = "querying"

\* The KPIs an executor hands to RunQueries
Batch(e) ==
  IF e # Main THEN Group(e) ELSE IF singleRun THEN Kpis ELSE RunOnce

\* RunKPIs calls RunQueries for no empty batch, RunKPIsOnce does.
BeginQueries(e, batch) ==
  /\ stage' = [stage EXCEPT ![e] = IF singleRun \/ batch # {} THEN "setup" ELSE "query"]
  /\ todo' = [todo EXCEPT ![e] = batch]
  /\ failed' = [failed EXCEPT ![e] = FALSE]
  /\ UNCHANGED <<attempted, refused, bad>>

\* GetOrCreateCluster, ValidateCategoryConsistency and setupPromClient succeed.
SetupEnds(e) ==
  /\ Running(e) /\ stage[e] = "setup"
  /\ stage' = [stage EXCEPT ![e] = "query"]
  /\ UNCHANGED <<main, jobVars, clockVars, stopVars, groupVars, todo, failed, attempted,
                 refused, bad>>

\* One of them fails: RunQueries returns before its first query.
SetupFails(e) ==
  /\ Running(e) /\ stage[e] = "setup"
  /\ stage' = [stage EXCEPT ![e] = "query"]
  /\ todo' = [todo EXCEPT ![e] = {}]
  /\ failed' = [failed EXCEPT ![e] = TRUE]
  /\ refused' = refused \cup Batch(e)
  /\ bad' = TRUE
  /\ UNCHANGED <<main, jobVars, clockVars, stopVars, groupVars, attempted>>

\* What follows an answer: data are stored and an error is counted in the
\* database, an empty result needs no more.
AfterQuery(ok) == IF ok THEN {"query", "store"} ELSE {"store"}

\* A loop that gave up at the first failed query
QueryEndsOrBreaks(e, k, ok) ==
  /\ Running(e) /\ stage[e] = "query"
  /\ k \in todo[e]
  /\ \E next \in AfterQuery(ok) : stage' = [stage EXCEPT ![e] = next]
  /\ todo' = [todo EXCEPT ![e] = IF ok THEN @ \ {k} ELSE {}]
  /\ failed' = [failed EXCEPT ![e] = @ \/ ~ok]
  /\ attempted' = attempted \cup {k}
  /\ bad' = (bad \/ ~ok)
  /\ UNCHANGED <<main, jobVars, clockVars, stopVars, groupVars, refused>>

\* The query of executeQuery returns, at the latest when its timeout expires; a
\* failure is counted and the next KPI is queried all the same.
QueryEnds(e, k, ok) ==
  /\ Running(e) /\ stage[e] = "query"
  /\ k \in todo[e]
  /\ \E next \in AfterQuery(ok) : stage' = [stage EXCEPT ![e] = next]
  /\ todo' = [todo EXCEPT ![e] = @ \ {k}]
  /\ failed' = [failed EXCEPT ![e] = @ \/ ~ok]
  /\ attempted' = attempted \cup {k}
  /\ bad' = (bad \/ ~ok)
  /\ UNCHANGED <<main, jobVars, clockVars, stopVars, groupVars, refused>>

\* StoreQueryResults returns, or IncrementQueryError, whose own error is only
\* printed: that query has failed already.  Neither call has a timeout.
StoreEnds(e, ok) ==
  /\ Running(e) /\ stage[e] = "store"
  /\ stage' = [stage EXCEPT ![e] = "query"]
  /\ failed' = [failed EXCEPT ![e] = @ \/ ~ok]
  /\ bad' = (bad \/ ~ok)
  /\ UNCHANGED <<main, jobVars, clockVars, stopVars, groupVars, todo, attempted, refused>>

\* RunQueries is through with its batch.
BatchOver(e) == Running(e) /\ stage[e] = "query" /\ todo[e] = {}

-----------------------------------------------------------------------------
(***************************************************************************)
(* The goroutine of a group: runKPIGroupLoop and runKPIs.                  *)
(***************************************************************************)

\* The goroutine starts: ticker, total, first sample.  calculateTotalSamples
\* divides by the whole seconds of the frequency.
StartGroup(g) ==
  /\ Alive /\ loop[g] = "created"
  /\ IF g \div Second = 0
     THEN /\ main' = "panicked"
          /\ UNCHANGED <<groupVars, queryVars>>
     ELSE /\ loop' = [loop EXCEPT ![g] = "querying"]
          /\ samples' = [samples EXCEPT ![g] = 1]
          /\ BeginQueries(g, Group(g))
          /\ UNCHANGED <<main, wg, tick>>
  /\ UNCHANGED <<jobVars, clockVars, stopVars>>

\* RunQueries has returned; runKPIs keeps its failure.
SampleEnds(g) ==
  /\ BatchOver(g)
  /\ loop' = [loop EXCEPT ![g] = "select"]
  /\ hadFailures' = (hadFailures \/ failed[g])
  /\ UNCHANGED <<main, singleRun, db, exitErr, clockVars, stopVars, wg, tick,
                 samples, queryVars>>

Counted(n) == IF n < MaxSamples THEN n + 1 ELSE n

\* A select that serves the ticker even before its first tick
SampleAgain(g) ==
  /\ Alive /\ loop[g] = "select"
  /\ tick' = [tick EXCEPT ![g] = FALSE]
  /\ samples' = [samples EXCEPT ![g] = Counted(@)]
  /\ loop' = [loop EXCEPT ![g] = "querying"]
  /\ BeginQueries(g, Group(g))
  /\ UNCHANGED <<main, jobVars, clockVars, stopVars, wg>>

\* case <-ticker.C.  When ctx.Done() is ready too, Go picks either at random.
TakeTick(g) ==
  /\ Alive /\ loop[g] = "select" /\ tick[g]
  /\ tick' = [tick EXCEPT ![g] = FALSE]
  /\ samples' = [samples EXCEPT ![g] = Counted(@)]
  /\ loop' = [loop EXCEPT ![g] = "querying"]
  /\ BeginQueries(g, Group(g))
  /\ UNCHANGED <<main, jobVars, clockVars, stopVars, wg>>

\* wg.Done both deferred and called
StopOnDoneTwice(g) ==
  /\ Alive /\ loop[g] = "select" /\ cancelled
  /\ loop' = [loop EXCEPT ![g] = "done"]
  /\ wg' = wg - 2
  /\ tick' = [tick EXCEPT ![g] = FALSE]
  /\ UNCHANGED <<main, jobVars, clockVars, stopVars, samples, queryVars>>

\* case <-ctx.Done(): the deferred ticker.Stop and wg.Done run.
StopOnDone(g) ==
  /\ Alive /\ loop[g] = "select" /\ cancelled
  /\ loop' = [loop EXCEPT ![g] = "done"]
  /\ wg' = wg - 1
  /\ tick' = [tick EXCEPT ![g] = FALSE]
  /\ UNCHANGED <<main, jobVars, clockVars, stopVars, samples, queryVars>>

-----------------------------------------------------------------------------
(***************************************************************************)
(* The main goroutine: RunKPIsOnce and RunKPIs.                            *)
(***************************************************************************)

\* InitDatabaseWithConfig, then the run-once KPIs if any (with --once, all KPIs)
OpenDatabase ==
  /\ main = "init"
  /\ db' = "open"
  /\ main' = "queries"
  /\ BeginQueries(Main, Batch(Main))
  /\ UNCHANGED <<singleRun, hadFailures, exitErr, clockVars, stopVars, groupVars>>

OpenDatabaseFails ==
  /\ main = "init"
  /\ main' = "returned"
  /\ exitErr' = TRUE
  /\ refused' = Kpis
  /\ bad' = TRUE
  /\ UNCHANGED <<singleRun, db, hadFailures, clockVars, stopVars, groupVars,
                 stage, todo, failed, attempted>>

\* The function returns err; the deferred closeDB runs.
ReturnWith(err) ==
  /\ main' = "returned"
  /\ exitErr' = err
  /\ db' = "closed"

\* The main goroutine has no query left.  RunKPIsOnce returns its
\* error, RunKPIs returns here when no KPI repeats.
RunOnceEnds ==
  /\ BatchOver(Main)
  /\ IF singleRun
     THEN ReturnWith(failed[Main]) /\ UNCHANGED hadFailures
     ELSE /\ hadFailures' = (hadFailures \/ failed[Main])
          /\ IF Groups = {}
             THEN ReturnWith(hadFailures')
             ELSE main' = "arm" /\ UNCHANGED <<exitErr, db>>
  /\ UNCHANGED <<singleRun, clockVars, stopVars, groupVars, queryVars>>

\* A main goroutine that would subscribe to signals only once all groups run
ArmTimerOnly ==
  /\ main = "arm"
  /\ main' = "spawn"
  /\ UNCHANGED <<jobVars, clockVars, stopVars, groupVars, queryVars>>

\* time.NewTimer and signal.Notify, in that order and before any group
ArmTimer ==
  /\ main = "arm"
  /\ notified' = TRUE
  /\ main' = "spawn"
  /\ UNCHANGED <<jobVars, clockVars, interrupt, shutdownReason, cancelled, groupVars,
                 queryVars>>

\* startKPIGoroutines without wg.Add(1) before the go statement
SpawnUncounted(g) ==
  /\ main = "spawn" /\ loop[g] = "unstarted"
  /\ loop' = [loop EXCEPT ![g] = "created"]
  /\ main' = IF \A h \in Groups : loop'[h] # "unstarted" THEN "select" ELSE "spawn"
  /\ UNCHANGED <<jobVars, clockVars, stopVars, wg, tick, samples, queryVars>>

\* One turn of the loop of startKPIGoroutines, over a map in any order
Spawn(g) ==
  /\ main = "spawn" /\ loop[g] = "unstarted"
  /\ wg' = wg + 1
  /\ loop' = [loop EXCEPT ![g] = "created"]
  /\ main' = IF \A h \in Groups : loop'[h] # "unstarted" THEN "select" ELSE "spawn"
  /\ UNCHANGED <<jobVars, clockVars, stopVars, tick, samples, queryVars>>

\* The two cases of the main select, each followed by shutdown's cancel().
SelectTimer ==
  /\ main = "select" /\ timer
  /\ timer' = FALSE
  /\ shutdownReason' = "duration"
  /\ cancelled' = TRUE
  /\ main' = "wait"
  /\ UNCHANGED <<jobVars, now, notified, interrupt, groupVars, queryVars>>

\* An interrupt case that waits for the groups without cancelling them
SelectInterruptOnly ==
  /\ main = "select" /\ interrupt
  /\ interrupt' = FALSE
  /\ shutdownReason' = "interrupted"
  /\ main' = "wait"
  /\ UNCHANGED <<jobVars, clockVars, notified, cancelled, groupVars, queryVars>>

SelectInterrupt ==
  /\ main = "select" /\ interrupt
  /\ interrupt' = FALSE
  /\ shutdownReason' = "interrupted"
  /\ cancelled' = TRUE
  /\ main' = "wait"
  /\ UNCHANGED <<jobVars, clockVars, notified, groupVars, queryVars>>

\* wg.Wait returns: RunKPIs reports whether anything failed.
AllStopped ==
  /\ main = "wait" /\ wg = 0
  /\ ReturnWith(hadFailures)
  /\ UNCHANGED <<singleRun, hadFailures, clockVars, stopVars, groupVars, queryVars>>

\* Ctrl+C: queued once main has subscribed, deadly before.
Sigint ==
  /\ main \notin {"returned", "killed", "panicked"}
  /\ IF notified
     THEN ~interrupt /\ interrupt' = TRUE /\ UNCHANGED main
     ELSE main' = "killed" /\ UNCHANGED interrupt
  /\ UNCHANGED <<jobVars, clockVars, notified, shutdownReason, cancelled, groupVars,
                 queryVars>>

-----------------------------------------------------------------------------
(***************************************************************************)
(* Time.  A unit does not pass while a goroutine that needs much less than *)
(* a unit has something to do: one just created, the main goroutine with a *)
(* case ready, a prompt group.  Every other group may take any time.       *)
(***************************************************************************)
Ticking(g) == loop[g] \in {"querying", "select"}

AtRest(g) ==
  loop[g] = "done" \/ (loop[g] = "select" /\ ~tick[g] /\ ~cancelled)

PromptAtRest == \A g \in Groups \cap Prompt : AtRest(g)

Settled ==
  /\ main \in {"select", "wait"}
  /\ main = "select" => ~timer /\ ~interrupt
  /\ \A g \in Groups : loop[g] # "created"
  /\ PromptAtRest

\* A timer without durationBuffer: it expires together with the last tick.
TimerFiresUnbuffered ==
  /\ main = "select" /\ ~timer /\ now >= Duration
  /\ timer' = TRUE
  /\ UNCHANGED <<main, jobVars, now, stopVars, groupVars, queryVars>>

\* durationTimer expires durationBuffer after Duration: time enough for a
\* prompt group to serve a tick due at that moment.
TimerFires ==
  /\ main = "select" /\ ~timer /\ now >= Duration
  /\ Settled
  /\ timer' = TRUE
  /\ UNCHANGED <<main, jobVars, now, stopVars, groupVars, queryVars>>

\* Tickers send into a channel of capacity 1 and drop what does not fit.
Ticks == [g \in Groups |-> tick[g] \/ (Ticking(g) /\ now' % g = 0)]

\* One unit passes, but not past Duration while the timer has yet to expire.
Advance ==
  /\ Settled
  /\ now < Horizon
  /\ main = "select" => now < Duration
  /\ now' = now + 1
  /\ tick' = Ticks
  /\ UNCHANGED <<main, jobVars, timer, stopVars, wg, loop, samples, queryVars>>

\* Beyond the horizon a ticker may fire at any time.
LateTick(g) ==
  /\ Alive /\ now = Horizon /\ Ticking(g) /\ ~tick[g]
  /\ tick' = [tick EXCEPT ![g] = TRUE]
  /\ UNCHANGED <<main, jobVars, clockVars, stopVars, wg, loop, samples, queryVars>>

\* The caller goes on, or the process is gone.
Terminated ==
  /\ main \in {"returned", "killed", "panicked"}
  /\ UNCHANGED vars

-----------------------------------------------------------------------------
Opening == OpenDatabase \/ OpenDatabaseFails

MainStep ==
  \/ RunOnceEnds
  \/ ArmTimer
  \/ \E g \in Groups : Spawn(g)
  \/ SelectTimer
  \/ SelectInterrupt
  \/ AllStopped

PrometheusCall(e) == \E k \in Kpis, ok \in BOOLEAN : QueryEnds(e, k, ok)

DatabaseCall(e) ==
  \/ SetupEnds(e)
  \/ SetupFails(e)
  \/ \E ok \in BOOLEAN : StoreEnds(e, ok)

GroupStep(g) ==
  \/ StartGroup(g)
  \/ SampleEnds(g)
  \/ TakeTick(g)
  \/ StopOnDone(g)

Next ==
  \/ Opening
  \/ MainStep
  \/ \E e \in Executors : PrometheusCall(e) \/ DatabaseCall(e)
  \/ \E g \in Groups : GroupStep(g)
  \/ \E g \in Groups : LateTick(g)
  \/ Sigint
  \/ TimerFires
  \/ Advance
  \/ Terminated

(***************************************************************************)
(* Goroutines are scheduled and queries end at their timeouts (weak        *)
(* fairness); time passes; select is uniformly random, so a Done case that *)
(* is ready again and again is taken (strong fairness).  Nothing obliges a *)
(* user to press Ctrl+C or a ticker to be late.                            *)
(***************************************************************************)
Fairness ==
  /\ WF_vars(MainStep)
  /\ \A e \in Executors : WF_vars(PrometheusCall(e))
  /\ \A g \in Groups : WF_vars(StartGroup(g) \/ SampleEnds(g) \/ TakeTick(g))
  /\ \A g \in Groups : SF_vars(StopOnDone(g))
  /\ WF_vars(TimerFires)
  /\ WF_vars(Advance)

(***************************************************************************)
(* An assumption about the database, which the code does not enforce: it   *)
(* opens, and every call to it returns, sooner or later and well or badly. *)
(* Database calls have no timeout ("Database storage runs separately       *)
(* without a timeout", client.go), so a hung store keeps wg.Wait, and with *)
(* it RunKPIs, from returning.                                             *)
(***************************************************************************)
DatabaseReturns ==
  /\ WF_vars(Opening)
  /\ \A e \in Executors : WF_vars(DatabaseCall(e))

Spec == Init /\ [][Next]_vars /\ Fairness /\ DatabaseReturns

-----------------------------------------------------------------------------
(***************************************************************************)
(* Properties                                                              *)
(***************************************************************************)

\* RunKPIs closes the database only when no RunQueries call can still use it,
\* whatever the groups were doing when the timer expired or Ctrl+C came.
NoUseAfterClose ==
  db = "closed" => \A e \in Executors : ~Running(e)

\* What durationBuffer promises ("when duration is an exact multiple of frequency,
\* the final tick fires and its collection completes before the timer expires") and
\* the log announces ("sample n/total"): when the duration ends the run, a group
\* whose collections are prompt has taken exactly the samples calculateTotalSamples
\* computes, the one due at the very end included and none after it, however slow
\* the other groups are. Two texts disagree where the frequency divides the duration
\* and say one sample less: the comment on calculateTotalSamples ("samples at 0, F,
\* 2F, ... up to < D", collector.go:225) and docs/kpis-file-configuration.md:139
\* ("duration / frequency"). The code computes, announces and takes the last one too.
SampleCountExact ==
  main = "returned" /\ shutdownReason = "duration" =>
    \A g \in Groups \cap Prompt :
      g % Second = 0 => samples[g] = TotalSamples(g)

\* No group, slow or prompt, samples more often than its ticker allows: one
\* sample at the start and one for each period that has passed.
NotAheadOfClock ==
  now < Horizon => \A g \in Groups : samples[g] <= (now \div g) + 1

\* Ctrl+C may kill the process only while no group has been started: from then
\* on it is turned into an orderly shutdown.
NoGroupKilled ==
  main = "killed" => \A g \in Groups : loop[g] = "unstarted"

\* A Ctrl+C the collection has subscribed to ends it, with every group drained,
\* whatever query or store each of them is in, as long as the database answers
\* (DatabaseReturns); a Prometheus that does not answer cannot prevent it.
InterruptStops == interrupt ~> main = "returned" \/ main = "panicked"

\* What the caller sees: the job of CollectionJob.
JobStatus ==
  CASE main = "returned" -> IF exitErr THEN "failed" ELSE "ok"
    [] main \in {"killed", "panicked"} -> "crashed"
    [] OTHER -> "running"

Job == INSTANCE CollectionJob WITH status <- JobStatus

\* RunKPIs and RunKPIsOnce keep the promise of CollectionJob: they end, every
\* KPI was attempted or refused with its batch, the error says whether anything
\* failed, and nothing runs after the return.  That they end rests on
\* DatabaseReturns too.
ImplementsJob == Job!Spec

\* The safety part of that promise
JobSafety == Job!Init /\ [][Job!Next]_(Job!vars)

\* Every frequency the settings check accepts can be collected at.
NeverPanics == main # "panicked"

-----------------------------------------------------------------------------
(***************************************************************************)
(* The inductive invariant behind the proofs (module CollectorProofs).     *)
(***************************************************************************)

\* The goroutines that have been created and have not stopped
Live == {g \in Groups : loop[g] \in {"created", "querying", "select"}}

\* From InitDatabase to the return the database is open, and no group is where
\* the main goroutine does not expect it.
PhaseInv ==
  /\ main \in {"queries", "arm", "spawn", "select", "wait"} => db = "open"
  /\ main \in {"init", "queries", "arm", "killed"} =>
       \A g \in Groups : loop[g] = "unstarted"
  /\ main = "returned" => \A g \in Groups : loop[g] \in {"unstarted", "done"}
  /\ main \in {"select", "wait"} => \A g \in Groups : loop[g] # "unstarted"
  /\ main \in {"spawn", "select", "wait"} => notified
  /\ main \in {"arm", "spawn", "select", "wait"} => ~singleRun

\* The WaitGroup counts every goroutine that has been created and has not stopped.
LifecycleInv == PhaseInv /\ wg = Cardinality(Live)

\* A failure seen by anyone is in hadFailures, or in a RunQueries call that has
\* not returned yet and will put it there.
FailureInv ==
  /\ hadFailures => bad /\ ~singleRun
  /\ \A e \in Executors : failed[e] => bad
  /\ bad /\ main \notin {"returned", "killed", "panicked"} =>
       hadFailures \/ \E e \in Executors : Running(e) /\ failed[e]

\* A KPI that no call has attempted or refused is in one that has yet to do so.
CoverageInv ==
  /\ main = "init" => attempted = {}
  /\ \A e \in Executors : stage[e] = "store" => attempted # {}
  /\ main \in {"arm", "spawn", "select", "wait"} =>
       RunOnce \subseteq attempted \cup refused
  /\ main = "queries" => Batch(Main) \subseteq todo[Main] \cup attempted \cup refused
  /\ \A g \in Groups :
       /\ loop[g] = "querying" => Group(g) \subseteq todo[g] \cup attempted \cup refused
       /\ loop[g] \in {"select", "done"} => Group(g) \subseteq attempted \cup refused

CollectorInv == TypeOK /\ LifecycleInv /\ FailureInv /\ CoverageInv

\* The samples a group has taken or has a tick for, against the clock: never
\* more than the periods passed, and exactly as many for a prompt group.
Pending(g) == IF tick[g] THEN 1 ELSE 0

NotAhead(g) ==
  /\ loop[g] \in {"unstarted", "created"} => now = 0 /\ samples[g] = 0 /\ ~tick[g]
  /\ loop[g] = "done" => cancelled
  /\ now < Horizon => samples[g] + Pending(g) <= (now \div g) + 1

NotBehind(g) ==
  /\ loop[g] \in {"querying", "select"} /\ ~cancelled =>
       samples[g] + Pending(g) = (now \div g) + 1
  /\ timer /\ main = "select" => loop[g] = "select" /\ ~tick[g]
  /\ shutdownReason = "duration" =>
       /\ loop[g] \in {"select", "done"} /\ ~tick[g]
       /\ samples[g] = (Duration \div g) + 1
       /\ now > Duration => loop[g] = "done"

MainClockInv ==
  /\ main \in {"init", "queries", "arm", "spawn"} => ~timer
  /\ main \in {"init", "queries", "arm", "spawn", "select"} => ~cancelled
  /\ main = "wait" => cancelled
  /\ ~cancelled => now <= Duration /\ shutdownReason = "none"
  /\ timer /\ main = "select" => now = Duration

ClockInv ==
  /\ MainClockInv
  /\ \A g \in Groups : NotAhead(g)
  /\ \A g \in Groups \cap Prompt : NotBehind(g)

==============================================================================
