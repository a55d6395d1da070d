------------------------------ MODULE TaskRunner ------------------------------
(***************************************************************************)
(* kpi-collector run: runTasks and runAllTasks, from the validated flags   *)
(* to the exit code, with what Ctrl+C does to the process.  A task is      *)
(* "created" when its goroutine exists and has not started, "ended" when   *)
(* its Run has returned, "holding" while it adds its name to failedTasks   *)
(* under the mutex, "reported" before the deferred wg.Done and "finished"  *)
(* after it.                                                               *)
(***************************************************************************)
EXTENDS Integers, Sequences

CONSTANTS
  Prometheus,        \* the task that subscribes to Ctrl+C
  Recovery,          \* app-recovery-time
  Orders             \* orders of tasks to consider

\* validateOrder: an order holds every task it names once.
ASSUME OrderAssumption ==
  /\ Prometheus # Recovery
  /\ \A o \in Orders :
       /\ Len(o) \in Nat /\ DOMAIN o = 1 .. Len(o)
       /\ \A i, j \in 1 .. Len(o) : o[i] = o[j] => i = j

VARIABLES
  order,             \* the tasks, in their order
  parallel,          \* orchestration.mode, or --parallel
  failFast,          \* orchestration.on-failure
  tarArtifacts,      \* --tar-artifacts
  main,              \* where runTasks is
  started,           \* turns of the loop of runAllTasks taken
  state,             \* where each task is
  outcome,           \* what its Run returned
  wg,                \* the WaitGroup's counter
  copy,              \* failedTasks as a task has read it for its append
  failedTasks,       \* the names collected
  notified,          \* signal.Notify was called; nothing ever undoes it
  interrupt,         \* a signal waits in interruptChan
  exit,              \* the exit code, once there is one
  archived,          \* history: tasks whose artifacts are in the archive
  hit                \* history: tasks running when a Ctrl+C came

planVars   == <<order, parallel, failFast, tarArtifacts>>
taskVars   == <<state, outcome, copy, failedTasks>>
signalVars == <<notified, interrupt, hit>>
vars == <<planVars, main, started, taskVars, wg, signalVars, exit, archived>>

Tasks == {order[i] : i \in 1 .. Len(order)}
AllTasks == UNION {{o[i] : i \in DOMAIN o} : o \in Orders}

Active(t) == state[t] \notin {"unstarted", "finished"}
Ended == main \in {"exited", "killed"}

TypeOK ==
  /\ order \in Orders
  /\ <<parallel, failFast, tarArtifacts>> \in BOOLEAN \X BOOLEAN \X BOOLEAN
  /\ main \in {"setup", "loop", "inline", "wait", "tar", "exited", "killed"}
  /\ started \in 0 .. Len(order)
  /\ state \in [AllTasks -> {"unstarted", "created", "running", "ended", "holding",
                             "reported", "finished"}]
  /\ outcome \in [AllTasks -> {"none", "ok", "failed"}]
  /\ wg \in 0 .. Len(order)
  /\ copy \in [AllTasks -> SUBSET AllTasks]
  /\ failedTasks \in SUBSET AllTasks
  /\ notified \in BOOLEAN
  /\ interrupt \in BOOLEAN
  /\ exit \in {"none", "ok", "error"}
  /\ archived \in SUBSET AllTasks
  /\ hit \in SUBSET AllTasks

\* orchestrationFromSpec, or no fail-fast for --prom-kpis-config
Init ==
  /\ order \in Orders
  /\ parallel \in BOOLEAN
  /\ failFast \in BOOLEAN
  /\ tarArtifacts \in BOOLEAN
  /\ main = "setup"
  /\ started = 0
  /\ state = [t \in AllTasks |-> "unstarted"]
  /\ outcome = [t \in AllTasks |-> "none"]
  /\ wg = 0
  /\ copy = [t \in AllTasks |-> {}]
  /\ failedTasks = {}
  /\ notified = FALSE
  /\ interrupt = FALSE
  /\ exit = "none"
  /\ archived = {}
  /\ hit = {}

-----------------------------------------------------------------------------
(***************************************************************************)
(* The loop of runAllTasks                                                 *)
(***************************************************************************)

\* Flags, artifacts directory, logger, authentication and tasks are resolved.
Setup ==
  /\ main = "setup"
  /\ main' = "loop"
  /\ UNCHANGED <<planVars, started, taskVars, wg, signalVars, exit, archived>>

SetupFails ==
  /\ main = "setup"
  /\ main' = "exited"
  /\ exit' = "error"
  /\ UNCHANGED <<planVars, started, taskVars, wg, signalVars, archived>>

\* A loop that starts every task with a go statement
StartTaskAlwaysGo ==
  LET t == order[started + 1] IN
  /\ main = "loop" /\ started < Len(order)
  /\ started' = started + 1
  /\ wg' = wg + 1
  /\ state' = [state EXCEPT ![t] = "created"]
  /\ UNCHANGED <<planVars, main, outcome, copy, failedTasks, signalVars, exit, archived>>

\* A task is started in a goroutine, or run by the loop itself.
StartTask ==
  LET t == order[started + 1] IN
  /\ main = "loop" /\ started < Len(order)
  /\ started' = started + 1
  /\ wg' = wg + 1
  /\ IF parallel
     THEN state' = [state EXCEPT ![t] = "created"] /\ UNCHANGED main
     ELSE state' = [state EXCEPT ![t] = "running"] /\ main' = "inline"
  /\ UNCHANGED <<planVars, outcome, copy, failedTasks, signalVars, exit, archived>>

\* A loop that breaks at a failure whatever on-failure says
InlineTaskOverBreaks ==
  /\ main = "inline" /\ state[order[started]] = "finished"
  /\ main' = IF failedTasks # {} THEN "wait" ELSE "loop"
  /\ UNCHANGED <<planVars, started, taskVars, wg, signalVars, exit, archived>>

\* A task run by the loop has returned: fail-fast may break the loop.
InlineTaskOver ==
  /\ main = "inline" /\ state[order[started]] = "finished"
  /\ main' = IF failFast /\ failedTasks # {} THEN "wait" ELSE "loop"
  /\ UNCHANGED <<planVars, started, taskVars, wg, signalVars, exit, archived>>

LoopEnds ==
  /\ main = "loop" /\ started = Len(order)
  /\ main' = "wait"
  /\ UNCHANGED <<planVars, started, taskVars, wg, signalVars, exit, archived>>

\* The end of runTasks without a tar error
Exit == exit' = IF failedTasks # {} THEN "error" ELSE "ok"

\* A loop not followed by wg.Wait
AllTasksOverNoWait ==
  /\ main = "wait"
  /\ IF tarArtifacts
     THEN main' = "tar" /\ UNCHANGED exit
     ELSE main' = "exited" /\ Exit
  /\ UNCHANGED <<planVars, started, taskVars, wg, signalVars, archived>>

\* wg.Wait returns, and runAllTasks.
AllTasksOver ==
  /\ main = "wait" /\ wg = 0
  /\ IF tarArtifacts
     THEN main' = "tar" /\ UNCHANGED exit
     ELSE main' = "exited" /\ Exit
  /\ UNCHANGED <<planVars, started, taskVars, wg, signalVars, archived>>

\* tarArtifactsDir walks the directory as it is.
Tar ==
  /\ main = "tar"
  /\ main' = "exited"
  /\ archived' = {t \in Tasks : state[t] = "finished"}
  /\ Exit
  /\ UNCHANGED <<planVars, started, taskVars, wg, signalVars>>

\* Its error is returned without the names of the failed tasks.
TarFails ==
  /\ main = "tar"
  /\ main' = "exited"
  /\ exit' = "error"
  /\ UNCHANGED <<planVars, started, taskVars, wg, signalVars, archived>>

-----------------------------------------------------------------------------
(***************************************************************************)
(* A task                                                                  *)
(***************************************************************************)
GoroutineStarts(t) ==
  /\ ~Ended /\ state[t] = "created"
  /\ state' = [state EXCEPT ![t] = "running"]
  /\ UNCHANGED <<planVars, main, started, outcome, copy, failedTasks, wg, signalVars,
                 exit, archived>>

Returns(t, result) ==
  /\ outcome' = [outcome EXCEPT ![t] = result]
  /\ state' = [state EXCEPT ![t] = IF result = "ok" THEN "reported" ELSE "ended"]

\* t.Run returns.
TaskEnds(t, result) ==
  /\ ~Ended /\ state[t] = "running"
  /\ Returns(t, result)
  /\ UNCHANGED <<planVars, main, started, copy, failedTasks, wg, signalVars, exit,
                 archived>>

\* An append whose mutex was forgotten
LockAnyway(t) ==
  /\ ~Ended /\ state[t] = "ended"
  /\ state' = [state EXCEPT ![t] = "holding"]
  /\ copy' = [copy EXCEPT ![t] = failedTasks]
  /\ UNCHANGED <<planVars, main, started, outcome, failedTasks, wg, signalVars, exit,
                 archived>>

\* mu.Lock; append reads failedTasks
Lock(t) ==
  /\ ~Ended /\ state[t] = "ended"
  /\ \A u \in Tasks : state[u] # "holding"
  /\ state' = [state EXCEPT ![t] = "holding"]
  /\ copy' = [copy EXCEPT ![t] = failedTasks]
  /\ UNCHANGED <<planVars, main, started, outcome, failedTasks, wg, signalVars, exit,
                 archived>>

\* and writes it back; mu.Unlock
AppendName(t) ==
  /\ ~Ended /\ state[t] = "holding"
  /\ state' = [state EXCEPT ![t] = "reported"]
  /\ failedTasks' = copy[t] \cup {t}
  /\ copy' = [copy EXCEPT ![t] = {}]
  /\ UNCHANGED <<planVars, main, started, outcome, wg, signalVars, exit, archived>>

\* wg.Done that a failed task never reaches
FinishUnlessFailed(t) ==
  /\ ~Ended /\ state[t] = "reported" /\ outcome[t] = "ok"
  /\ state' = [state EXCEPT ![t] = "finished"]
  /\ wg' = wg - 1
  /\ UNCHANGED <<planVars, main, started, outcome, copy, failedTasks, signalVars, exit,
                 archived>>

\* wg.Done both deferred and called
FinishTwice(t) ==
  /\ ~Ended /\ state[t] = "reported"
  /\ state' = [state EXCEPT ![t] = "finished"]
  /\ wg' = wg - 2
  /\ UNCHANGED <<planVars, main, started, outcome, copy, failedTasks, signalVars, exit,
                 archived>>

\* The deferred wg.Done
Finish(t) ==
  /\ ~Ended /\ state[t] = "reported"
  /\ state' = [state EXCEPT ![t] = "finished"]
  /\ wg' = wg - 1
  /\ UNCHANGED <<planVars, main, started, outcome, copy, failedTasks, signalVars, exit,
                 archived>>

-----------------------------------------------------------------------------
(***************************************************************************)
(* Ctrl+C                                                                  *)
(***************************************************************************)

\* A periodic collection calls signal.Notify: the process survives Ctrl+C from
\* now on, the collection over or not.
Subscribe ==
  /\ ~Ended /\ Prometheus \in Tasks /\ state[Prometheus] = "running"
  /\ ~notified
  /\ notified' = TRUE
  /\ UNCHANGED <<planVars, main, started, taskVars, wg, interrupt, hit, exit, archived>>

\* The collection takes the signal and returns.
Interrupted(result) ==
  /\ notified /\ interrupt
  /\ ~Ended /\ Prometheus \in Tasks /\ state[Prometheus] = "running"
  /\ interrupt' = FALSE
  /\ Returns(Prometheus, result)
  /\ UNCHANGED <<planVars, main, started, copy, failedTasks, wg, notified, hit, exit,
                 archived>>

\* A signal the process survives waits for a collection, or for nobody; one
\* that finds another waiting is dropped.
Sigint ==
  /\ ~Ended
  /\ IF notified
     THEN /\ interrupt' = TRUE
          /\ hit' = hit \cup {t \in Tasks : state[t] = "running"}
          /\ UNCHANGED main
     ELSE main' = "killed" /\ UNCHANGED <<interrupt, hit>>
  /\ UNCHANGED <<planVars, started, taskVars, wg, notified, exit, archived>>

Terminated == Ended /\ UNCHANGED vars

-----------------------------------------------------------------------------
MainStep ==
  \/ Setup
  \/ SetupFails
  \/ StartTask
  \/ InlineTaskOver
  \/ LoopEnds
  \/ AllTasksOver
  \/ Tar
  \/ TarFails

TaskStep(t) ==
  \/ GoroutineStarts(t)
  \/ \E result \in {"ok", "failed"} : TaskEnds(t, result)
  \/ Lock(t)
  \/ AppendName(t)
  \/ Finish(t)

Next ==
  \/ MainStep
  \/ \E t \in Tasks : TaskStep(t)
  \/ Subscribe
  \/ \E result \in {"ok", "failed"} : Interrupted(result)
  \/ Sigint
  \/ Terminated

(***************************************************************************)
(* Goroutines are scheduled, every task ends at one of its timeouts, and   *)
(* the mutex is handed over.  Nothing obliges a user to press Ctrl+C.      *)
(***************************************************************************)
Fairness ==
  /\ WF_vars(MainStep)
  /\ \A t \in AllTasks : WF_vars(t \in Tasks /\ TaskStep(t))

Spec == Init /\ [][Next]_vars /\ Fairness

-----------------------------------------------------------------------------
(***************************************************************************)
(* Properties                                                              *)
(***************************************************************************)
AllStarted == started = Len(order)

\* The run's verdict is exact: when it leaves the tasks behind, failedTasks
\* names the tasks whose Run failed, no failure lost to another task's append,
\* and the exit code is 0 only if there is none.
VerdictExact ==
  main \in {"tar", "exited"} =>
    /\ failedTasks = {t \in Tasks : outcome[t] = "failed"}
    /\ exit = "ok" => failedTasks = {} /\ AllStarted

\* A task is left out only by fail-fast, in sequence, right after a failure;
\* with on-failure: continue one task's failure never costs another its run.
OnlyFailFastSkips ==
  main \in {"wait", "tar"} /\ ~AllStarted =>
    /\ failFast /\ ~parallel
    /\ outcome[order[started]] = "failed"
    /\ \A i \in 1 .. started - 1 : outcome[order[i]] = "ok"

\* In sequential mode no task overlaps another (a reboot of the nodes, say, a
\* latency test), and each starts after all those before it in the order.
NoOverlap ==
  ~parallel => \A i, j \in 1 .. Len(order) :
    i < j /\ state[order[j]] # "unstarted" => state[order[i]] = "finished"

\* The archive is made when no task writes any more: it has the artifacts of
\* every task that was started.
ArchiveComplete ==
  main \in {"tar", "exited"} => \A t \in Tasks : ~Active(t)

\* The run ends, whatever failed and whoever pressed Ctrl+C.
RunEnds == <>Ended

\* The comment on app-recovery-time: Ctrl+C still fails it.
CtrlCFailsRecovery == Recovery \in hit => outcome[Recovery] # "ok"

==============================================================================
