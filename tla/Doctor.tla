-------------------------------- MODULE Doctor --------------------------------
(***************************************************************************)
(* The doctor command (commands/doctor.go): it looks at the flags and      *)
(* files the run command would be given and tells what is wrong with them, *)
(* by code of its own beside that of module RunSetup.  It has flags of its *)
(* own, asks the cluster nothing and changes nothing, so it is a set of    *)
(* failed checks, computed before the run it is about starts.  Its         *)
(* warnings, which fail nothing, are left out, and so are the cluster's    *)
(* type and whether the files named exist: here they do.                   *)
(***************************************************************************)
EXTENDS RunSetup

\* doctorFlags: the settings of the files are not merged into them.
DoctorFlags == FromCommandLine(input.cli)

\* appendAuthChecks; a token comes with its URL.
AuthFailed == input.token /\ input.kubeconfig

\* appendSamplingChecks
SamplingFailed ==
  ~DoctorFlags.once /\ (DoctorFlags.frequency <= 0 \/ DoctorFlags.duration <= 0)

\* appendTasksSpecChecks, as far as the load
TasksSpecFailed == input.tasksFile /\ ~ValidTasksSpec(Decoded)

\* appendConfigChecks: the KPIs it reads, if it reads any
DoctorKpis ==
  IF ~TasksSpecFailed /\ "prometheus" \in Present THEN input.kpis ELSE <<>>

\* A check of the frequency flag only
GapsOfDefault(kpi) == DoctorFlags.frequency > kpi.range.since.value

\* appendFrequencyWarnings, its failing half
Gaps(kpi) ==
  EffectiveFrequency(kpi, DoctorFlags.frequency) > kpi.range.since.value

LooksBackFrom(kpi) ==
  /\ EffectiveQueryType(kpi) = "range"
  /\ kpi.range # Absent /\ kpi.range.since # Absent /\ kpi.range.since.isDuration

\* appendKPIValidation, appendKPIWarnings; the doctor is run at time 0.
KpisFailed ==
  \/ ~ValidKpis(DoctorKpis, 0)
  \/ HasPlaceholders(DoctorKpis) /\ ~input.kubeconfig
  \/ ~DoctorFlags.once
     /\ \E i \in DOMAIN DoctorKpis : LooksBackFrom(DoctorKpis[i]) /\ Gaps(DoctorKpis[i])

\* appendDatabaseChecks; the environment counts here, not for the run command.
DatabaseFailed ==
  CASE DoctorFlags.database = "sqlite"   -> FALSE
    [] DoctorFlags.database = "postgres" -> ~DoctorFlags.url /\ ~input.envUrl
    [] OTHER                             -> TRUE

\* runDoctor, printReport
DoctorFails ==
  AuthFailed \/ SamplingFailed \/ TasksSpecFailed \/ KpisFailed \/ DatabaseFailed

-----------------------------------------------------------------------------
(***************************************************************************)
(* Properties                                                              *)
(***************************************************************************)

\* What the run command refuses next of its own accord
Refuses ==
  \/ pc = "load" /\ ~ValidTasksSpec(spec)
  \/ pc = "settings" /\ ~ValidSettings(Merged)
  \/ pc = "kpis" /\ ~ValidKpis(LoadedKpis, now)
  \/ pc = "substitute" /\ HasPlaceholders(LoadedKpis) /\ ~input.kubeconfig
  \/ pc = "substitute" /\ ~flags.once
       /\ \E i \in DOMAIN LoadedKpis : ~FrequencyFits(LoadedKpis[i], flags.frequency)
  \/ pc = "build" /\ ~Buildable

\* The doctor does not look at the settings the files give, at what tasks other
\* than prometheus need, at a KPI file that is empty, or at the exclusions that
\* cobra checks; it takes a PostgreSQL URL from the environment, which the run
\* command does not; and a window from a moving to a fixed time, or the reverse,
\* changes its validity with time.
InDoctorsReach ==
  /\ ValidFlags
  /\ Present # {"prometheus"} => input.kubeconfig
  /\ \A name \in {"frequency", "duration", "database", "once"} : input.file[name] = Absent
  /\ ~input.file.url /\ ~(input.envUrl /\ ~input.cli.url)
  /\ input.tasksFile => input.kpis # <<>>
  /\ \A i \in DOMAIN input.kpis :
       LET range == input.kpis[i].range
       IN range # Absent /\ range.since # Absent /\ range.until # Absent
          => range.since.isDuration = range.until.isDuration

\* Where the doctor can know, it and the run command agree: what passes its
\* checks is refused by none of the run's, however long the setup takes; and what
\* the run command starts with had no failed check.
DoctorForetells ==
  InDoctorsReach =>
    /\ ~DoctorFails => ~Refuses
    /\ pc \in {"tasks", "once", "collect", "done"} => ~DoctorFails
===============================================================================
