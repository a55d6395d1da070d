----------------------------- MODULE TaskSections -----------------------------
(***************************************************************************)
(* The sections of a tasks file other than prometheus: each gives its      *)
(* fields inline or names a file that does, and is replaced by what the    *)
(* file gives (package config, *_task_config.go); and the CPU sets of the  *)
(* PerformanceProfiles that fill in a CPU list left out                    *)
(* (kubernetes/performanceprofile.go).                                     *)
(***************************************************************************)
EXTENDS KpiFile

OtherTasks == {"per-node-data", "oslat", "app-recovery-time"}

(***************************************************************************)
(* The fields of all sections: duration is oslat's timeout, isolcpus a CPU *)
(* list, pod "complete" when it has a name and containers with images, the *)
(* others are lists and texts, given or not.  A file may have no usable    *)
(* root key (it cannot be read or decoded either), or name another file.   *)
(***************************************************************************)
Fields ==
  [namespaces : BOOLEAN, nodes : BOOLEAN, interval : Int, duration : Int,
   image : BOOLEAN, isolcpus : Seq(Nat), pod : {Absent, "incomplete", "complete"}]

NoFields ==
  [namespaces |-> FALSE, nodes |-> FALSE, interval |-> 0, duration |-> 0,
   image |-> FALSE, isolcpus |-> <<>>, pod |-> Absent]

SectionFile == [rootKey : BOOLEAN, nested : BOOLEAN, fields : Fields]

Section == [configFile : SectionFile \cup {Absent}, fields : Fields]

\* validateConfigFileXorInline, hasInlineFields
OneSource(section) == (section.configFile # Absent) # (section.fields # NoFields)

\* loadOslatConfigFile and its likes
Loadable(file) == file.rootKey /\ ~file.nested

\* A resolution that keeps the name of the file
ResolvedInPlace(section) ==
  IF section.configFile = Absent THEN section
  ELSE [section EXCEPT !.fields = section.configFile.fields]

\* The section resolveAndValidate... leaves in the spec
Resolved(section) ==
  IF section.configFile = Absent THEN section
  ELSE [configFile |-> Absent, fields |-> section.configFile.fields]

\* validatePollConfig
ValidPoll(f) ==
  f.namespaces /\ f.duration > 0 /\ f.interval > 0 /\ f.interval < f.duration

\* validateOslatInline
ValidOslat(f) == f.duration > 0 /\ f.pod = "complete"

\* validatePerNodeDataInline
ValidPerNodeData(f) == ValidPoll(f) /\ f.image

\* validateAppRecoveryTimeInline
ValidAppRecoveryTime(f) == ValidPoll(f) /\ f.nodes /\ f.image

ValidFields(name, f) ==
  CASE name = "oslat"             -> ValidOslat(f)
    [] name = "per-node-data"     -> ValidPerNodeData(f)
    [] name = "app-recovery-time" -> ValidAppRecoveryTime(f)

\* resolveAndValidateOslat, resolveAndValidatePerNodeData, resolveAndValidateAppRecoveryTime
ValidSection(name, section) ==
  /\ OneSource(section)
  /\ section.configFile # Absent => Loadable(section.configFile)
  /\ ValidFields(name, Resolved(section).fields)

-----------------------------------------------------------------------------
(***************************************************************************)
(* A CPU set such as "0-3,8" is the sequence of its parts: [first, last],  *)
(* or Absent for one that is no number and no range.                       *)
(***************************************************************************)

CpuSet == Seq([first : Nat, last : Nat] \cup {Absent})

Profile == [reserved : CpuSet, isolated : CpuSet]

\* parseCPURange, its errors and its result
ParsesCPURange(parts) ==
  \A i \in DOMAIN parts : parts[i] # Absent /\ parts[i].first <= parts[i].last

ParseCPURange(parts) == UNION {parts[i].first .. parts[i].last : i \in DOMAIN parts}

\* cpuIDsToPrometheusRegex: each CPU once, in order
CpuIDs(cpuSet) ==
  CHOOSE ids \in [1 .. Cardinality(cpuSet) -> cpuSet] :
    \A i, j \in DOMAIN ids : i < j => ids[i] < ids[j]

\* FetchCPUsFromPerformanceProfiles: one profile at least, each well formed
Aggregable(profiles) ==
  /\ profiles # <<>>
  /\ \A i \in DOMAIN profiles :
       ParsesCPURange(profiles[i].reserved) /\ ParsesCPURange(profiles[i].isolated)

AggregateCPUs(profiles) ==
  [reserved |-> CpuIDs(UNION {ParseCPURange(profiles[i].reserved) : i \in DOMAIN profiles}),
   isolated |-> CpuIDs(UNION {ParseCPURange(profiles[i].isolated) : i \in DOMAIN profiles})]
===============================================================================
