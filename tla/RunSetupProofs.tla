---------------------------- MODULE RunSetupProofs ----------------------------
(***************************************************************************)
(* Proofs about RunSetup and Doctor, for every command line, file, cluster *)
(* and setting, however long the setup takes.                              *)
(***************************************************************************)
EXTENDS Doctor, FiniteSetTheorems, TLAPS

\* The settings that the token's lifetime depends on, and those that are left
\* when everything has been merged
AuthFlags ==
  IF input.tasksFile THEN WithTasksFile(FromCommandLine(input.cli), input.file)
  ELSE FromCommandLine(input.cli)

FinalFlags ==
  IF input.tasksFile THEN WithTasksFile(AuthFlags, input.file)
  ELSE WithKpiFile(AuthFlags, input.file, input.cli)

FinalKpis == Substituted(input.kpis)

FinalJob == [flags |-> FinalFlags, kpis |-> FinalKpis, token |-> token]

Running  == pc \in {"tasks", "once", "collect", "done"}
Prepared == Running \/ pc \in {"isolcpus", "build"}
Settled  == Prepared \/ pc \in {"kpis", "prompt", "substitute"}

\* What TypeOK leaves open
Specs == [configFile : BOOLEAN, kpis : Seq(Kpi), sections : [OtherTasks -> Optional(Section)]]

InputOK ==
  /\ input \in Inputs
  /\ spec \in Specs
  /\ tasks \in Seq(TaskNames)

\* What a step of runTasks has let through stays true.
ChecksOK ==
  /\ pc \notin {"flags", "failed"} => ValidFlags
  /\ pc = "load" => input.tasksFile
  /\ pc \notin {"flags", "load", "failed"} /\ input.tasksFile => ValidTasksSpec(Decoded)
  /\ Settled => ValidSettings(FinalFlags)
  /\ pc \in {"kpis", "prompt", "substitute"} => "prometheus" \in Present

KpisOK ==
  "prometheus" \in Present =>
    /\ Prepared \/ pc \in {"prompt", "substitute"} => \E t \in 0 .. now : ValidKpis(input.kpis, t)
    /\ Prepared => /\ HasPlaceholders(input.kpis) => input.kubeconfig
                   /\ FinalFlags.once \/ \A i \in DOMAIN input.kpis :
                                           FrequencyFits(input.kpis[i], FinalFlags.frequency)

\* How far the settings are merged, and what the token was made for
FlagsOK ==
  /\ pc \in {"flags", "load"} => flags = FromCommandLine(input.cli)
  /\ pc \in {"auth", "settings"} => flags = AuthFlags
  /\ Settled => flags = FinalFlags
  /\ (pc = "settings" \/ Settled) /\ input.kubeconfig => token # Absent
  /\ token # Absent => token.expires = token.made + TokenLifetime(AuthFlags)

\* What has become of the tasks file
SectionsDone ==
  \A name \in Present \ {"prometheus"} :
    /\ spec.sections[name] \in Section /\ spec.sections[name].configFile = Absent
    /\ ValidFields(name, spec.sections[name].fields)

SpecOK ==
  /\ pc \notin {"failed"} /\ ~Settled => spec = Decoded
  /\ Settled => SectionsDone
  /\ pc \in {"kpis", "prompt", "substitute"} => LoadedKpis = input.kpis
  /\ Prepared /\ "prometheus" \in Present => ~spec.configFile /\ spec.kpis = FinalKpis
  /\ (Running \/ pc = "build") /\ "per-node-data" \in Present => PerNodeData.isolcpus # <<>>

\* The tasks of an order, and an order that has each once
Elements(s) == {s[i] : i \in DOMAIN s}
Distinct(s) == \A i, j \in DOMAIN s : s[i] = s[j] => i = j

\* Nothing of the tasks is there before they are built, and then they are those of
\* the file, the prometheus one with the settings and KPIs that were checked.
TasksOK ==
  /\ ~Running => job = Absent /\ tasks = <<>> /\ pos = 0
  /\ Running =>
       /\ "prometheus" \in Present => job = FinalJob
       /\ "prometheus" \notin Present => job = Absent
       /\ Elements(tasks) = Present /\ Distinct(tasks)
       /\ Present # {"prometheus"} => input.kubeconfig
  /\ pc \in {"once", "collect"} => pos < Len(tasks) /\ tasks[pos + 1] = "prometheus"

\* The queries so far: none before the prometheus task, none that repeats before its
\* timer, each with its window
AskedOK ==
  /\ ~Running \/ (pc = "tasks" /\ \E k \in pos + 1 .. Len(tasks) : tasks[k] = "prometheus") =>
       timerAt = Absent /\ \A i \in DOMAIN asked : asked[i] = Absent
  /\ pc = "once" => timerAt = Absent /\ \A i \in Repeating : asked[i] = Absent
  /\ timerAt # Absent => "prometheus" \in Present
  /\ \A i \in DOMAIN asked :
       asked[i] # Absent =>
         /\ asked[i].at <= now
         /\ input.kpis[i].range # Absent =>
              asked[i].window = Window(input.kpis[i].range, asked[i].at)

\* The tick that a group answers when it is through with the one it is at
Coming(g) == IF g.tick = Absent THEN g.next ELSE g.tick

\* However late a group is, its ticker fires within a period, and the tick that a KPI
\* is asked for next comes no later than a period after its last query.
OnTrack(g, f, i, last, time) ==
  /\ time < g.next /\ g.next <= time + f
  /\ g.tick # Absent => g.tick <= time
  /\ i \in g.left => (last # Absent => g.due <= last.at + f)
  /\ i \notin g.left => last # Absent /\ Coming(g) <= last.at + f

GroupsTyped ==
  /\ DOMAIN groups \subseteq Nat \ {0}
  /\ \A f \in DOMAIN groups : groups[f] \in Group

GroupsOK ==
  /\ GroupsTyped
  /\ pc # "collect" => groups = <<>>
  /\ pc = "collect" =>
       /\ DOMAIN groups = Frequencies
       /\ \A i \in Repeating :
            OnTrack(groups[Frequency(i)], Frequency(i), i, asked[i], now)

SetupInv ==
  /\ TypeOK /\ InputOK /\ ChecksOK /\ KpisOK /\ FlagsOK /\ SpecOK /\ TasksOK /\ AskedOK
  /\ GroupsOK /\ WindowsForward

-----------------------------------------------------------------------------
(***************************************************************************)
(* The CPU sets.                                                           *)
(***************************************************************************)

\* A finite set of CPUs has a list of them in order, which is the one chosen: the
\* rank of a CPU, how many of the set are not above it, is its place.
LEMMA CpuIDsInOrder ==
  ASSUME NEW S \in SUBSET Nat, IsFiniteSet(S)
  PROVE  /\ CpuIDs(S) \in [1 .. Cardinality(S) -> S]
         /\ \A i, j \in 1 .. Cardinality(S) : i < j => CpuIDs(S)[i] < CpuIDs(S)[j]
<1> DEFINE n == Cardinality(S)
           upTo(x) == {y \in S : y <= x}
           rank == [x \in S |-> Cardinality(upTo(x))]
           ids == [k \in 1 .. n |-> CHOOSE x \in S : rank[x] = k]
<1>1. n \in Nat
  BY FS_CardinalityType
<1>2. \A x \in S : /\ IsFiniteSet(upTo(x)) /\ upTo(x) # {}
                   /\ Cardinality(upTo(x)) \in Nat /\ Cardinality(upTo(x)) <= n
  <2> TAKE x \in S
  <2>1. upTo(x) \in SUBSET S /\ x \in upTo(x)
    OBVIOUS
  <2> HIDE DEF upTo
  <2>2. QED
    BY <2>1, FS_Subset, FS_CardinalityType
<1>3. rank \in [S -> 1 .. n]
  <2>1. \A x \in S : Cardinality(upTo(x)) # 0
    <3> HIDE DEF upTo
    <3>1. QED
      BY <1>2, FS_EmptySet
  <2> HIDE DEF upTo
  <2>2. QED
    BY <1>1, <1>2, <2>1
<1>4. ASSUME NEW x \in S, NEW y \in S, x < y
      PROVE  rank[x] < rank[y]
  <2>1. upTo(x) \in SUBSET upTo(y) /\ y \in upTo(y) /\ y \notin upTo(x)
    <3>1. x \in Nat /\ y \in Nat /\ \A z \in S : z \in Nat
      OBVIOUS
    <3>2. \A z \in S : z <= x => z <= y
      BY <1>4, <3>1
    <3>3. y <= y /\ ~(y <= x)
      BY <1>4, <3>1
    <3>4. QED
      BY <3>2, <3>3
  <2> HIDE DEF upTo
  <2>2. upTo(x) # upTo(y) /\ IsFiniteSet(upTo(y))
    BY <1>2, <2>1
  <2>3. /\ Cardinality(upTo(x)) <= Cardinality(upTo(y))
        /\ Cardinality(upTo(x)) # Cardinality(upTo(y))
    BY <2>1, <2>2, FS_Subset
  <2>4. rank[x] = Cardinality(upTo(x)) /\ rank[y] = Cardinality(upTo(y))
    OBVIOUS
  <2>5. QED
    BY <1>2, <2>3, <2>4
<1> HIDE DEF rank
<1>5. ASSUME NEW x \in S, NEW y \in S, rank[x] = rank[y]
      PROVE  x = y
  <2>1. x \in Nat /\ y \in Nat /\ rank[x] \in Nat /\ rank[y] \in Nat
    BY <1>3
  <2>2. ~(x < y) /\ ~(y < x)
    BY <1>4, <1>5, <2>1
  <2>3. QED
    BY <2>1, <2>2
<1>6. rank \in Injection(S, 1 .. n)
  BY <1>3, <1>5 DEF Injection, IsInjective
<1>7. rank \in Surjection(S, 1 .. n)
  <2>1. IsFiniteSet(1 .. n) /\ Cardinality(1 .. n) = n
    BY <1>1, FS_Interval
  <2>2. QED
    BY <1>6, <2>1, FS_Injection
<1>8. \A k \in 1 .. n : \E x \in S : rank[x] = k
  BY <1>7 DEF Surjection
<1>9. ids \in [1 .. n -> S] /\ \A k \in 1 .. n : rank[ids[k]] = k
  BY <1>8
<1> HIDE DEF ids
<1>10. ASSUME NEW i \in 1 .. n, NEW j \in 1 .. n, i < j
       PROVE  ids[i] < ids[j]
  <2>1. ids[i] \in S /\ ids[j] \in S /\ rank[ids[i]] = i /\ rank[ids[j]] = j
    BY <1>9
  <2>2. ids[i] \in Nat /\ ids[j] \in Nat /\ i \in Nat /\ j \in Nat
    <3>1. ids[i] \in Nat /\ ids[j] \in Nat
      BY <2>1
    <3>2. i \in Nat /\ j \in Nat
      BY <1>1
    <3>3. QED
      BY <3>1, <3>2
  <2>3. ~(ids[j] < ids[i])
    <3> SUFFICES ASSUME ids[j] < ids[i]
                 PROVE  FALSE
      OBVIOUS
    <3>1. rank[ids[j]] < rank[ids[i]]
      BY <1>4, <2>1
    <3>2. QED
      BY <1>10, <2>1, <2>2, <3>1
  <2>4. ids[j] # ids[i]
    BY <1>10, <2>1, <2>2
  <2> DEFINE a == ids[i]
             b == ids[j]
  <2>5. a \in Nat /\ b \in Nat /\ ~(b < a) /\ b # a
    BY <2>2, <2>3, <2>4
  <2> HIDE DEF a, b
  <2>6. a < b
    BY <2>5
  <2>7. QED
    BY <2>6 DEF a, b
<1>11. \E l \in [1 .. n -> S] : \A i, j \in DOMAIN l : i < j => l[i] < l[j]
  BY <1>9, <1>10
<1>12. QED
  BY <1>11 DEF CpuIDs

LEMMA CpuSetsTyped ==
  ASSUME NEW profiles \in Clusters, Aggregable(profiles)
  PROVE  AggregateCPUs(profiles) \in [reserved : Seq(Nat), isolated : Seq(Nat)]
<1> DEFINE Parts == [first : Nat, last : Nat]
           Several(f) == UNION {f[i] : i \in DOMAIN f}
<1>1. ASSUME NEW s, NEW n \in Nat, NEW f \in [1 .. n -> SUBSET Nat], s = Several(f),
             \A i \in 1 .. n : IsFiniteSet(f[i])
      PROVE  s \in SUBSET Nat /\ IsFiniteSet(s)
  <2> DEFINE images == {f[i] : i \in DOMAIN f}
  <2>1. f \in Surjection(1 .. n, images)
    BY DEF Surjection
  <2>2. IsFiniteSet(1 .. n)
    BY FS_Interval
  <2>3. IsFiniteSet(images)
    BY <2>1, <2>2, FS_Surjection
  <2>4. \A t \in images : IsFiniteSet(t)
    BY <1>1
  <2>5. IsFiniteSet(UNION images)
    <3> HIDE DEF images
    <3>1. QED
      BY <2>3, <2>4, FS_UNION
  <2>6. QED
    BY <1>1, <2>5
<1>2. ASSUME NEW parts \in CpuSet, ParsesCPURange(parts)
      PROVE  ParseCPURange(parts) \in SUBSET Nat /\ IsFiniteSet(ParseCPURange(parts))
  <2> DEFINE f == [i \in DOMAIN parts |-> parts[i].first .. parts[i].last]
  <2>1. \A i \in DOMAIN parts : parts[i] \in Parts
    BY <1>2 DEF CpuSet, ParsesCPURange
  <2>2. DOMAIN parts = 1 .. Len(parts) /\ Len(parts) \in Nat
    BY DEF CpuSet
  <2>3. \A i \in DOMAIN parts : /\ parts[i].first .. parts[i].last \in SUBSET Nat
                                 /\ IsFiniteSet(parts[i].first .. parts[i].last)
    <3> TAKE i \in DOMAIN parts
    <3>1. parts[i].first \in Nat /\ parts[i].last \in Nat
      BY <2>1
    <3>2. parts[i].first .. parts[i].last \in SUBSET Nat
      BY <3>1
    <3>3. IsFiniteSet(parts[i].first .. parts[i].last)
      BY <3>1, FS_Interval
    <3>4. QED
      BY <3>2, <3>3
  <2>4. ParseCPURange(parts) = Several(f)
    BY DEF ParseCPURange
  <2>5. f \in [1 .. Len(parts) -> SUBSET Nat] /\ \A i \in 1 .. Len(parts) : IsFiniteSet(f[i])
    BY <2>2, <2>3
  <2> HIDE DEF f, Several
  <2>6. QED
    BY <1>1, <2>2, <2>4, <2>5
<1>3. /\ DOMAIN profiles = 1 .. Len(profiles) /\ Len(profiles) \in Nat
      /\ \A i \in DOMAIN profiles : profiles[i].reserved \in CpuSet /\ profiles[i].isolated \in CpuSet
  <2>1. profiles \in Seq(Profile)
    BY ClustersAssumption
  <2>2. \A i \in DOMAIN profiles : profiles[i] \in Profile
    BY <2>1
  <2>3. QED
    BY <2>1, <2>2 DEF Profile
<1>4. \A ids : ids \in SUBSET Nat /\ IsFiniteSet(ids) => CpuIDs(ids) \in Seq(Nat)
  <2> SUFFICES ASSUME NEW ids \in SUBSET Nat, IsFiniteSet(ids)
               PROVE  CpuIDs(ids) \in Seq(Nat)
    OBVIOUS
  <2>1. CpuIDs(ids) \in [1 .. Cardinality(ids) -> Nat] /\ Cardinality(ids) \in Nat
    BY CpuIDsInOrder, FS_CardinalityType
  <2>2. QED
    BY <2>1
<1> DEFINE reserved == [i \in DOMAIN profiles |-> ParseCPURange(profiles[i].reserved)]
           isolated == [i \in DOMAIN profiles |-> ParseCPURange(profiles[i].isolated)]
<1>5. Several(reserved) \in SUBSET Nat /\ IsFiniteSet(Several(reserved))
  <2>1. /\ reserved \in [1 .. Len(profiles) -> SUBSET Nat]
        /\ \A i \in 1 .. Len(profiles) : IsFiniteSet(reserved[i])
    BY <1>2, <1>3 DEF Aggregable
  <2> HIDE DEF reserved, Several
  <2>2. QED
    BY <1>1, <1>3, <2>1
<1>6. Several(isolated) \in SUBSET Nat /\ IsFiniteSet(Several(isolated))
  <2>1. /\ isolated \in [1 .. Len(profiles) -> SUBSET Nat]
        /\ \A i \in 1 .. Len(profiles) : IsFiniteSet(isolated[i])
    BY <1>2, <1>3 DEF Aggregable
  <2> HIDE DEF isolated, Several
  <2>2. QED
    BY <1>1, <1>3, <2>1
<1>7. AggregateCPUs(profiles)
        = [reserved |-> CpuIDs(Several(reserved)), isolated |-> CpuIDs(Several(isolated))]
  BY DEF AggregateCPUs
<1> HIDE DEF reserved, isolated, Several
<1>8. QED
  BY <1>4, <1>5, <1>6, <1>7

-----------------------------------------------------------------------------
(***************************************************************************)
(* The settings, merged step by step.                                      *)
(***************************************************************************)
LEMMA GivenTyped == \A x, S, y : x \in S \cup {Absent} /\ y \in S => Given(x, y) \in S
BY DEF Given

LEMMA InputTyped ==
  ASSUME input \in Inputs
  PROVE  /\ input.cli \in GivenSettings /\ input.file \in GivenSettings
         /\ input.tasksFile => input.file.database = Absent /\ ~input.file.url
         /\ ~input.tasksFile => input.configFile
         /\ input.tasksFile \in BOOLEAN /\ input.kubeconfig \in BOOLEAN
         /\ input.token \in BOOLEAN /\ input.yes \in BOOLEAN /\ input.envUrl \in BOOLEAN
         /\ input.configFile \in BOOLEAN /\ input.prometheus \in BOOLEAN
         /\ input.policy \in BOOLEAN
         /\ input.sections \in [OtherTasks -> Optional(Section)]
         /\ input.order \in Seq(STRING) /\ input.kpis \in Seq(Kpi)
BY InputAssumption

LEMMA DefaultFlags ==
  ASSUME input \in Inputs
  PROVE  LET f == FromCommandLine(input.cli)
         IN /\ f \in Settings
            /\ f.frequency = Given(input.cli.frequency, DefaultFrequency)
            /\ f.duration = Given(input.cli.duration, DefaultDuration)
            /\ f.database = Given(input.cli.database, "sqlite")
            /\ f.url = input.cli.url
            /\ f.once = Given(input.cli.once, FALSE)
<1>1. input.cli \in GivenSettings
  BY InputTyped
<1>2. /\ input.cli.frequency \in Int \cup {Absent} /\ input.cli.duration \in Int \cup {Absent}
      /\ input.cli.database \in Databases \cup {Absent}
      /\ input.cli.url \in BOOLEAN /\ input.cli.once \in BOOLEAN \cup {Absent}
  BY <1>1 DEF GivenSettings, Optional
<1>3. DefaultFrequency \in Int /\ DefaultDuration \in Int
  BY SettingsAssumption
<1>4. /\ Given(input.cli.frequency, DefaultFrequency) \in Int
      /\ Given(input.cli.duration, DefaultDuration) \in Int
      /\ Given(input.cli.database, "sqlite") \in Databases
      /\ Given(input.cli.once, FALSE) \in BOOLEAN
  <2>1. Given(input.cli.frequency, DefaultFrequency) \in Int
    BY <1>2, <1>3, GivenTyped
  <2>2. Given(input.cli.duration, DefaultDuration) \in Int
    BY <1>2, <1>3, GivenTyped
  <2>3. Given(input.cli.database, "sqlite") \in Databases
    BY <1>2 DEF Databases, Given
  <2>4. Given(input.cli.once, FALSE) \in BOOLEAN
    <3>1. CASE input.cli.once = Absent
      BY <3>1 DEF Given
    <3>2. CASE input.cli.once # Absent
      BY <1>2, <3>2 DEF Given
    <3>3. QED
      BY <3>1, <3>2
  <2>5. QED
    BY <2>1, <2>2, <2>3, <2>4
<1>5. QED
  BY <1>2, <1>4 DEF FromCommandLine, Settings

\* What each merge makes of each setting
LEMMA MergeTasksFile ==
  ASSUME NEW f \in Settings, NEW file \in GivenSettings
  PROVE  LET g == WithTasksFile(f, file)
         IN /\ g \in Settings /\ g.database = f.database /\ g.url = f.url
            /\ "prometheus" \notin Present => g = f
            /\ "prometheus" \in Present =>
                 /\ g.frequency = Given(file.frequency, f.frequency)
                 /\ g.duration = Given(file.duration, f.duration)
                 /\ g.once = Given(file.once, f.once)
<1>1. /\ f.frequency \in Int /\ f.duration \in Int /\ f.database \in Databases
      /\ f.url \in BOOLEAN /\ f.once \in BOOLEAN
  BY DEF Settings
<1>2. /\ Given(file.frequency, f.frequency) \in Int
      /\ Given(file.duration, f.duration) \in Int
      /\ Given(file.once, f.once) \in BOOLEAN
  BY <1>1 DEF GivenSettings, Optional, Given
<1>3. CASE "prometheus" \in Present
  <2>1. WithTasksFile(f, file) =
          [frequency |-> Given(file.frequency, f.frequency),
           duration |-> Given(file.duration, f.duration),
           database |-> f.database, url |-> f.url, once |-> Given(file.once, f.once)]
    BY <1>3 DEF WithTasksFile, Settings
  <2>2. QED
    BY <1>1, <1>2, <1>3, <2>1 DEF Settings
<1>4. CASE "prometheus" \notin Present
  BY <1>4 DEF WithTasksFile
<1>5. QED
  BY <1>3, <1>4

LEMMA MergeKpiFile ==
  ASSUME NEW f \in Settings, NEW file \in GivenSettings, NEW cli \in GivenSettings
  PROVE  LET g == WithKpiFile(f, file, cli)
         IN /\ g \in Settings
            /\ g.frequency = Given(cli.frequency, Given(file.frequency, f.frequency))
            /\ g.duration = Given(cli.duration, Given(file.duration, f.duration))
            /\ g.database = Given(cli.database, Given(file.database, f.database))
            /\ g.url = (f.url \/ file.url)
            /\ g.once = Given(cli.once, Given(file.once, f.once))
<1>1. /\ f.frequency \in Int /\ f.duration \in Int /\ f.database \in Databases
      /\ f.url \in BOOLEAN /\ f.once \in BOOLEAN
  BY DEF Settings
<1>2. /\ Given(file.frequency, f.frequency) \in Int
      /\ Given(file.duration, f.duration) \in Int
      /\ Given(file.database, f.database) \in Databases
      /\ Given(file.once, f.once) \in BOOLEAN
  BY <1>1 DEF GivenSettings, Optional, Given
<1>3. /\ Given(cli.frequency, Given(file.frequency, f.frequency)) \in Int
      /\ Given(cli.duration, Given(file.duration, f.duration)) \in Int
      /\ Given(cli.database, Given(file.database, f.database)) \in Databases
      /\ Given(cli.once, Given(file.once, f.once)) \in BOOLEAN
  <2>1. /\ cli.frequency \in Int \cup {Absent} /\ cli.duration \in Int \cup {Absent}
        /\ cli.database \in Databases \cup {Absent} /\ cli.once \in BOOLEAN \cup {Absent}
    BY DEF GivenSettings, Optional
  <2>2. QED
    BY <1>2, <2>1, GivenTyped
<1>4. WithKpiFile(f, file, cli) =
        [frequency |-> Given(cli.frequency, Given(file.frequency, f.frequency)),
         duration |-> Given(cli.duration, Given(file.duration, f.duration)),
         database |-> Given(cli.database, Given(file.database, f.database)),
         url |-> f.url \/ file.url,
         once |-> Given(cli.once, Given(file.once, f.once))]
  <2> DEFINE either == f.url \/ file.url
  <2>1. f = [frequency |-> f.frequency, duration |-> f.duration, database |-> f.database,
             url |-> f.url, once |-> f.once]
    BY DEF Settings
  <2>2. WithKpiFile(f, file, cli) =
          [f EXCEPT !.frequency = Given(cli.frequency, Given(file.frequency, f.frequency)),
                    !.duration = Given(cli.duration, Given(file.duration, f.duration)),
                    !.database = Given(cli.database, Given(file.database, f.database)),
                    !.url = either,
                    !.once = Given(cli.once, Given(file.once, f.once))]
    BY DEF WithKpiFile
  <2> HIDE DEF either
  <2>3. WithKpiFile(f, file, cli) =
          [frequency |-> Given(cli.frequency, Given(file.frequency, f.frequency)),
           duration |-> Given(cli.duration, Given(file.duration, f.duration)),
           database |-> Given(cli.database, Given(file.database, f.database)),
           url |-> either,
           once |-> Given(cli.once, Given(file.once, f.once))]
    BY <2>1, <2>2
  <2>4. QED
    BY <2>3 DEF either
<1>5. QED
  BY <1>1, <1>3, <1>4 DEF Settings

LEMMA FlagsTyped ==
  ASSUME input \in Inputs
  PROVE  FromCommandLine(input.cli) \in Settings /\ AuthFlags \in Settings /\ FinalFlags \in Settings
<1>1. FromCommandLine(input.cli) \in Settings
  BY DefaultFlags
<1>2. input.cli \in GivenSettings /\ input.file \in GivenSettings
  BY InputTyped
<1>3. AuthFlags \in Settings
  BY <1>1, <1>2, MergeTasksFile DEF AuthFlags
<1>4. FinalFlags \in Settings
  BY <1>2, <1>3, MergeTasksFile, MergeKpiFile DEF FinalFlags
<1>5. QED
  BY <1>1, <1>3, <1>4

\* The command line has the last word on the settings.
LEMMA CommandLineWins ==
  ASSUME input \in Inputs, ValidFlags
  PROVE  \A name \in {"frequency", "duration", "database", "once"} :
           input.cli[name] # Absent => FinalFlags[name] = input.cli[name]
<1>1. input.cli \in GivenSettings /\ input.file \in GivenSettings
  BY InputTyped
<1>2. CASE input.tasksFile
  <2>1. input.cli.frequency = Absent /\ input.cli.duration = Absent /\ input.cli.once = Absent
    BY <1>2 DEF ValidFlags
  <2>2. FinalFlags.database = Given(input.cli.database, "sqlite")
    BY <1>1, <1>2, DefaultFlags, FlagsTyped, MergeTasksFile DEF FinalFlags, AuthFlags
  <2>3. QED
    BY <2>1, <2>2 DEF Given
<1>3. CASE ~input.tasksFile
  <2>1. AuthFlags \in Settings /\ FinalFlags = WithKpiFile(AuthFlags, input.file, input.cli)
    BY <1>3, FlagsTyped DEF FinalFlags
  <2>2. /\ FinalFlags.frequency = Given(input.cli.frequency, Given(input.file.frequency, AuthFlags.frequency))
        /\ FinalFlags.duration = Given(input.cli.duration, Given(input.file.duration, AuthFlags.duration))
        /\ FinalFlags.database = Given(input.cli.database, Given(input.file.database, AuthFlags.database))
        /\ FinalFlags.once = Given(input.cli.once, Given(input.file.once, AuthFlags.once))
    BY <1>1, <2>1, MergeKpiFile
  <2>3. QED
    BY <2>2 DEF Given
<1>4. QED
  BY <1>2, <1>3

\* A token is made for the duration of the collection that will use it, unless a
\* KPI file changes the duration afterwards.
LEMMA TokenForDuration ==
  ASSUME input \in Inputs, KeepsDuration, ~FinalFlags.once
  PROVE  TokenLifetime(AuthFlags) = FinalFlags.duration + Buffer
<1>1. input.cli \in GivenSettings /\ input.file \in GivenSettings
  BY InputTyped
<1>2. AuthFlags \in Settings /\ FromCommandLine(input.cli) \in Settings
  BY FlagsTyped
<1>3. CASE input.tasksFile
  <2>1. FinalFlags = WithTasksFile(AuthFlags, input.file)
        /\ AuthFlags = WithTasksFile(FromCommandLine(input.cli), input.file)
    BY <1>3 DEF FinalFlags, AuthFlags
  <2>2. FinalFlags.duration = AuthFlags.duration /\ FinalFlags.once = AuthFlags.once
    <3>1. CASE "prometheus" \in Present
      <4>1. /\ FinalFlags.duration = Given(input.file.duration, AuthFlags.duration)
            /\ FinalFlags.once = Given(input.file.once, AuthFlags.once)
        BY <1>1, <1>2, <2>1, <3>1, MergeTasksFile
      <4>2. LET f == FromCommandLine(input.cli)
            IN /\ AuthFlags.duration = Given(input.file.duration, f.duration)
               /\ AuthFlags.once = Given(input.file.once, f.once)
        BY <1>1, <1>2, <2>1, <3>1, MergeTasksFile
      <4>3. QED
        BY <4>1, <4>2 DEF Given
    <3>2. CASE "prometheus" \notin Present
      BY <1>1, <1>2, <2>1, <3>2, MergeTasksFile
    <3>3. QED
      BY <3>1, <3>2
  <2>3. QED
    BY <2>2 DEF TokenLifetime
<1>4. CASE ~input.tasksFile
  <2>1. AuthFlags = FromCommandLine(input.cli)
        /\ FinalFlags = WithKpiFile(AuthFlags, input.file, input.cli)
    BY <1>4 DEF FinalFlags, AuthFlags
  <2>2. /\ AuthFlags.duration = Given(input.cli.duration, DefaultDuration)
        /\ AuthFlags.once = Given(input.cli.once, FALSE)
    BY <2>1, DefaultFlags
  <2>3. /\ FinalFlags.duration = Given(input.cli.duration, Given(input.file.duration, AuthFlags.duration))
        /\ FinalFlags.once = Given(input.cli.once, Given(input.file.once, AuthFlags.once))
    BY <1>1, <1>2, <2>1, MergeKpiFile
  <2>4. ~AuthFlags.once
    BY <2>2, <2>3 DEF Given
  <2>5. FinalFlags.duration = AuthFlags.duration
    BY <1>4, <2>2, <2>3 DEF Given, KeepsDuration
  <2>6. QED
    BY <2>4, <2>5 DEF TokenLifetime
<1>5. QED
  BY <1>3, <1>4

-----------------------------------------------------------------------------
(***************************************************************************)
(* What the steps leave alone.                                             *)
(***************************************************************************)
LEMMA InputKept ==
  ASSUME input' = input
  PROVE  /\ Present' = Present /\ Decoded' = Decoded /\ FinalKpis' = FinalKpis
         /\ AuthFlags' = AuthFlags /\ FinalFlags' = FinalFlags
         /\ ValidFlags' <=> ValidFlags
         /\ ValidTasksSpec(Decoded)' <=> ValidTasksSpec(Decoded)
<1>1. Present' = Present
  BY DEF Present
<1>2. Decoded' = Decoded
  BY DEF Decoded
<1>3. FinalKpis' = FinalKpis
  BY DEF FinalKpis
<1>5. AuthFlags' = AuthFlags
  BY <1>1 DEF AuthFlags, WithTasksFile
<1>6. FinalFlags' = FinalFlags
  BY <1>1, <1>5 DEF FinalFlags, WithTasksFile
<1>7. ValidFlags' <=> ValidFlags
  BY DEF ValidFlags
<1>8. ValidTasksSpec(Decoded)' <=> ValidTasksSpec(Decoded)
  BY <1>1, <1>2 DEF ValidTasksSpec
<1>9. QED
  BY <1>1, <1>2, <1>3, <1>5, <1>6, <1>7, <1>8

\* A step before the tasks are built concerns none of them and queries nothing.
LEMMA SetupStep ==
  ASSUME SetupInv, ~Running, ~Running', input' = input, now' \in Nat, now <= now',
         UNCHANGED <<runVars, queryVars>>
  PROVE  TasksOK' /\ AskedOK' /\ GroupsOK' /\ WindowsForward'
<1>1. job = Absent /\ tasks = <<>> /\ pos = 0 /\ timerAt = Absent
      /\ \A i \in DOMAIN asked : asked[i] = Absent
  BY DEF SetupInv, TasksOK, AskedOK
<1>2. TasksOK'
  BY <1>1 DEF TasksOK, runVars, Running
<1>3. AskedOK'
  BY <1>1 DEF AskedOK, queryVars, Running
<1>4. WindowsForward'
  BY <1>1 DEF WindowsForward, queryVars
<1>5. GroupsOK'
  BY DEF SetupInv, GroupsOK, GroupsTyped, queryVars, Running
<1>6. QED
  BY <1>2, <1>3, <1>4, <1>5

\* Once the tasks run, what was prepared stays.
LEMMA RunStep ==
  ASSUME SetupInv, Running \/ pc = "build", Running', input' = input, now' \in Nat,
         now <= now', UNCHANGED prepVars
  PROVE  ChecksOK' /\ KpisOK' /\ FlagsOK' /\ SpecOK'
<1> USE InputKept
<1>1. flags' = flags /\ token' = token /\ spec' = spec
  BY DEF prepVars
<1>2. ChecksOK'
  BY DEF SetupInv, ChecksOK, Running, Settled, Prepared
<1>3. KpisOK'
  <2> SUFFICES ASSUME "prometheus" \in Present
               PROVE  /\ \E t \in 0 .. now' : ValidKpis(input.kpis, t)
                      /\ HasPlaceholders(input.kpis) => input.kubeconfig
                      /\ FinalFlags.once \/ \A i \in DOMAIN input.kpis :
                                              FrequencyFits(input.kpis[i], FinalFlags.frequency)
    BY DEF KpisOK
  <2>1. KpisOK /\ Prepared /\ now \in Nat
    BY DEF SetupInv, Prepared, TypeOK
  <2>2. PICK t \in 0 .. now : ValidKpis(input.kpis, t)
    BY <2>1 DEF KpisOK
  <2>3. t \in 0 .. now'
    BY <2>1
  <2>4. QED
    BY <2>1, <2>2, <2>3 DEF KpisOK
<1>4. FlagsOK'
  BY <1>1 DEF SetupInv, FlagsOK, TokenLifetime, Running, Settled, Prepared
<1>5. SpecOK'
  BY <1>1 DEF SetupInv, SpecOK, SectionsDone, PerNodeData, Running, Settled, Prepared
<1>6. QED
  BY <1>2, <1>3, <1>4, <1>5

\* A step that ends the command with an error
LEMMA FailStep ==
  ASSUME SetupInv, ~Running, pc' = "failed", input' = input, now' = now,
         flags' \in Settings, spec' \in Specs, token' = token,
         cpus' \in Optional([reserved : Seq(Nat), isolated : Seq(Nat)]),
         UNCHANGED <<runVars, queryVars>>
  PROVE  SetupInv'
<1>1. ~Running'
  BY DEF Running
<1>2. now \in Nat
  BY DEF SetupInv, TypeOK
<1>3. TasksOK' /\ AskedOK' /\ GroupsOK' /\ WindowsForward'
  BY <1>1, <1>2, SetupStep
<1>4. TypeOK'
  BY DEF SetupInv, TypeOK, Specs, runVars, queryVars
<1>5. InputOK'
  BY DEF SetupInv, InputOK, runVars, queryVars
<1>6. ChecksOK' /\ KpisOK' /\ SpecOK'
  BY DEF ChecksOK, KpisOK, SpecOK, Settled, Prepared, Running
<1>7. FlagsOK'
  BY InputKept DEF SetupInv, FlagsOK, Settled, Prepared, Running, TokenLifetime
<1>8. QED
  BY <1>3, <1>4, <1>5, <1>6, <1>7 DEF SetupInv

-----------------------------------------------------------------------------
(***************************************************************************)
(* Sections, KPIs and orders.                                              *)
(***************************************************************************)

\* A section that is valid leaves one with the fields in place, which is valid
\* when it is looked at again; and so is one that only gets its CPU list.
LEMMA SectionComplete ==
  ASSUME NEW name \in OtherTasks, NEW s \in Section, s.configFile = Absent,
         ValidFields(name, s.fields)
  PROVE  ValidSection(name, s)
<1>1. s.fields.duration > 0
  BY DEF ValidFields, OtherTasks, ValidOslat, ValidPerNodeData, ValidAppRecoveryTime, ValidPoll
<1>2. s.fields # NoFields
  BY <1>1 DEF NoFields
<1>3. OneSource(s)
  BY <1>2 DEF OneSource
<1>4. Resolved(s) = s
  BY DEF Resolved
<1>5. QED
  BY <1>3, <1>4 DEF ValidSection

LEMMA SectionResolved ==
  ASSUME NEW name \in OtherTasks, NEW s \in Section, ValidSection(name, s)
  PROVE  /\ Resolved(s) \in Section /\ Resolved(s).configFile = Absent
         /\ ValidFields(name, Resolved(s).fields)
<1>1. ValidFields(name, Resolved(s).fields)
  BY DEF ValidSection
<1>2. Resolved(s) \in Section /\ Resolved(s).configFile = Absent
  BY DEF Resolved, Section, SectionFile
<1>3. QED
  BY <1>1, <1>2

LEMMA IsolcpusAdded ==
  ASSUME NEW s \in Section, NEW cpuIDs \in Seq(Nat), s.configFile = Absent,
         ValidFields("per-node-data", s.fields)
  PROVE  LET r == [s EXCEPT !.fields.isolcpus = cpuIDs]
         IN /\ r \in Section /\ r.configFile = Absent /\ r.fields.isolcpus = cpuIDs
            /\ ValidFields("per-node-data", r.fields)
<1> DEFINE r == [s EXCEPT !.fields.isolcpus = cpuIDs]
           f == [s.fields EXCEPT !.isolcpus = cpuIDs]
<1>1. s.fields \in Fields
  BY DEF Section
<1>2. /\ f \in Fields /\ f.isolcpus = cpuIDs
      /\ f.namespaces = s.fields.namespaces /\ f.duration = s.fields.duration
      /\ f.interval = s.fields.interval /\ f.image = s.fields.image
  BY <1>1 DEF Fields
<1>3. r = [s EXCEPT !.fields = f]
  OBVIOUS
<1> HIDE DEF f, r
<1>4. r = [configFile |-> s.configFile, fields |-> f]
  BY <1>3 DEF Section
<1>5. ValidFields("per-node-data", f)
  BY <1>2 DEF ValidFields, ValidPerNodeData, ValidPoll
<1>6. r \in Section /\ r.configFile = Absent /\ r.fields = f
  BY <1>2, <1>4 DEF Section
<1>7. QED
  BY <1>2, <1>5, <1>6 DEF r

\* Substitution keeps everything of the KPIs but the placeholders.
LEMMA SubstitutedKpis ==
  ASSUME NEW kpis \in Seq(Kpi)
  PROVE  LET s == Substituted(kpis)
         IN /\ s \in Seq(Kpi) /\ DOMAIN s = DOMAIN kpis /\ (s = <<>> <=> kpis = <<>>)
            /\ ~HasPlaceholders(s)
            /\ UniqueIds(kpis) => UniqueIds(s)
            /\ \A i \in DOMAIN kpis :
                 /\ s[i].id = kpis[i].id /\ s[i].frequency = kpis[i].frequency
                 /\ s[i].queryType = kpis[i].queryType /\ s[i].range = kpis[i].range
                 /\ s[i].runOnce = kpis[i].runOnce
<1> DEFINE s == Substituted(kpis)
<1>1. \A i \in DOMAIN kpis : kpis[i] \in Kpi
  OBVIOUS
<1>2. DOMAIN s = DOMAIN kpis
  BY DEF Substituted
<1>3. ASSUME NEW i \in DOMAIN kpis
      PROVE  /\ s[i] \in Kpi /\ s[i].promquery # "placeholders"
             /\ s[i].id = kpis[i].id /\ s[i].frequency = kpis[i].frequency
             /\ s[i].queryType = kpis[i].queryType /\ s[i].range = kpis[i].range
             /\ s[i].runOnce = kpis[i].runOnce
  <2> DEFINE k == kpis[i]
  <2>1. k \in Kpi
    BY <1>1
  <2>2. s[i] = IF k.promquery = "placeholders" THEN [k EXCEPT !.promquery = "plain"] ELSE k
    BY DEF Substituted
  <2> HIDE DEF k, s
  <2>3. CASE k.promquery = "placeholders"
    <3>1. s[i] = [k EXCEPT !.promquery = "plain"]
      BY <2>2, <2>3
    <3>2. s[i] \in Kpi /\ s[i].promquery # "placeholders"
      BY <2>1, <3>1 DEF Kpi
    <3>3. /\ s[i].id = k.id /\ s[i].frequency = k.frequency /\ s[i].queryType = k.queryType
          /\ s[i].range = k.range /\ s[i].runOnce = k.runOnce
      BY <2>1, <3>1 DEF Kpi
    <3>4. QED
      BY <3>2, <3>3 DEF k
  <2>4. CASE k.promquery # "placeholders"
    BY <2>1, <2>2, <2>4 DEF k
  <2>5. QED
    BY <2>3, <2>4
<1>4. s \in Seq(Kpi)
  <2>1. DOMAIN kpis = 1 .. Len(kpis) /\ Len(kpis) \in Nat
    OBVIOUS
  <2>2. s = [i \in 1 .. Len(kpis) |-> s[i]]
    BY <2>1 DEF Substituted
  <2> HIDE DEF s
  <2>3. QED
    BY <1>2, <1>3, <2>1, <2>2
<1> HIDE DEF s
<1>5. s = <<>> <=> kpis = <<>>
  <2>1. \A q \in Seq(Kpi) : q = <<>> <=> DOMAIN q = {}
    OBVIOUS
  <2>2. QED
    BY <1>2, <1>4, <2>1
<1>6. ~HasPlaceholders(s)
  BY <1>2, <1>3 DEF HasPlaceholders
<1>7. UniqueIds(kpis) => UniqueIds(s)
  BY <1>2, <1>3 DEF UniqueIds
<1>8. QED
  BY <1>2, <1>3, <1>4, <1>5, <1>6, <1>7 DEF s

LEMMA DistinctCounted ==
  ASSUME NEW S, NEW s \in Seq(S), Distinct(s)
  PROVE  Len(s) = Cardinality(Elements(s))
<1>1. DOMAIN s = 1 .. Len(s) /\ Len(s) \in Nat /\ s \in [1 .. Len(s) -> Elements(s)]
  BY DEF Elements
<1>2. s \in Bijection(1 .. Len(s), Elements(s))
  BY <1>1 DEF Distinct, Elements, Bijection, Injection, Surjection, IsInjective
<1>3. IsFiniteSet(1 .. Len(s)) /\ Cardinality(1 .. Len(s)) = Len(s)
  BY <1>1, FS_Interval
<1>4. ExistsBijection(1 .. Len(s), Elements(s))
  BY <1>2 DEF ExistsBijection
<1>5. QED
  BY <1>3, <1>4, FS_Bijection

LEMMA JoinedDistinct ==
  ASSUME NEW S, NEW s \in Seq(S), NEW t \in Seq(S), Distinct(s), Distinct(t),
         Elements(s) \cap Elements(t) = {}
  PROVE  /\ s \o t \in Seq(S) /\ Distinct(s \o t)
         /\ Elements(s \o t) = Elements(s) \cup Elements(t)
<1> DEFINE u == s \o t
<1>1. /\ u \in Seq(S) /\ Len(u) = Len(s) + Len(t) /\ Len(s) \in Nat /\ Len(t) \in Nat
      /\ DOMAIN s = 1 .. Len(s) /\ DOMAIN t = 1 .. Len(t) /\ DOMAIN u = 1 .. Len(s) + Len(t)
  OBVIOUS
<1>2. \A i \in 1 .. Len(s) : u[i] = s[i] /\ u[i] \in Elements(s)
  BY DEF Elements
<1>3. \A i \in Len(s) + 1 .. Len(s) + Len(t) :
        i - Len(s) \in 1 .. Len(t) /\ u[i] = t[i - Len(s)] /\ u[i] \in Elements(t)
  BY DEF Elements
<1> HIDE DEF u
<1>4. \A i \in DOMAIN u : i \in 1 .. Len(s) \/ i \in Len(s) + 1 .. Len(s) + Len(t)
  BY <1>1
<1>5. Distinct(u)
  <2> SUFFICES ASSUME NEW i \in DOMAIN u, NEW j \in DOMAIN u, u[i] = u[j]
               PROVE  i = j
    BY DEF Distinct
  <2>1. CASE i \in 1 .. Len(s) /\ j \in 1 .. Len(s)
    BY <1>1, <1>2, <2>1 DEF Distinct
  <2>2. CASE i \in Len(s) + 1 .. Len(s) + Len(t) /\ j \in Len(s) + 1 .. Len(s) + Len(t)
    <3>1. i - Len(s) = j - Len(s)
      BY <1>1, <1>3, <2>2 DEF Distinct
    <3>2. i \in Int /\ j \in Int /\ Len(s) \in Int
      BY <1>1, <2>2
    <3>3. QED
      BY <3>1, <3>2
  <2>3. QED
    BY <1>2, <1>3, <1>4, <2>1, <2>2
<1>6. Elements(u) = Elements(s) \cup Elements(t)
  <2>1. \A x \in Elements(u) : x \in Elements(s) \cup Elements(t)
    BY <1>2, <1>3, <1>4 DEF Elements
  <2>2. \A x \in Elements(s) : x \in Elements(u)
    <3> TAKE x \in Elements(s)
    <3>1. PICK i \in 1 .. Len(s) : x = s[i]
      BY <1>1 DEF Elements
    <3>2. i \in DOMAIN u /\ u[i] = x
      BY <1>1, <1>2, <3>1
    <3>3. QED
      BY <3>2 DEF Elements
  <2>3. \A x \in Elements(t) : x \in Elements(u)
    <3> TAKE x \in Elements(t)
    <3>1. PICK i \in 1 .. Len(t) : x = t[i]
      BY <1>1 DEF Elements
    <3>2. Len(s) + i \in Len(s) + 1 .. Len(s) + Len(t) /\ (Len(s) + i) - Len(s) = i
      BY <1>1
    <3>3. Len(s) + i \in DOMAIN u /\ u[Len(s) + i] = x
      BY <1>1, <1>3, <3>1, <3>2
    <3>4. QED
      BY <3>3 DEF Elements
  <2>4. QED
    BY <2>1, <2>2, <2>3
<1>7. QED
  BY <1>1, <1>5, <1>6 DEF u

\* The order by default has every task of the file, once.
LEMMA DefaultOrderComplete ==
  ASSUME NEW present \in SUBSET TaskNames
  PROVE  /\ DefaultOrder(present) \in Seq(TaskNames) /\ Distinct(DefaultOrder(present))
         /\ Elements(DefaultOrder(present)) = present
<1> DEFINE Only(name) == IF name \in present THEN <<name>> ELSE <<>>
<1>1. ASSUME NEW name \in TaskNames
      PROVE  /\ Only(name) \in Seq(TaskNames) /\ Distinct(Only(name))
             /\ Elements(Only(name)) = {name} \cap present
  BY DEF Distinct, Elements
<1> DEFINE a == Only("prometheus")
           b == Only("per-node-data")
           c == Only("oslat")
           d == Only("app-recovery-time")
<1>2. /\ a \in Seq(TaskNames) /\ Distinct(a) /\ Elements(a) = {"prometheus"} \cap present
      /\ b \in Seq(TaskNames) /\ Distinct(b) /\ Elements(b) = {"per-node-data"} \cap present
      /\ c \in Seq(TaskNames) /\ Distinct(c) /\ Elements(c) = {"oslat"} \cap present
      /\ d \in Seq(TaskNames) /\ Distinct(d) /\ Elements(d) = {"app-recovery-time"} \cap present
  <2> HIDE DEF Only
  <2>1. QED
    BY <1>1 DEF TaskNames, OtherTasks
<1>3. DefaultOrder(present) = ((a \o b) \o c) \o d
  BY DEF DefaultOrder
<1> HIDE DEF a, b, c, d
<1>4. /\ a \o b \in Seq(TaskNames) /\ Distinct(a \o b)
      /\ Elements(a \o b) = {"prometheus", "per-node-data"} \cap present
  BY <1>2, JoinedDistinct
<1> DEFINE e == a \o b
           f == e \o c
<1>5. /\ f \in Seq(TaskNames) /\ Distinct(f)
      /\ Elements(f) = {"prometheus", "per-node-data", "oslat"} \cap present
  <2>1. e \in Seq(TaskNames) /\ Distinct(e) /\ Elements(e) \cap Elements(c) = {}
    BY <1>2, <1>4
  <2> HIDE DEF e
  <2>2. f \in Seq(TaskNames) /\ Distinct(f) /\ Elements(f) = Elements(e) \cup Elements(c)
    BY <1>2, <2>1, JoinedDistinct
  <2>3. Elements(e) = {"prometheus", "per-node-data"} \cap present
    BY <1>4 DEF e
  <2> HIDE DEF f
  <2>4. QED
    BY <1>2, <2>2, <2>3
<1> HIDE DEF f
<1>6. /\ f \o d \in Seq(TaskNames) /\ Distinct(f \o d)
      /\ Elements(f \o d) = {"prometheus", "per-node-data", "oslat", "app-recovery-time"} \cap present
  <2>1. Elements(f) \cap Elements(d) = {}
    BY <1>2, <1>5
  <2>2. f \o d \in Seq(TaskNames) /\ Distinct(f \o d)
        /\ Elements(f \o d) = Elements(f) \cup Elements(d)
    BY <1>2, <1>5, <2>1, JoinedDistinct
  <2>3. QED
    BY <1>2, <1>5, <2>2
<1>7. {"prometheus", "per-node-data", "oslat", "app-recovery-time"} \cap present = present
  BY DEF TaskNames, OtherTasks
<1>8. QED
  BY <1>3, <1>6, <1>7 DEF f

-----------------------------------------------------------------------------
(***************************************************************************)
(* The start and the steps up to the settings.                             *)
(***************************************************************************)
LEMMA PresentTasks ==
  ASSUME input \in Inputs
  PROVE  /\ Present \in SUBSET TaskNames /\ "prometheus" \in TaskNames
         /\ \A name \in Present \ {"prometheus"} :
              name \in OtherTasks /\ input.tasksFile /\ input.sections[name] \in Section
<1>1. input.sections \in [OtherTasks -> Optional(Section)]
  BY InputTyped
<1>2. \A name \in Present \ {"prometheus"} :
        name \in OtherTasks /\ input.tasksFile /\ input.sections[name] # Absent
  BY DEF Present, TaskNames
<1>3. \A name \in OtherTasks : input.sections[name] \in Section \cup {Absent}
  BY <1>1 DEF Optional
<1>4. QED
  BY <1>2, <1>3 DEF Present, TaskNames

LEMMA DecodedTyped ==
  ASSUME input \in Inputs
  PROVE  Decoded \in Specs
<1>1. /\ input.configFile \in BOOLEAN /\ input.kpis \in Seq(Kpi)
      /\ input.sections \in [OtherTasks -> Optional(Section)]
  BY InputTyped
<1>2. QED
  BY <1>1 DEF Decoded, Specs

LEMMA InitSound == Init => SetupInv
<1> SUFFICES ASSUME Init
             PROVE  SetupInv
  OBVIOUS
<1>1. input \in Inputs /\ Decoded \in Specs /\ FromCommandLine(input.cli) \in Settings
  BY DecodedTyped, FlagsTyped DEF Init
<1>2. TypeOK
  BY <1>1 DEF Init, TypeOK, Specs, Optional
<1>3. InputOK
  BY <1>1 DEF Init, InputOK, Optional
<1>4. ~Running /\ ~Prepared /\ ~Settled
  BY DEF Init, Running, Prepared, Settled
<1>5. ChecksOK /\ KpisOK /\ FlagsOK /\ SpecOK
  BY <1>4 DEF Init, ChecksOK, KpisOK, FlagsOK, SpecOK
<1>6. TasksOK /\ AskedOK /\ GroupsOK /\ WindowsForward
  BY <1>4 DEF Init, TasksOK, AskedOK, GroupsOK, GroupsTyped, WindowsForward
<1>7. QED
  BY <1>2, <1>3, <1>5, <1>6 DEF SetupInv

\* A step before the tasks are built that goes on
LEMMA GoOnStep ==
  ASSUME SetupInv, ~Running, ~Running', input' = input, now' \in Nat, now <= now',
         UNCHANGED <<runVars, queryVars>>,
         pc' \in {"load", "auth", "settings", "kpis", "prompt", "substitute", "isolcpus",
                  "build", pc},
         flags' \in Settings, token' \in Optional(Token), spec' \in Specs,
         cpus' \in Optional([reserved : Seq(Nat), isolated : Seq(Nat)]),
         ChecksOK', KpisOK', FlagsOK', SpecOK'
  PROVE  SetupInv'
<1>1. TasksOK' /\ AskedOK' /\ GroupsOK' /\ WindowsForward'
  BY SetupStep
<1>2. TypeOK'
  <2>1. /\ pc \in {"flags", "load", "auth", "settings", "kpis", "prompt", "substitute",
                   "isolcpus", "build", "tasks", "once", "collect", "done", "failed"}
        /\ pos \in 0 .. Len(tasks) /\ timerAt \in Optional(Nat)
        /\ asked \in [DOMAIN input.kpis -> Optional(Moment)]
    BY DEF SetupInv, TypeOK
  <2>2. spec'.configFile \in BOOLEAN
        /\ \A name \in OtherTasks : spec'.sections[name] \in Optional(Section)
    BY DEF Specs
  <2>3. pos' = pos /\ tasks' = tasks /\ timerAt' = timerAt /\ asked' = asked
    BY DEF runVars, queryVars
  <2>4. QED
    BY <1>1, <2>1, <2>2, <2>3 DEF TypeOK, GroupsOK, GroupsTyped
<1>3. InputOK'
  BY DEF SetupInv, InputOK, runVars, queryVars
<1>4. QED
  BY <1>1, <1>2, <1>3 DEF SetupInv

LEMMA SetupTyped ==
  ASSUME SetupInv
  PROVE  /\ input \in Inputs /\ now \in Nat /\ flags \in Settings /\ spec \in Specs
         /\ token \in Optional(Token)
         /\ cpus \in Optional([reserved : Seq(Nat), isolated : Seq(Nat)])
BY DEF SetupInv, TypeOK, InputOK

LEMMA ValidateFlagsStep == SetupInv /\ ValidateFlags => SetupInv'
<1> SUFFICES ASSUME SetupInv, ValidateFlags
             PROVE  SetupInv'
  OBVIOUS
<1>1. pc = "flags" /\ input' = input /\ now' = now /\ flags' = flags /\ token' = token
      /\ spec' = spec /\ cpus' = cpus /\ UNCHANGED <<runVars, queryVars>>
  BY DEF ValidateFlags, inputVars, prepVars
<1>2. ~Running
  BY <1>1 DEF Running
<1>3. CASE ~ValidFlags
  BY <1>1, <1>2, <1>3, SetupTyped, FailStep DEF ValidateFlags, StepTo
<1>4. CASE ValidFlags
  <2>1. /\ pc' \in {"load", "auth"}
        /\ pc' = "load" => input.tasksFile
        /\ pc' = "auth" => ~input.tasksFile
    BY <1>4 DEF ValidateFlags, StepTo
  <2>2. ~Running' /\ ~Prepared' /\ ~Settled'
    BY <2>1 DEF Running, Prepared, Settled
  <2>3. ChecksOK' /\ KpisOK'
    BY <1>1, <1>4, <2>1, <2>2, InputKept DEF ChecksOK, KpisOK
  <2>4. FlagsOK'
    BY <1>1, <2>1, <2>2, InputKept DEF SetupInv, FlagsOK, AuthFlags, TokenLifetime
  <2>5. SpecOK'
    BY <1>1, <1>2, <2>1, <2>2, InputKept DEF SetupInv, SpecOK, Settled, Prepared
  <2>6. QED
    BY <1>1, <1>2, <2>1, <2>2, <2>3, <2>4, <2>5, SetupTyped, GoOnStep
<1>5. QED
  BY <1>3, <1>4

LEMMA LoadTasksStep == SetupInv /\ LoadTasks => SetupInv'
<1> SUFFICES ASSUME SetupInv, LoadTasks
             PROVE  SetupInv'
  OBVIOUS
<1>1. pc = "load" /\ input' = input /\ now' = now /\ token' = token
      /\ spec' = spec /\ cpus' = cpus /\ UNCHANGED <<runVars, queryVars>>
  BY DEF LoadTasks, inputVars
<1>2. ~Running /\ spec = Decoded /\ flags = FromCommandLine(input.cli) /\ input.tasksFile
      /\ ValidFlags
  BY <1>1 DEF SetupInv, Running, SpecOK, FlagsOK, ChecksOK, Settled, Prepared
<1>3. CASE ~ValidTasksSpec(Decoded)
  BY <1>1, <1>2, <1>3, SetupTyped, FailStep DEF LoadTasks, StepTo
<1>4. CASE ValidTasksSpec(Decoded)
  <2>1. pc' = "auth" /\ flags' = AuthFlags
    BY <1>2, <1>4 DEF LoadTasks, StepTo, AuthFlags
  <2>2. ~Running' /\ ~Prepared' /\ ~Settled'
    BY <2>1 DEF Running, Prepared, Settled
  <2>3. ChecksOK' /\ KpisOK'
    BY <1>1, <1>2, <1>4, <2>1, <2>2, InputKept DEF ChecksOK, KpisOK
  <2>4. FlagsOK'
    BY <1>1, <2>1, <2>2, InputKept DEF SetupInv, FlagsOK, TokenLifetime
  <2>5. SpecOK'
    BY <1>1, <1>2, <2>1, <2>2, InputKept DEF SpecOK
  <2>6. AuthFlags \in Settings
    BY SetupTyped, FlagsTyped
  <2>7. QED
    BY <1>1, <1>2, <2>1, <2>2, <2>3, <2>4, <2>5, <2>6, SetupTyped, GoOnStep
<1>5. QED
  BY <1>3, <1>4

LEMMA AuthStep == SetupInv /\ (SetupKubeconfigAuth \/ AuthFails) => SetupInv'
<1> SUFFICES ASSUME SetupInv, SetupKubeconfigAuth \/ AuthFails
             PROVE  SetupInv'
  OBVIOUS
<1>1. pc = "auth" /\ input' = input /\ now' = now /\ flags' = flags
      /\ spec' = spec /\ cpus' = cpus /\ UNCHANGED <<runVars, queryVars>>
  BY DEF SetupKubeconfigAuth, AuthFails, inputVars, prepVars
<1>2. ~Running /\ spec = Decoded /\ flags = AuthFlags
  BY <1>1 DEF SetupInv, Running, SpecOK, FlagsOK, Settled, Prepared
<1>3. CASE AuthFails
  BY <1>1, <1>2, <1>3, SetupTyped, FailStep DEF AuthFails, prepVars
<1>4. CASE SetupKubeconfigAuth
  <2>1. pc' = "settings"
    BY <1>4 DEF SetupKubeconfigAuth
  <2>2. ~Running' /\ ~Prepared' /\ ~Settled'
    BY <2>1 DEF Running, Prepared, Settled
  <2>3. ChecksOK' /\ KpisOK'
    BY <1>1, <2>1, <2>2, InputKept DEF SetupInv, ChecksOK, KpisOK
  <2>4. SpecOK'
    BY <1>1, <1>2, <2>1, <2>2, InputKept DEF SpecOK
  <2>5. TokenLifetime(AuthFlags) \in Int
    <3>1. AuthFlags.duration \in Int
      BY SetupTyped, FlagsTyped DEF Settings
    <3>2. QED
      BY <3>1, SettingsAssumption DEF TokenLifetime
  <2>6. CASE input.kubeconfig
    <3> DEFINE minted == [made |-> now, expires |-> now + TokenLifetime(AuthFlags)]
    <3>1. token' = minted
      BY <1>2, <1>4, <2>6 DEF SetupKubeconfigAuth
    <3>2. minted \in Token
      BY <2>5, SetupTyped DEF Token
    <3>3. minted # Absent
      BY <3>2, AbsentAssumption
    <3>4. minted.expires = minted.made + TokenLifetime(AuthFlags)
      OBVIOUS
    <3> HIDE DEF minted
    <3>5. FlagsOK'
      BY <1>1, <1>2, <2>1, <2>2, <3>1, <3>3, <3>4, InputKept DEF FlagsOK, TokenLifetime
    <3>6. token' \in Optional(Token)
      BY <3>1, <3>2 DEF Optional
    <3>7. QED
      BY <1>1, <1>2, <2>1, <2>2, <2>3, <2>4, <3>5, <3>6, SetupTyped, GoOnStep
  <2>7. CASE ~input.kubeconfig
    <3>1. token' = token
      BY <1>4, <2>7 DEF SetupKubeconfigAuth
    <3>2. FlagsOK'
      BY <1>1, <1>2, <2>1, <2>2, <2>7, <3>1, InputKept DEF SetupInv, FlagsOK, TokenLifetime
    <3>3. QED
      BY <1>1, <1>2, <2>1, <2>2, <2>3, <2>4, <3>1, <3>2, SetupTyped, GoOnStep
  <2>8. QED
    BY <2>6, <2>7
<1>5. QED
  BY <1>3, <1>4

\* What the second load makes of a file that was valid
LEMMA ResolvedDone ==
  ASSUME input \in Inputs, input.tasksFile, ValidTasksSpec(Decoded)
  PROVE  LET s == ResolvedSpec(Decoded)
         IN /\ s \in Specs /\ s.configFile = Decoded.configFile /\ s.kpis = Decoded.kpis
            /\ \A name \in Present \ {"prometheus"} :
                 /\ s.sections[name] \in Section /\ s.sections[name].configFile = Absent
                 /\ ValidFields(name, s.sections[name].fields)
<1> DEFINE done == [name \in OtherTasks |-> IF name \in Present THEN Resolved(Decoded.sections[name])
                                            ELSE Decoded.sections[name]]
<1>1. Decoded \in Specs /\ Decoded.sections = input.sections
  BY DecodedTyped DEF Decoded
<1>2. ResolvedSpec(Decoded) = [configFile |-> Decoded.configFile, kpis |-> Decoded.kpis,
                               sections |-> done]
  BY <1>1 DEF ResolvedSpec, Specs
<1>3. ASSUME NEW name \in Present \ {"prometheus"}
      PROVE  /\ done[name] \in Section /\ done[name].configFile = Absent
             /\ ValidFields(name, done[name].fields)
  <2>1. name \in OtherTasks /\ Decoded.sections[name] \in Section
    BY <1>1, PresentTasks
  <2>2. ValidSection(name, Decoded.sections[name])
    BY DEF ValidTasksSpec
  <2>3. done[name] = Resolved(Decoded.sections[name])
    BY <2>1
  <2> HIDE DEF done
  <2>4. QED
    BY <2>1, <2>2, <2>3, SectionResolved
<1>4. done \in [OtherTasks -> Optional(Section)]
  <2> SUFFICES ASSUME NEW name \in OtherTasks
               PROVE  done[name] \in Optional(Section)
    OBVIOUS
  <2>1. CASE name \in Present
    <3>1. name # "prometheus"
      BY DEF OtherTasks
    <3> HIDE DEF done
    <3>2. QED
      BY <1>3, <2>1, <3>1 DEF Optional
  <2>2. CASE name \notin Present
    BY <1>1, <2>2 DEF Specs
  <2>3. QED
    BY <2>1, <2>2
<1> HIDE DEF done
<1>5. QED
  BY <1>1, <1>2, <1>3, <1>4 DEF Specs

LEMMA ApplySettingsStep == SetupInv /\ ApplySettings => SetupInv'
<1> SUFFICES ASSUME SetupInv, ApplySettings
             PROVE  SetupInv'
  OBVIOUS
<1>1. pc = "settings" /\ input' = input /\ now' = now /\ token' = token
      /\ cpus' = cpus /\ UNCHANGED <<runVars, queryVars>>
  BY DEF ApplySettings, inputVars
<1>2. ~Running /\ spec = Decoded /\ flags = AuthFlags /\ input \in Inputs
      /\ (input.tasksFile => ValidTasksSpec(Decoded)) /\ ValidFlags
  BY <1>1 DEF SetupInv, InputOK, Running, SpecOK, FlagsOK, ChecksOK, Settled, Prepared
<1>3. Merged = FinalFlags /\ FinalFlags \in Settings
  BY <1>2, FlagsTyped DEF Merged, FinalFlags
<1>4. /\ flags' = FinalFlags
      /\ spec' = IF input.tasksFile THEN ResolvedSpec(Decoded) ELSE Decoded
  BY <1>2, <1>3 DEF ApplySettings
<1>5. /\ spec' \in Specs /\ spec'.configFile = Decoded.configFile /\ spec'.kpis = Decoded.kpis
      /\ \A name \in Present \ {"prometheus"} :
           /\ spec'.sections[name] \in Section /\ spec'.sections[name].configFile = Absent
           /\ ValidFields(name, spec'.sections[name].fields)
  <2>1. CASE input.tasksFile
    BY <1>2, <1>4, <2>1, ResolvedDone
  <2>2. CASE ~input.tasksFile
    BY <1>2, <1>4, <2>2, DecodedTyped, PresentTasks
  <2>3. QED
    BY <2>1, <2>2
<1>6. CASE ~ValidSettings(FinalFlags)
  BY <1>1, <1>2, <1>3, <1>4, <1>5, <1>6, SetupTyped, FailStep DEF ApplySettings, StepTo
<1>7. CASE ValidSettings(FinalFlags)
  <2>1. /\ pc' \in {"kpis", "isolcpus"}
        /\ pc' = "kpis" <=> "prometheus" \in Present
    BY <1>3, <1>7 DEF ApplySettings, StepTo, AfterSettings
  <2>2. ~Running' /\ Settled' /\ (Prepared' => "prometheus" \notin Present)
    BY <2>1 DEF Running, Prepared, Settled
  <2>3. ChecksOK'
    BY <1>1, <1>2, <1>7, <2>1, InputKept DEF ChecksOK, Settled, Prepared, Running
  <2>4. KpisOK'
    BY <1>1, <2>1, <2>2, InputKept DEF KpisOK
  <2>5. FlagsOK'
    BY <1>1, <1>4, <2>1, <2>2, InputKept DEF SetupInv, FlagsOK, TokenLifetime
  <2>6. SpecOK'
    <3>1. SectionsDone'
      BY <1>1, <1>5, InputKept DEF SectionsDone
    <3>2. LoadedKpis' = input'.kpis
      BY <1>1, <1>5 DEF LoadedKpis, Decoded
    <3>3. QED
      BY <2>1, <2>2, <3>1, <3>2, InputKept, <1>1 DEF SpecOK, Running
  <2>7. QED
    BY <1>1, <1>2, <1>3, <1>4, <1>5, <2>1, <2>2, <2>3, <2>4, <2>5, <2>6, SetupTyped, GoOnStep
<1>8. QED
  BY <1>6, <1>7

-----------------------------------------------------------------------------
(***************************************************************************)
(* The KPIs and the CPU sets.                                              *)
(***************************************************************************)
LEMMA FetchedTyped ==
  /\ FetchedCpus \subseteq [reserved : Seq(Nat), isolated : Seq(Nat)]
  /\ FetchedCpus # {} => input.kubeconfig
BY CpuSetsTyped DEF FetchedCpus

\* The KPIs before they are prepared
LEMMA KpisLoaded ==
  ASSUME SetupInv, pc \in {"kpis", "prompt", "substitute"}
  PROVE  /\ ~Running /\ LoadedKpis = input.kpis /\ flags = FinalFlags /\ SectionsDone
         /\ "prometheus" \in Present /\ input \in Inputs /\ input.kpis \in Seq(Kpi)
         /\ ValidFlags /\ ValidSettings(FinalFlags)
         /\ input.tasksFile => ValidTasksSpec(Decoded)
         /\ input.kubeconfig => token # Absent
         /\ token # Absent => token.expires = token.made + TokenLifetime(AuthFlags)
<1>1. ~Running /\ Settled
  BY DEF Running, Settled
<1>2. input \in Inputs /\ input.kpis \in Seq(Kpi)
  BY SetupTyped, InputTyped
<1>3. QED
  BY <1>1, <1>2 DEF SetupInv, ChecksOK, FlagsOK, SpecOK

LEMMA ValidateKpisStep == SetupInv /\ ValidateKpis => SetupInv'
<1> SUFFICES ASSUME SetupInv, ValidateKpis
             PROVE  SetupInv'
  OBVIOUS
<1>1. pc = "kpis" /\ input' = input /\ now' = now /\ flags' = flags /\ token' = token
      /\ spec' = spec /\ cpus' = cpus /\ UNCHANGED <<runVars, queryVars>>
  BY DEF ValidateKpis, inputVars, prepVars
<1>2. ~Running /\ LoadedKpis = input.kpis /\ now \in Nat
  BY <1>1, KpisLoaded, SetupTyped
<1>3. CASE ~ValidKpis(input.kpis, now)
  BY <1>1, <1>2, <1>3, SetupTyped, FailStep DEF ValidateKpis, StepTo
<1>4. CASE ValidKpis(input.kpis, now)
  <2>1. pc' \in {"prompt", "substitute"}
    BY <1>2, <1>4 DEF ValidateKpis, StepTo
  <2>2. ~Running' /\ ~Prepared' /\ Settled'
    BY <2>1 DEF Running, Prepared, Settled
  <2>3. ChecksOK'
    BY <1>1, <2>1, <2>2, KpisLoaded, InputKept DEF ChecksOK
  <2>4. KpisOK'
    <3>1. now \in 0 .. now
      BY <1>2
    <3>2. \E t \in 0 .. now' : ValidKpis(input'.kpis, t)
      BY <1>1, <1>4, <3>1
    <3>3. QED
      BY <2>2, <3>2 DEF KpisOK
  <2>5. FlagsOK'
    BY <1>1, <2>1, <2>2, KpisLoaded, InputKept DEF FlagsOK, TokenLifetime
  <2>6. SpecOK'
    <3>1. SectionsDone'
      BY <1>1, KpisLoaded, InputKept DEF SectionsDone
    <3>2. LoadedKpis' = input'.kpis
      BY <1>1, <1>2 DEF LoadedKpis
    <3>3. QED
      BY <2>1, <2>2, <3>1, <3>2 DEF SpecOK
  <2>7. QED
    BY <1>1, <1>2, <2>1, <2>2, <2>3, <2>4, <2>5, <2>6, SetupTyped, GoOnStep
<1>5. QED
  BY <1>3, <1>4

LEMMA UserAnswersStep == \A yes \in BOOLEAN : SetupInv /\ UserAnswers(yes) => SetupInv'
<1> SUFFICES ASSUME NEW yes \in BOOLEAN, SetupInv, UserAnswers(yes)
             PROVE  SetupInv'
  OBVIOUS
<1>1. pc = "prompt" /\ input' = input /\ now' = now /\ flags' = flags /\ token' = token
      /\ spec' = spec /\ cpus' = cpus /\ UNCHANGED <<runVars, queryVars>>
  BY DEF UserAnswers, inputVars, prepVars
<1>2. ~Running /\ LoadedKpis = input.kpis /\ now \in Nat
  BY <1>1, KpisLoaded, SetupTyped
<1>3. CASE ~yes
  BY <1>1, <1>2, <1>3, SetupTyped, FailStep DEF UserAnswers, StepTo
<1>4. CASE yes
  <2>1. pc' = "substitute"
    BY <1>4 DEF UserAnswers, StepTo
  <2>2. ~Running' /\ ~Prepared' /\ Settled'
    BY <2>1 DEF Running, Prepared, Settled
  <2>3. ChecksOK'
    BY <1>1, <2>1, <2>2, KpisLoaded, InputKept DEF ChecksOK
  <2>4. KpisOK'
    BY <1>1, <2>2, InputKept DEF SetupInv, KpisOK
  <2>5. FlagsOK'
    BY <1>1, <2>1, <2>2, KpisLoaded, InputKept DEF FlagsOK, TokenLifetime
  <2>6. SpecOK'
    <3>1. SectionsDone'
      BY <1>1, KpisLoaded, InputKept DEF SectionsDone
    <3>2. LoadedKpis' = input'.kpis
      BY <1>1, <1>2 DEF LoadedKpis
    <3>3. QED
      BY <2>1, <2>2, <3>1, <3>2 DEF SpecOK
  <2>7. QED
    BY <1>1, <1>2, <2>1, <2>2, <2>3, <2>4, <2>5, <2>6, SetupTyped, GoOnStep
<1>5. QED
  BY <1>3, <1>4

LEMMA PrepareKpisStep == SetupInv /\ (PrepareKpis \/ PrepareKpisFails) => SetupInv'
<1> SUFFICES ASSUME SetupInv, PrepareKpis \/ PrepareKpisFails
             PROVE  SetupInv'
  OBVIOUS
<1>1. pc = "substitute" /\ input' = input /\ now' = now /\ flags' = flags /\ token' = token
      /\ UNCHANGED <<runVars, queryVars>>
  BY DEF PrepareKpis, PrepareKpisFails, inputVars, prepVars
<1>2. ~Running /\ LoadedKpis = input.kpis /\ flags = FinalFlags
  BY <1>1, KpisLoaded
<1>3. CASE PrepareKpisFails
  BY <1>1, <1>2, <1>3, SetupTyped, FailStep DEF PrepareKpisFails, prepVars
<1>4. CASE PrepareKpis
  <2>1. spec' = [configFile |-> FALSE, kpis |-> FinalKpis, sections |-> spec.sections]
    BY <1>2, <1>4, SetupTyped DEF PrepareKpis, FinalKpis, Specs
  <2>2. spec' \in Specs
    <3>1. FinalKpis \in Seq(Kpi)
      BY <1>1, KpisLoaded, SubstitutedKpis DEF FinalKpis
    <3>2. spec.sections \in [OtherTasks -> Optional(Section)]
      BY SetupTyped DEF Specs
    <3>3. QED
      BY <2>1, <3>1, <3>2 DEF Specs
  <2>3. /\ cpus' \in Optional([reserved : Seq(Nat), isolated : Seq(Nat)])
        /\ HasPlaceholders(input.kpis) => input.kubeconfig
    BY <1>2, <1>4, SetupTyped, FetchedTyped DEF PrepareKpis, Optional
  <2> DEFINE fits == FinalFlags.once \/ \A i \in DOMAIN input.kpis :
                                          FrequencyFits(input.kpis[i], FinalFlags.frequency)
  <2>4. CASE ~fits
    <3>1. pc' = "failed"
      BY <1>2, <1>4, <2>4 DEF PrepareKpis, StepTo
    <3> HIDE DEF fits
    <3>2. QED
      BY <1>1, <1>2, <2>2, <2>3, <3>1, SetupTyped, FailStep
  <2>5. CASE fits
    <3>1. pc' = "isolcpus"
      BY <1>2, <1>4, <2>5 DEF PrepareKpis, StepTo
    <3>2. ~Running' /\ Prepared' /\ Settled'
      BY <3>1 DEF Running, Prepared, Settled
    <3>3. ChecksOK'
      BY <1>1, <3>1, <3>2, KpisLoaded, InputKept DEF ChecksOK
    <3>4. KpisOK'
      <4>1. \E t \in 0 .. now' : ValidKpis(input'.kpis, t)
        BY <1>1, KpisLoaded DEF SetupInv, KpisOK
      <4>2. FinalFlags'.once \/ \A i \in DOMAIN input'.kpis :
                                  FrequencyFits(input'.kpis[i], FinalFlags'.frequency)
        BY <1>1, <2>5, InputKept
      <4>3. HasPlaceholders(input'.kpis) => input'.kubeconfig
        BY <1>1, <2>3
      <4>4. QED
        BY <4>1, <4>2, <4>3 DEF KpisOK
    <3>5. FlagsOK'
      BY <1>1, <1>2, <3>1, <3>2, KpisLoaded, InputKept DEF FlagsOK, TokenLifetime
    <3>6. SpecOK'
      <4>1. SectionsDone'
        BY <1>1, <2>1, KpisLoaded, InputKept DEF SectionsDone
      <4>2. QED
        BY <1>1, <2>1, <3>1, <3>2, <4>1, InputKept DEF SpecOK
    <3> HIDE DEF fits
    <3>7. QED
      BY <1>1, <1>2, <2>2, <2>3, <3>1, <3>2, <3>3, <3>4, <3>5, <3>6, SetupTyped, GoOnStep
  <2>6. QED
    BY <2>4, <2>5
<1>5. QED
  BY <1>3, <1>4

LEMMA SetIsolcpusStep == SetupInv /\ (SetIsolcpus \/ SetIsolcpusFails) => SetupInv'
<1> SUFFICES ASSUME SetupInv, SetIsolcpus \/ SetIsolcpusFails
             PROVE  SetupInv'
  OBVIOUS
<1>1. pc = "isolcpus" /\ input' = input /\ now' = now /\ flags' = flags /\ token' = token
      /\ UNCHANGED <<runVars, queryVars>>
  BY DEF SetIsolcpus, SetIsolcpusFails, inputVars, prepVars
<1>2. ~Running /\ Prepared /\ Settled
  BY <1>1 DEF Running, Prepared, Settled
<1>3. CASE SetIsolcpusFails
  BY <1>1, <1>2, <1>3, SetupTyped, FailStep DEF SetIsolcpusFails, prepVars
<1>4. CASE SetIsolcpus
  <2>1. SectionsDone /\ input \in Inputs
    BY <1>2 DEF SetupInv, SpecOK, InputOK
  <2>2. /\ cpus' \in Optional([reserved : Seq(Nat), isolated : Seq(Nat)])
        /\ NeedsIsolcpus => cpus'.isolated \in Seq(Nat)
    <3>1. cpus \in [reserved : Seq(Nat), isolated : Seq(Nat)] \/ cpus = Absent
      BY SetupTyped DEF Optional
    <3>2. CASE NeedsIsolcpus /\ cpus = Absent
      BY <1>4, <3>2, FetchedTyped DEF SetIsolcpus, Optional
    <3>3. CASE ~(NeedsIsolcpus /\ cpus = Absent)
      BY <1>4, <3>1, <3>3 DEF SetIsolcpus, Optional
    <3>4. QED
      BY <3>2, <3>3
  <2>3. /\ spec' \in Specs /\ spec'.configFile = spec.configFile /\ spec'.kpis = spec.kpis
        /\ SectionsDone'
        /\ NeedsIsolcpus => spec'.sections["per-node-data"].fields.isolcpus = cpus'.isolated
        /\ ~NeedsIsolcpus => spec' = spec
    <3>1. CASE ~NeedsIsolcpus
      BY <1>1, <1>4, <2>1, <3>1, SetupTyped, InputKept DEF SetIsolcpus, SectionsDone
    <3>2. CASE NeedsIsolcpus
      <4> DEFINE old == spec.sections["per-node-data"]
                 new == [old EXCEPT !.fields.isolcpus = cpus'.isolated]
      <4>1. "per-node-data" \in Present \ {"prometheus"} /\ "per-node-data" \in OtherTasks
        BY <3>2 DEF NeedsIsolcpus, OtherTasks
      <4>2. old \in Section /\ old.configFile = Absent /\ ValidFields("per-node-data", old.fields)
        BY <2>1, <4>1 DEF SectionsDone
      <4>3. /\ new \in Section /\ new.configFile = Absent
            /\ new.fields.isolcpus = cpus'.isolated /\ ValidFields("per-node-data", new.fields)
        <5> HIDE DEF old
        <5>1. QED
          BY <2>2, <3>2, <4>2, IsolcpusAdded
      <4>4. spec' = [spec EXCEPT !.sections = [spec.sections EXCEPT !["per-node-data"] = new]]
        BY <1>4, <3>2 DEF SetIsolcpus
      <4> HIDE DEF new
      <4>5. /\ spec' \in Specs /\ spec'.configFile = spec.configFile /\ spec'.kpis = spec.kpis
            /\ spec'.sections["per-node-data"] = new
            /\ \A name \in OtherTasks \ {"per-node-data"} : spec'.sections[name] = spec.sections[name]
        <5>1. spec.sections \in [OtherTasks -> Optional(Section)]
          BY SetupTyped DEF Specs
        <5> DEFINE sections == [spec.sections EXCEPT !["per-node-data"] = new]
        <5>2. /\ sections \in [OtherTasks -> Optional(Section)] /\ sections["per-node-data"] = new
              /\ \A name \in OtherTasks \ {"per-node-data"} : sections[name] = spec.sections[name]
          BY <4>1, <4>3, <5>1 DEF Optional
        <5> HIDE DEF sections
        <5>3. spec' = [configFile |-> spec.configFile, kpis |-> spec.kpis, sections |-> sections]
          BY <4>4, SetupTyped DEF Specs, sections
        <5>4. QED
          BY <5>2, <5>3, SetupTyped DEF Specs
      <4>6. SectionsDone'
        <5>1. \A name \in Present \ {"prometheus"} : name \in OtherTasks
          BY <2>1, PresentTasks
        <5>2. QED
          BY <1>1, <2>1, <4>3, <4>5, <5>1, InputKept DEF SectionsDone
      <4>7. QED
        BY <3>2, <4>3, <4>5, <4>6
    <3>3. QED
      BY <3>1, <3>2
  <2>4. CASE NeedsIsolcpus /\ cpus'.isolated = <<>>
    BY <1>1, <1>2, <1>4, <2>2, <2>3, <2>4, SetupTyped, FailStep DEF SetIsolcpus, StepTo
  <2>5. CASE ~(NeedsIsolcpus /\ cpus'.isolated = <<>>)
    <3>1. pc' = "build"
      BY <1>4, <2>5 DEF SetIsolcpus, StepTo
    <3>2. ~Running' /\ Prepared' /\ Settled'
      BY <3>1 DEF Running, Prepared, Settled
    <3>3. ChecksOK'
      BY <1>1, <1>2, <3>1, <3>2, InputKept DEF SetupInv, ChecksOK
    <3>4. KpisOK'
      BY <1>1, <1>2, <3>1, <3>2, InputKept DEF SetupInv, KpisOK
    <3>5. FlagsOK'
      BY <1>1, <1>2, <3>1, <3>2, InputKept DEF SetupInv, FlagsOK, TokenLifetime
    <3>6. SpecOK'
      <4>1. "per-node-data" \in Present => PerNodeData'.isolcpus # <<>>
        BY <2>3, <2>5 DEF NeedsIsolcpus, PerNodeData
      <4>2. QED
        BY <1>1, <1>2, <2>3, <3>1, <3>2, <4>1, InputKept DEF SetupInv, SpecOK
    <3>7. QED
      BY <1>1, <1>2, <2>2, <2>3, <3>1, <3>2, <3>3, <3>4, <3>5, <3>6, SetupTyped, GoOnStep
  <2>6. QED
    BY <2>4, <2>5
<1>5. QED
  BY <1>3, <1>4

-----------------------------------------------------------------------------
(***************************************************************************)
(* The tasks.                                                              *)
(***************************************************************************)

\* An order that was accepted, or the one by default, has each task once.
LEMMA OrderComplete ==
  ASSUME input \in Inputs, input.tasksFile => ValidTasksSpec(Decoded)
  PROVE  Order \in Seq(TaskNames) /\ Elements(Order) = Present /\ Distinct(Order)
<1>1. Present \in SUBSET TaskNames
  BY PresentTasks
<1>2. CASE input.tasksFile /\ input.order # <<>>
  <2> DEFINE order == input.order
  <2>1. Order = order /\ order # <<>> /\ ValidOrder(order, Present)
    BY <1>2 DEF Order, ValidTasksSpec
  <2>2. order \in Seq(STRING)
    BY InputTyped
  <2> HIDE DEF order
  <2>3. /\ \A i \in DOMAIN order : order[i] \in Present
        /\ \A i, j \in DOMAIN order : order[i] = order[j] => i = j
        /\ \A name \in Present : \E i \in DOMAIN order : order[i] = name
    BY <2>1 DEF ValidOrder
  <2>4. order \in Seq(TaskNames)
    BY <1>1, <2>2, <2>3
  <2>5. QED
    BY <2>1, <2>3, <2>4 DEF Elements, Distinct
<1>3. CASE ~(input.tasksFile /\ input.order # <<>>)
  BY <1>1, <1>3, DefaultOrderComplete DEF Order
<1>4. QED
  BY <1>2, <1>3

\* A step while the tasks run
LEMMA TasksStep ==
  ASSUME SetupInv, Running, pc' \in {"tasks", "once", "collect", "done"}, input' = input,
         now' \in Nat, now <= now', UNCHANGED prepVars, job' = job, tasks' = tasks,
         pos' \in 0 .. Len(tasks),
         pc' \in {"once", "collect"} => pos' < Len(tasks) /\ tasks[pos' + 1] = "prometheus",
         timerAt' \in Optional(Nat), asked' \in [DOMAIN input.kpis -> Optional(Moment)],
         AskedOK', GroupsOK', WindowsForward'
  PROVE  SetupInv'
<1>1. Running'
  BY DEF Running
<1>2. ChecksOK' /\ KpisOK' /\ FlagsOK' /\ SpecOK'
  BY <1>1, RunStep
<1>3. TypeOK'
  BY DEF SetupInv, TypeOK, GroupsOK, GroupsTyped, prepVars
<1>4. InputOK'
  BY DEF SetupInv, InputOK, prepVars
<1>5. TasksOK'
  BY <1>1, InputKept DEF SetupInv, TasksOK, FinalJob, prepVars
<1>6. QED
  BY <1>2, <1>3, <1>4, <1>5 DEF SetupInv

LEMMA TasksTyped ==
  ASSUME SetupInv
  PROVE  /\ tasks \in Seq(TaskNames) /\ pos \in 0 .. Len(tasks) /\ Len(tasks) \in Nat
         /\ pos \in Nat /\ timerAt \in Optional(Nat)
         /\ asked \in [DOMAIN input.kpis -> Optional(Moment)]
<1>1. tasks \in Seq(TaskNames) /\ pos \in 0 .. Len(tasks) /\ timerAt \in Optional(Nat)
      /\ asked \in [DOMAIN input.kpis -> Optional(Moment)]
  BY DEF SetupInv, TypeOK, InputOK
<1>2. Len(tasks) \in Nat
  BY <1>1
<1>3. QED
  BY <1>1, <1>2

LEMMA BuildStep == SetupInv /\ (BuildTasks \/ PreflightFails) => SetupInv'
<1> SUFFICES ASSUME SetupInv, BuildTasks \/ PreflightFails
             PROVE  SetupInv'
  OBVIOUS
<1>1. pc = "build" /\ input' = input /\ now' = now /\ UNCHANGED <<prepVars, pos, queryVars>>
  BY DEF BuildTasks, PreflightFails, inputVars, runVars
<1>2. flags' = flags /\ token' = token /\ spec' = spec /\ cpus' = cpus
  BY <1>1 DEF prepVars
<1>3. ~Running /\ Prepared /\ Settled
  BY <1>1 DEF Running, Prepared, Settled
<1>4. /\ job = Absent /\ tasks = <<>> /\ pos = 0 /\ timerAt = Absent
      /\ \A i \in DOMAIN asked : asked[i] = Absent
  BY <1>3 DEF SetupInv, TasksOK, AskedOK
<1>5. CASE PreflightFails \/ ~Buildable
  <2>1. pc' = "failed" /\ job' = job /\ tasks' = tasks
    BY <1>1, <1>4, <1>5 DEF PreflightFails, BuildTasks, StepTo, runVars
  <2>2. QED
    BY <1>1, <1>2, <1>3, <2>1, SetupTyped, FailStep DEF runVars
<1>6. CASE BuildTasks /\ Buildable
  <2>1. /\ pc' = "tasks" /\ tasks' = Order /\ pos' = 0
        /\ job' = IF "prometheus" \in Present
                  THEN [flags |-> flags, kpis |-> LoadedKpis, token |-> token] ELSE Absent
    BY <1>1, <1>4, <1>6 DEF BuildTasks, StepTo
  <2>2. Running'
    BY <2>1 DEF Running
  <2>3. input \in Inputs /\ (input.tasksFile => ValidTasksSpec(Decoded)) /\ now \in Nat
    BY <1>1 DEF SetupInv, InputOK, TypeOK, ChecksOK
  <2>4. ChecksOK' /\ KpisOK' /\ FlagsOK' /\ SpecOK'
    BY <1>1, <2>2, <2>3, RunStep
  <2>5. tasks' \in Seq(TaskNames) /\ Elements(tasks') = Present /\ Distinct(tasks')
    BY <2>1, <2>3, OrderComplete
  <2>6. TypeOK'
    <3>1. pos' \in 0 .. Len(tasks')
      BY <2>1, <2>5
    <3>2. QED
      BY <1>1, <1>2, <2>1, <3>1 DEF SetupInv, TypeOK, queryVars
  <2>7. InputOK'
    BY <1>1, <1>2, <2>5 DEF SetupInv, InputOK
  <2>8. TasksOK'
    <3>1. "prometheus" \in Present => job' = FinalJob
      <4> SUFFICES ASSUME "prometheus" \in Present
                   PROVE  job' = FinalJob
        OBVIOUS
      <4>1. flags = FinalFlags /\ LoadedKpis = FinalKpis
        BY <1>3 DEF SetupInv, FlagsOK, SpecOK, LoadedKpis
      <4>2. QED
        BY <2>1, <4>1 DEF FinalJob
    <3>2. FinalJob' = FinalJob
      BY <1>1, <1>2, InputKept DEF FinalJob
    <3>3. Present # {"prometheus"} => input.kubeconfig
      BY <1>6 DEF Buildable
    <3>4. QED
      BY <1>1, <2>1, <2>2, <2>5, <3>1, <3>2, <3>3, InputKept DEF TasksOK
  <2>9. AskedOK' /\ WindowsForward'
    BY <1>1, <1>4, <2>1, <2>2 DEF AskedOK, WindowsForward, queryVars
  <2>10. GroupsOK'
    BY <1>1, <2>1 DEF SetupInv, GroupsOK, GroupsTyped, queryVars
  <2>11. QED
    BY <2>4, <2>6, <2>7, <2>8, <2>9, <2>10 DEF SetupInv
<1>7. QED
  BY <1>5, <1>6

\* Without a query AskedOK only depends on the place of the command.
LEMMA NothingAsked ==
  ASSUME SetupInv, input' = input, now' = now, job' = job, timerAt' = timerAt, asked' = asked
  PROVE  /\ WindowsForward'
         /\ Repeating' = Repeating
         /\ timerAt' # Absent => "prometheus" \in Present'
         /\ \A i \in DOMAIN asked' :
              asked'[i] # Absent =>
                /\ asked'[i].at <= now'
                /\ input'.kpis[i].range # Absent =>
                     asked'[i].window = Window(input'.kpis[i].range, asked'[i].at)
<1>1. Repeating' = Repeating
  BY DEF Repeating, RunOnce
<1>2. QED
  BY <1>1, InputKept DEF SetupInv, AskedOK, WindowsForward

\* There are groups only in the collection loop.
LEMMA NoGroups ==
  ASSUME SetupInv, pc # "collect", pc' # "collect", groups' = groups
  PROVE  GroupsOK'
BY DEF SetupInv, GroupsOK, GroupsTyped

LEMMA OtherTaskStep == SetupInv /\ OtherTaskEnds => SetupInv'
<1> SUFFICES ASSUME SetupInv, OtherTaskEnds
             PROVE  SetupInv'
  OBVIOUS
<1>1. /\ pc = "tasks" /\ pos < Len(tasks) /\ pos' = pos + 1 /\ pc' = "tasks" /\ input' = input
      /\ now' = now /\ job' = job /\ tasks' = tasks /\ UNCHANGED <<prepVars, queryVars>>
  BY DEF OtherTaskEnds, inputVars
<1>2. Running /\ Running' /\ now \in Nat
  BY <1>1, SetupTyped DEF Running
<1>3. pos' \in 0 .. Len(tasks) /\ pos' + 1 .. Len(tasks) \subseteq pos + 1 .. Len(tasks)
  BY <1>1, TasksTyped
<1>4. AskedOK'
  <2>1. (\E k \in pos' + 1 .. Len(tasks) : tasks[k] = "prometheus") =>
          timerAt = Absent /\ \A i \in DOMAIN asked : asked[i] = Absent
    BY <1>1, <1>2, <1>3 DEF SetupInv, AskedOK
  <2>2. QED
    BY <1>1, <1>2, <2>1, NothingAsked DEF AskedOK, queryVars, Running
<1>5. QED
  BY <1>1, <1>2, <1>3, <1>4, TasksTyped, NothingAsked, NoGroups, TasksStep DEF queryVars

LEMMA CollectionStartsStep == SetupInv /\ CollectionStarts => SetupInv'
<1> SUFFICES ASSUME SetupInv, CollectionStarts
             PROVE  SetupInv'
  OBVIOUS
<1>1. /\ pc = "tasks" /\ pos < Len(tasks) /\ tasks[pos + 1] = "prometheus"
      /\ pc' = "once" /\ input' = input /\ now' = now /\ pos' = pos /\ job' = job
      /\ tasks' = tasks /\ UNCHANGED <<prepVars, queryVars>>
  BY DEF CollectionStarts, inputVars, runVars
<1>2. Running /\ Running' /\ now \in Nat
  BY <1>1, SetupTyped DEF Running
<1>3. timerAt = Absent /\ \A i \in DOMAIN asked : asked[i] = Absent
  <2>1. pos + 1 \in pos + 1 .. Len(tasks)
    BY <1>1, TasksTyped
  <2>2. QED
    BY <1>1, <2>1 DEF SetupInv, AskedOK
<1>4. "prometheus" \in Present
  <2>1. pos + 1 \in DOMAIN tasks
    BY <1>1, TasksTyped
  <2>2. QED
    BY <1>1, <1>2, <2>1 DEF SetupInv, TasksOK, Elements
<1>5. Repeating' \subseteq DOMAIN asked
  <2>1. job = FinalJob /\ DOMAIN asked = DOMAIN input.kpis
    BY <1>2, <1>4, TasksTyped DEF SetupInv, TasksOK
  <2>2. DOMAIN job.kpis = DOMAIN input.kpis
    BY <2>1, SetupTyped, InputTyped, SubstitutedKpis DEF FinalJob, FinalKpis
  <2>3. QED
    BY <1>1, <2>1, <2>2 DEF Repeating
<1>6. AskedOK'
  BY <1>1, <1>2, <1>3, <1>5, NothingAsked DEF AskedOK, queryVars
<1>7. QED
  BY <1>1, <1>2, <1>6, TasksTyped, NothingAsked, NoGroups, TasksStep DEF queryVars

LEMMA RunEndsStep == SetupInv /\ RunEnds => SetupInv'
<1> SUFFICES ASSUME SetupInv, RunEnds
             PROVE  SetupInv'
  OBVIOUS
<1>1. /\ pc = "tasks" /\ pc' = "done" /\ input' = input /\ now' = now /\ pos' = pos
      /\ job' = job /\ tasks' = tasks /\ UNCHANGED <<prepVars, queryVars>>
  BY DEF RunEnds, inputVars, runVars
<1>2. Running /\ Running' /\ now \in Nat
  BY <1>1, SetupTyped DEF Running
<1>3. AskedOK'
  BY <1>1, <1>2, NothingAsked DEF AskedOK, queryVars
<1>4. QED
  BY <1>1, <1>2, <1>3, TasksTyped, NothingAsked, NoGroups, TasksStep DEF queryVars

-----------------------------------------------------------------------------
(***************************************************************************)
(* The collection.                                                         *)
(***************************************************************************)

\* A valid range gives a window at any later time, and if it is steady one that
\* does not end before it starts.
LEMMA WindowLater ==
  ASSUME NEW kpi \in Kpi, NEW t \in Int, NEW time \in Int, t <= time,
         ValidKpi(kpi, t), kpi.range # Absent
  PROVE  /\ Window(kpi.range, time) \in [since : Int, until : Int]
         /\ Steady(kpi.range) => Window(kpi.range, time).since < Window(kpi.range, time).until
<1> DEFINE range == kpi.range
           since == range.since
           until == range.until
<1>1. ValidRangeWindow(range, t)
  BY DEF ValidKpi, ValidQueryType
<1>2. range.since \in Optional(TimeRef) /\ range.until \in Optional(TimeRef)
  BY DEF Kpi, Optional
<1>3. since # Absent /\ PositiveRef(since)
      /\ (until # Absent => PositiveRef(until) /\ Resolve(since, t) < Resolve(until, t))
  BY <1>1 DEF ValidRangeWindow
<1>4. since \in TimeRef /\ (until # Absent => until \in TimeRef)
  BY <1>2, <1>3 DEF Optional
<1>5. Window(range, time) =
        [since |-> Resolve(since, time), until |-> IF until = Absent THEN time ELSE Resolve(until, time)]
  BY DEF Window
<1>6. Steady(range) <=> IF until = Absent THEN since.isDuration
                        ELSE since.isDuration => until.isDuration
  BY DEF Steady
<1> HIDE DEF since, until, range
<1>7. /\ since.isDuration \in BOOLEAN /\ since.value \in Int
      /\ until # Absent => until.isDuration \in BOOLEAN /\ until.value \in Int
  BY <1>4 DEF TimeRef
<1>8. Resolve(since, time) \in Int /\ (until # Absent => Resolve(until, time) \in Int)
  BY <1>7 DEF Resolve
<1>9. CASE until = Absent
  BY <1>3, <1>5, <1>6, <1>7, <1>8, <1>9 DEF Resolve, PositiveRef, range
<1>10. CASE until # Absent
  BY <1>3, <1>5, <1>6, <1>7, <1>8, <1>10 DEF Resolve, PositiveRef, range
<1>11. QED
  BY <1>9, <1>10

LEMMA JobKnown ==
  ASSUME SetupInv, Running, "prometheus" \in Present
  PROVE  /\ job = FinalJob /\ job.flags = FinalFlags /\ job.kpis = FinalKpis
         /\ DOMAIN job.kpis = DOMAIN input.kpis /\ DOMAIN asked = DOMAIN input.kpis
         /\ \A i \in DOMAIN input.kpis :
              /\ input.kpis[i] \in Kpi
              /\ job.kpis[i].range = input.kpis[i].range
              /\ job.kpis[i].frequency = input.kpis[i].frequency
              /\ job.kpis[i].queryType = input.kpis[i].queryType
         /\ FinalFlags \in Settings /\ FinalFlags.frequency \in Nat \ {0}
         /\ FinalFlags.duration \in Nat \ {0}
         /\ \E t \in 0 .. now : ValidKpis(input.kpis, t)
<1>1. input \in Inputs /\ input.kpis \in Seq(Kpi) /\ FinalFlags \in Settings
  BY SetupTyped, InputTyped, FlagsTyped
<1>2. job = FinalJob /\ job.flags = FinalFlags /\ job.kpis = FinalKpis
  BY DEF SetupInv, TasksOK, FinalJob
<1>3. \A i \in DOMAIN input.kpis : input.kpis[i] \in Kpi
  BY <1>1
<1>4. /\ DOMAIN job.kpis = DOMAIN input.kpis
      /\ \A i \in DOMAIN input.kpis :
           /\ job.kpis[i].range = input.kpis[i].range
           /\ job.kpis[i].frequency = input.kpis[i].frequency
           /\ job.kpis[i].queryType = input.kpis[i].queryType
  BY <1>1, <1>2, SubstitutedKpis DEF FinalKpis
<1>5. ValidSettings(FinalFlags) /\ \E t \in 0 .. now : ValidKpis(input.kpis, t)
  BY DEF SetupInv, ChecksOK, KpisOK, Settled, Prepared
<1>6. FinalFlags.frequency \in Nat \ {0} /\ FinalFlags.duration \in Nat \ {0}
  BY <1>1, <1>5 DEF ValidSettings, Settings
<1>7. DOMAIN asked = DOMAIN input.kpis
  BY TasksTyped
<1>8. QED
  BY <1>1, <1>2, <1>3, <1>4, <1>5, <1>6, <1>7

LEMMA CollectionOfPrometheus ==
  ASSUME SetupInv, pc \in {"once", "collect"}
  PROVE  /\ Running /\ "prometheus" \in Present
         /\ pos < Len(tasks) /\ tasks[pos + 1] = "prometheus"
<1>1. Running /\ pos < Len(tasks) /\ tasks[pos + 1] = "prometheus"
  BY DEF SetupInv, TasksOK, Running
<1>2. pos + 1 \in DOMAIN tasks
  BY <1>1, TasksTyped
<1>3. QED
  BY <1>1, <1>2 DEF SetupInv, TasksOK, Elements

LEMMA FrequencyPositive ==
  ASSUME SetupInv, Running, "prometheus" \in Present, NEW i \in DOMAIN input.kpis
  PROVE  Frequency(i) \in Nat \ {0}
<1>1. /\ job.kpis[i].frequency \in Optional(Int) /\ job.flags.frequency \in Nat \ {0}
  BY JobKnown DEF Kpi
<1>2. QED
  BY <1>1 DEF Frequency, EffectiveFrequency, Optional

\* What is written down of a query
LEMMA QueryMade ==
  ASSUME SetupInv, Running, "prometheus" \in Present, NEW i \in DOMAIN input.kpis,
         NEW time \in Nat, now <= time
  PROVE  /\ Query(i, time) \in Moment /\ Query(i, time) # Absent /\ Query(i, time).at = time
         /\ input.kpis[i].range # Absent =>
              /\ Query(i, time).window = Window(input.kpis[i].range, time)
              /\ Steady(input.kpis[i].range) =>
                   Query(i, time).window.since < Query(i, time).window.until
<1> DEFINE range == input.kpis[i].range
<1>1. Query(i, time) = [at |-> time, window |-> IF range = Absent THEN Absent ELSE Window(range, time)]
  BY JobKnown DEF Query
<1>2. PICK t \in 0 .. now : ValidKpis(input.kpis, t)
  BY JobKnown
<1>3. ValidKpi(input.kpis[i], t) /\ t \in Int /\ time \in Int /\ t <= time
      /\ input.kpis[i] \in Kpi
  BY <1>2, JobKnown, SetupTyped DEF ValidKpis
<1>4. range # Absent => /\ Window(range, time) \in [since : Int, until : Int]
                        /\ Steady(range) => Window(range, time).since < Window(range, time).until
  BY <1>3, WindowLater
<1> HIDE DEF range
<1>5. Query(i, time) \in Moment
  BY <1>1, <1>4 DEF Moment, Optional
<1>6. Query(i, time) # Absent
  BY <1>5, AbsentAssumption
<1>7. QED
  BY <1>1, <1>4, <1>5, <1>6 DEF range

\* Queries made now are as sound as those before.
Queried(others, time) ==
  [i \in DOMAIN asked |-> IF i \in others THEN Query(i, time) ELSE asked[i]]

LEMMA AskedSound ==
  ASSUME SetupInv, Running, "prometheus" \in Present, input' = input, now' \in Nat, now <= now',
         NEW others, asked' = Queried(others, now')
  PROVE  /\ asked' \in [DOMAIN input.kpis -> Optional(Moment)]
         /\ WindowsForward'
         /\ \A i \in DOMAIN asked' :
              asked'[i] # Absent =>
                /\ asked'[i].at <= now'
                /\ input'.kpis[i].range # Absent =>
                     asked'[i].window = Window(input'.kpis[i].range, asked'[i].at)
<1>1. /\ DOMAIN asked = DOMAIN input.kpis /\ DOMAIN asked' = DOMAIN input.kpis
      /\ asked' = [i \in DOMAIN asked |-> IF i \in others THEN Query(i, now') ELSE asked[i]]
      /\ \A i \in DOMAIN asked : asked[i] \in Moment \cup {Absent}
  BY TasksTyped DEF Optional, Queried
<1>2. ASSUME NEW i \in DOMAIN input.kpis
      PROVE  /\ asked'[i] \in Moment \cup {Absent}
             /\ asked'[i] # Absent =>
                  /\ asked'[i].at <= now'
                  /\ input.kpis[i].range # Absent =>
                       /\ asked'[i].window = Window(input.kpis[i].range, asked'[i].at)
                       /\ Steady(input.kpis[i].range) =>
                            asked'[i].window.since < asked'[i].window.until
  <2>1. CASE i \in others
    <3> DEFINE q == Query(i, now')
    <3>1. asked'[i] = q
      BY <1>1, <2>1
    <3>2. /\ q \in Moment /\ q # Absent /\ q.at = now'
          /\ input.kpis[i].range # Absent =>
               /\ q.window = Window(input.kpis[i].range, now')
               /\ Steady(input.kpis[i].range) => q.window.since < q.window.until
      BY QueryMade
    <3> HIDE DEF q
    <3>3. QED
      BY <3>1, <3>2
  <2>2. CASE i \notin others
    <3>1. asked'[i] = asked[i]
      BY <1>1, <2>2
    <3>2. asked[i] # Absent => asked[i].at \in Nat /\ asked[i].at <= now /\ now \in Nat
      BY <1>1, SetupTyped DEF SetupInv, AskedOK, Moment
    <3>3. asked[i] # Absent /\ input.kpis[i].range # Absent =>
            /\ asked[i].window = Window(input.kpis[i].range, asked[i].at)
            /\ Steady(input.kpis[i].range) => asked[i].window.since < asked[i].window.until
      BY <1>1 DEF SetupInv, AskedOK, WindowsForward
    <3>4. QED
      BY <1>1, <3>1, <3>2, <3>3
  <2>3. QED
    BY <2>1, <2>2
<1>3. asked' \in [DOMAIN input.kpis -> Optional(Moment)]
  <2> DEFINE after == asked'
  <2>1. after = [i \in DOMAIN input.kpis |-> after[i]]
    BY <1>1
  <2> HIDE DEF after
  <2>2. \A i \in DOMAIN input.kpis : after[i] \in Optional(Moment)
    BY <1>2 DEF Optional, after
  <2>3. after \in [DOMAIN input.kpis -> Optional(Moment)]
    BY <2>1, <2>2
  <2>4. QED
    BY <2>3 DEF after
<1>4. QED
  BY <1>1, <1>2, <1>3 DEF WindowsForward

LEMMA QueryOnceStep == \A i \in DOMAIN asked : SetupInv /\ QueryOnce(i) => SetupInv'
<1> SUFFICES ASSUME NEW i \in DOMAIN asked, SetupInv, QueryOnce(i)
             PROVE  SetupInv'
  OBVIOUS
<1>1. /\ pc = "once" /\ pc' = "once" /\ input' = input /\ now' = now /\ pos' = pos
      /\ job' = job /\ tasks' = tasks /\ UNCHANGED prepVars /\ timerAt' = timerAt
      /\ groups' = groups /\ i \in RunOnce /\ asked' = [asked EXCEPT ![i] = Query(i, now)]
  BY DEF QueryOnce, inputVars, runVars
<1>2. Running /\ Running' /\ now \in Nat /\ "prometheus" \in Present
      /\ pos < Len(tasks) /\ tasks[pos + 1] = "prometheus"
  BY <1>1, CollectionOfPrometheus, SetupTyped DEF Running
<1>3. asked' = Queried({i}, now')
  BY <1>1, TasksTyped DEF Queried
<1>4. timerAt' = Absent /\ \A k \in Repeating' : asked'[k] = Absent
  <2>1. timerAt = Absent /\ \A k \in Repeating : asked[k] = Absent
    BY <1>1 DEF SetupInv, AskedOK
  <2>2. Repeating' = Repeating /\ i \notin Repeating
    BY <1>1 DEF Repeating, RunOnce
  <2>3. DOMAIN asked = DOMAIN job.kpis
    BY <1>2, JobKnown
  <2>4. \A k \in Repeating : k \in DOMAIN asked /\ k # i
    BY <2>2, <2>3 DEF Repeating
  <2>5. QED
    BY <1>1, <2>1, <2>2, <2>4
<1>5. /\ asked' \in [DOMAIN input.kpis -> Optional(Moment)]
      /\ WindowsForward'
      /\ \A k \in DOMAIN asked' :
           asked'[k] # Absent =>
             /\ asked'[k].at <= now'
             /\ input'.kpis[k].range # Absent =>
                  asked'[k].window = Window(input'.kpis[k].range, asked'[k].at)
  <2>1. input' = input /\ now' \in Nat /\ now <= now'
    BY <1>1, <1>2
  <2>2. QED
    BY <1>2, <1>3, <2>1, AskedSound
<1>6. AskedOK'
  BY <1>1, <1>2, <1>4, <1>5 DEF AskedOK
<1>7. QED
  BY <1>1, <1>2, <1>5, <1>6, NoGroups, TasksTyped, TasksStep

\* What the loop of a group makes of its state, step by step
LEMMA GroupStarts ==
  ASSUME NEW f \in Nat \ {0}, NEW time \in Nat, NEW M \in SUBSET Nat, NEW i \in M,
         NEW g, g = [next |-> time + f, tick |-> Absent, due |-> time, left |-> M]
  PROVE  g \in Group /\ OnTrack(g, f, i, Absent, time)
BY DEF Group, OnTrack, Optional

LEMMA GroupAsks ==
  ASSUME NEW f \in Nat \ {0}, NEW time \in Nat, NEW g \in Group, NEW i, NEW last,
         OnTrack(g, f, i, last, time), NEW q \in Moment, q # Absent, q.at = time,
         NEW h, h = [g EXCEPT !.left = g.left \ {i}]
  PROVE  OnTrack(h, f, i, q, time)
<1>1. h.next = g.next /\ h.tick = g.tick /\ i \notin h.left
  BY DEF Group
<1>2. Coming(h) = Coming(g) /\ Coming(g) <= time + f
  BY <1>1 DEF Group, Optional, OnTrack, Coming
<1>3. QED
  BY <1>1, <1>2 DEF OnTrack

LEMMA GroupGoesOn ==
  ASSUME NEW f, NEW time, NEW g \in Group, NEW i, NEW j, i # j, NEW last,
         OnTrack(g, f, j, last, time), NEW h, h = [g EXCEPT !.left = g.left \ {i}]
  PROVE  OnTrack(h, f, j, last, time)
BY DEF Group, OnTrack, Coming

LEMMA GroupTakes ==
  ASSUME NEW f, NEW time, NEW g \in Group, NEW M, NEW i \in M, NEW last,
         g.left = {}, g.tick # Absent, OnTrack(g, f, i, last, time),
         NEW h, h = [g EXCEPT !.due = g.tick, !.tick = Absent, !.left = M]
  PROVE  OnTrack(h, f, i, last, time)
<1>1. h.next = g.next /\ h.tick = Absent /\ h.due = g.tick /\ h.left = M
  BY DEF Group
<1>2. QED
  BY <1>1 DEF OnTrack, Coming

\* A tick that is dropped, or put in the channel, changes nothing of what comes next.
LEMMA GroupTicks ==
  ASSUME NEW f \in Nat \ {0}, NEW time \in Nat, NEW g \in Group, NEW i, NEW last,
         OnTrack(g, f, i, last, time)
  PROVE  Fired(g, f, time + 1) \in Group /\ OnTrack(Fired(g, f, time + 1), f, i, last, time + 1)
<1> DEFINE h == Fired(g, f, time + 1)
<1>1. /\ g.next \in Int /\ g.tick \in Optional(Int) /\ g.due \in Int /\ g.left \in SUBSET Nat
      /\ time < g.next /\ g.next <= time + f /\ (g.tick # Absent => g.tick <= time)
  BY DEF Group, OnTrack
<1>2. CASE time + 1 # g.next
  <2>1. h = g
    BY <1>2 DEF Fired
  <2>2. time + 1 < g.next /\ g.next <= (time + 1) + f /\ (g.tick # Absent => g.tick <= time + 1)
    BY <1>1, <1>2 DEF Optional
  <2> HIDE DEF h
  <2>3. h \in Group /\ OnTrack(h, f, i, last, time + 1)
    BY <2>1, <2>2 DEF OnTrack
  <2>4. QED
    BY <2>3 DEF h
<1>3. CASE time + 1 = g.next
  <2>1. /\ h.next = g.next + f /\ h.due = g.due /\ h.left = g.left
        /\ h.tick = IF g.tick = Absent THEN time + 1 ELSE g.tick
        /\ h \in Group
    <3> DEFINE tick == IF g.tick = Absent THEN time + 1 ELSE g.tick
    <3>1. h = [g EXCEPT !.next = @ + f, !.tick = tick]
      BY <1>3 DEF Fired
    <3>2. tick \in Optional(Int) /\ g.next + f \in Int
      BY <1>1 DEF Optional
    <3> HIDE DEF tick, h
    <3>3. h.next = g.next + f /\ h.due = g.due /\ h.left = g.left /\ h.tick = tick /\ h \in Group
      BY <1>1, <3>1, <3>2 DEF Group
    <3>4. QED
      BY <3>3 DEF tick
  <2>2. time + 1 # Absent
    BY AbsentAssumption
  <2> HIDE DEF h
  <2>3. Coming(h) = Coming(g)
    BY <1>3, <2>1, <2>2 DEF Coming
  <2>4. /\ time + 1 < h.next /\ h.next <= (time + 1) + f
        /\ h.tick # Absent => h.tick <= time + 1
    BY <1>1, <1>3, <2>1 DEF Optional
  <2>5. OnTrack(h, f, i, last, time + 1)
    BY <2>1, <2>3, <2>4 DEF OnTrack
  <2>6. QED
    BY <2>1, <2>5 DEF h
<1>4. QED
  BY <1>2, <1>3

\* The groups of the repeating KPIs, while the loop runs and before it
LEMMA Grouped ==
  ASSUME SetupInv, pc \in {"once", "collect"}
  PROVE  /\ Running /\ "prometheus" \in Present /\ now \in Nat
         /\ pos < Len(tasks) /\ tasks[pos + 1] = "prometheus"
         /\ Repeating \subseteq DOMAIN input.kpis /\ DOMAIN asked = DOMAIN input.kpis
         /\ \A i \in Repeating : i \in Nat /\ Frequency(i) \in Nat \ {0}
         /\ Frequencies \subseteq Nat \ {0}
         /\ \A f \in Frequencies : Members(f) \in SUBSET Nat
<1>1. Running /\ "prometheus" \in Present /\ now \in Nat
      /\ pos < Len(tasks) /\ tasks[pos + 1] = "prometheus"
  BY CollectionOfPrometheus, SetupTyped
<1>2. Repeating \subseteq DOMAIN input.kpis /\ DOMAIN asked = DOMAIN input.kpis
  BY <1>1, JobKnown DEF Repeating
<1>3. DOMAIN input.kpis \subseteq Nat
  <2>1. input.kpis \in Seq(Kpi)
    BY SetupTyped, InputTyped
  <2>2. QED
    BY <2>1
<1>4. \A i \in Repeating : i \in Nat /\ Frequency(i) \in Nat \ {0}
  BY <1>1, <1>2, <1>3, FrequencyPositive
<1>5. QED
  BY <1>1, <1>2, <1>4 DEF Frequencies, Members

\* The KPIs and their frequencies are those of the job.
LEMMA JobKept ==
  ASSUME job' = job
  PROVE  /\ Repeating' = Repeating /\ Frequencies' = Frequencies
         /\ \A i : Frequency(i)' = Frequency(i)
<1>1. Repeating' = Repeating
  BY DEF Repeating, RunOnce
<1>2. \A i : Frequency(i)' = Frequency(i)
  BY DEF Frequency
<1>3. QED
  BY <1>1, <1>2 DEF Frequencies

LEMMA StartTimerStep == SetupInv /\ StartTimer => SetupInv'
<1> SUFFICES ASSUME SetupInv, StartTimer
             PROVE  SetupInv'
  OBVIOUS
<1>1. /\ pc = "once" /\ pc' = "collect" /\ input' = input /\ now' = now /\ pos' = pos
      /\ job' = job /\ tasks' = tasks /\ UNCHANGED prepVars /\ timerAt' = now /\ asked' = asked
      /\ groups' = [f \in Frequencies |->
           [next |-> now + f, tick |-> Absent, due |-> now, left |-> Members(f)]]
  BY DEF StartTimer, inputVars, runVars
<1>2. Running' /\ now \in Nat /\ "prometheus" \in Present'
  BY <1>1, Grouped, InputKept DEF Running
<1>3. AskedOK' /\ WindowsForward'
  BY <1>1, <1>2, JobKept DEF SetupInv, AskedOK, WindowsForward, Running
<1>4. ASSUME NEW f \in Frequencies, NEW i \in Members(f)
      PROVE  groups'[f] \in Group /\ OnTrack(groups'[f], f, i, Absent, now)
  BY <1>1, <1>4, Grouped, GroupStarts
<1>5. GroupsOK'
  <2>1. \A i \in Repeating : asked'[i] = Absent /\ Frequency(i) \in Frequencies
                             /\ i \in Members(Frequency(i))
    BY <1>1 DEF SetupInv, AskedOK, Frequencies, Members
  <2>2. \A f \in Frequencies : groups'[f] \in Group
    BY <1>4 DEF Frequencies, Members
  <2>3. DOMAIN groups' = Frequencies /\ Frequencies \subseteq Nat \ {0}
    BY <1>1, Grouped
  <2>4. \A i \in Repeating : OnTrack(groups'[Frequency(i)], Frequency(i), i, asked'[i], now')
    BY <1>1, <1>4, <2>1
  <2>5. QED
    BY <1>1, <2>2, <2>3, <2>4, JobKept DEF GroupsOK, GroupsTyped
<1>6. QED
  BY <1>1, <1>2, <1>3, <1>5, Grouped, TasksTyped, TasksStep DEF Optional

\* What QueryDue(i) does, and what holds before it
LEMMA DueQuery ==
  ASSUME SetupInv, NEW i \in DOMAIN asked, QueryDue(i)
  PROVE  /\ pc = "collect" /\ i \in Repeating /\ i \in DOMAIN input.kpis
         /\ asked' = Queried({i}, now)
         /\ Frequency(i) \in Frequencies /\ Frequency(i) \in Nat \ {0}
         /\ groups[Frequency(i)] \in Group /\ i \in groups[Frequency(i)].left
         /\ OnTrack(groups[Frequency(i)], Frequency(i), i, asked[i], now)
<1>1. pc = "collect" /\ i \in Repeating /\ i \in groups[Frequency(i)].left
  BY DEF QueryDue
<1>2. asked' = Queried({i}, now)
  BY TasksTyped DEF QueryDue, Queried
<1>3. Frequency(i) \in Frequencies
  BY <1>1 DEF Frequencies
<1>4. QED
  BY <1>1, <1>2, <1>3, Grouped DEF SetupInv, GroupsOK, GroupsTyped

LEMMA QueryDueStep == \A i \in DOMAIN asked : SetupInv /\ QueryDue(i) => SetupInv'
<1> SUFFICES ASSUME NEW i \in DOMAIN asked, SetupInv, QueryDue(i)
             PROVE  SetupInv'
  OBVIOUS
<1> DEFINE f == Frequency(i)
           g == groups[f]
           h == [g EXCEPT !.left = g.left \ {i}]
<1>1. /\ pc = "collect" /\ pc' = "collect" /\ input' = input /\ now' = now /\ pos' = pos
      /\ job' = job /\ tasks' = tasks /\ UNCHANGED prepVars /\ timerAt' = timerAt
      /\ groups' = [groups EXCEPT ![f] = h]
  BY DEF QueryDue, inputVars, runVars
<1>2. /\ i \in Repeating /\ i \in DOMAIN input.kpis /\ asked' = Queried({i}, now)
      /\ f \in Frequencies /\ f \in Nat \ {0} /\ g \in Group /\ OnTrack(g, f, i, asked[i], now)
  BY DueQuery
<1>3. Running' /\ Running /\ now \in Nat /\ "prometheus" \in Present
      /\ pos < Len(tasks) /\ tasks[pos + 1] = "prometheus"
  BY <1>1, Grouped DEF Running
<1>4. /\ asked' \in [DOMAIN input.kpis -> Optional(Moment)]
      /\ WindowsForward'
      /\ \A k \in DOMAIN asked' :
           asked'[k] # Absent =>
             /\ asked'[k].at <= now'
             /\ input'.kpis[k].range # Absent =>
                  asked'[k].window = Window(input'.kpis[k].range, asked'[k].at)
  <2>1. input' = input /\ now' \in Nat /\ now <= now' /\ asked' = Queried({i}, now')
    BY <1>1, <1>2, <1>3
  <2>2. QED
    BY <1>3, <2>1, AskedSound
<1>5. AskedOK'
  BY <1>1, <1>3, <1>4, InputKept DEF SetupInv, AskedOK
<1>6. DOMAIN groups = Frequencies /\ GroupsTyped
      /\ \A k \in Repeating : OnTrack(groups[Frequency(k)], Frequency(k), k, asked[k], now)
  BY <1>1 DEF SetupInv, GroupsOK
<1> HIDE DEF f, g, h
<1>7. h \in Group
  BY <1>2 DEF Group, h
<1>8. groups'[f] = h /\ \A e \in Frequencies \ {f} : groups'[e] = groups[e]
  BY <1>1, <1>2, <1>6
<1>9. ASSUME NEW k \in Repeating
      PROVE  OnTrack(groups'[Frequency(k)], Frequency(k), k, asked'[k], now)
  <2>1. Frequency(k) \in Frequencies /\ k \in DOMAIN asked
    BY <1>1, Grouped DEF Frequencies
  <2>2. CASE k = i
    <3>1. asked'[i] = Query(i, now)
      BY <1>2, <2>1, <2>2 DEF Queried
    <3>2. Query(i, now) \in Moment /\ Query(i, now) # Absent /\ Query(i, now).at = now
      BY <1>2, <1>3, QueryMade
    <3>3. OnTrack(h, f, i, Query(i, now), now)
      BY <1>2, <1>3, <3>2, GroupAsks DEF h
    <3>4. QED
      BY <1>8, <2>2, <3>1, <3>3 DEF f
  <2>3. CASE k # i /\ Frequency(k) = f
    <3>1. asked'[k] = asked[k]
      BY <1>2, <2>1, <2>3 DEF Queried
    <3>2. OnTrack(g, f, k, asked[k], now)
      BY <1>6, <2>3 DEF g
    <3>3. OnTrack(h, f, k, asked[k], now)
      BY <1>2, <2>3, <3>2, GroupGoesOn DEF h
    <3>4. QED
      BY <1>8, <2>3, <3>1, <3>3
  <2>4. CASE Frequency(k) # f
    <3>1. asked'[k] = asked[k] /\ groups'[Frequency(k)] = groups[Frequency(k)]
      BY <1>2, <1>8, <2>1, <2>4 DEF Queried, f
    <3>2. QED
      BY <1>6, <3>1
  <2>5. QED
    BY <2>2, <2>3, <2>4
<1>10. GroupsOK'
  <2>1. DOMAIN groups' = Frequencies /\ \A e \in Frequencies : groups'[e] \in Group
    BY <1>1, <1>6, <1>7, <1>8 DEF GroupsTyped
  <2>2. QED
    BY <1>1, <1>6, <1>9, <2>1, JobKept DEF GroupsOK, GroupsTyped
<1>11. QED
  BY <1>1, <1>3, <1>4, <1>5, <1>10, TasksTyped, TasksStep

LEMMA TakeTickStep == \A f \in DOMAIN groups : SetupInv /\ TakeTick(f) => SetupInv'
<1> SUFFICES ASSUME NEW f \in DOMAIN groups, SetupInv, TakeTick(f)
             PROVE  SetupInv'
  OBVIOUS
<1> DEFINE g == groups[f]
           h == [g EXCEPT !.due = g.tick, !.tick = Absent, !.left = Members(f)]
<1>1. /\ pc = "collect" /\ pc' = "collect" /\ input' = input /\ now' = now /\ pos' = pos
      /\ job' = job /\ tasks' = tasks /\ UNCHANGED prepVars /\ timerAt' = timerAt
      /\ asked' = asked /\ g.left = {} /\ g.tick # Absent
  BY DEF TakeTick, inputVars, runVars
<1>2. DOMAIN groups = Frequencies /\ GroupsTyped
      /\ \A i \in Repeating : OnTrack(groups[Frequency(i)], Frequency(i), i, asked[i], now)
  BY <1>1 DEF SetupInv, GroupsOK
<1>3. g \in Group
  BY <1>2 DEF GroupsTyped
<1>4. groups' = [groups EXCEPT ![f] = h]
  BY <1>3 DEF TakeTick, Group
<1>5. Running' /\ now \in Nat /\ pos < Len(tasks) /\ tasks[pos + 1] = "prometheus"
  BY <1>1, Grouped DEF Running
<1>6. AskedOK' /\ WindowsForward'
  BY <1>1, <1>5, NothingAsked DEF AskedOK
<1>7. h \in Group
  <2>1. g.tick \in Int /\ Members(f) \in SUBSET Nat
    BY <1>1, <1>2, <1>3, Grouped DEF Group, Optional
  <2>2. QED
    BY <1>3, <2>1 DEF Group, Optional
<1> HIDE DEF g, h
<1>8. groups'[f] = h /\ \A e \in Frequencies \ {f} : groups'[e] = groups[e]
  BY <1>2, <1>4
<1>9. ASSUME NEW i \in Repeating
      PROVE  OnTrack(groups'[Frequency(i)], Frequency(i), i, asked[i], now)
  <2>1. CASE Frequency(i) = f
    <3>1. i \in Members(f) /\ OnTrack(g, f, i, asked[i], now)
      BY <1>2, <2>1 DEF Members, g
    <3>2. OnTrack(h, f, i, asked[i], now)
      BY <1>1, <1>3, <3>1, GroupTakes DEF h
    <3>3. QED
      BY <1>8, <2>1, <3>2
  <2>2. CASE Frequency(i) # f
    BY <1>2, <1>8, <2>2 DEF Frequencies
  <2>3. QED
    BY <2>1, <2>2
<1>10. GroupsOK'
  <2>1. DOMAIN groups' = Frequencies /\ \A e \in Frequencies : groups'[e] \in Group
    BY <1>2, <1>4, <1>7, <1>8 DEF GroupsTyped
  <2>2. QED
    BY <1>1, <1>2, <1>9, <2>1, JobKept DEF GroupsOK, GroupsTyped
<1>11. QED
  BY <1>1, <1>5, <1>6, <1>10, Grouped, TasksTyped, TasksStep

LEMMA TickStep == SetupInv /\ Tick => SetupInv'
<1> SUFFICES ASSUME SetupInv, Tick
             PROVE  SetupInv'
  OBVIOUS
<1>1. /\ pc = "collect" /\ pc' = "collect" /\ input' = input /\ now' = now + 1 /\ pos' = pos
      /\ job' = job /\ tasks' = tasks /\ UNCHANGED prepVars /\ timerAt' = timerAt
      /\ asked' = asked /\ groups' = [f \in DOMAIN groups |-> Fired(groups[f], f, now')]
  BY DEF Tick, runVars
<1>2. Running /\ Running' /\ now \in Nat /\ "prometheus" \in Present
      /\ pos < Len(tasks) /\ tasks[pos + 1] = "prometheus"
  BY <1>1, Grouped DEF Running
<1>3. asked' = Queried({}, now') /\ now' \in Nat /\ now <= now'
  BY <1>1, <1>2, TasksTyped DEF Queried
<1>4. /\ WindowsForward'
      /\ \A k \in DOMAIN asked' :
           asked'[k] # Absent =>
             /\ asked'[k].at <= now'
             /\ input'.kpis[k].range # Absent =>
                  asked'[k].window = Window(input'.kpis[k].range, asked'[k].at)
  BY <1>1, <1>2, <1>3, AskedSound
<1>5. AskedOK'
  BY <1>1, <1>2, <1>4, InputKept DEF SetupInv, AskedOK
<1>6. DOMAIN groups = Frequencies /\ GroupsTyped
      /\ \A i \in Repeating : OnTrack(groups[Frequency(i)], Frequency(i), i, asked[i], now)
  BY <1>1 DEF SetupInv, GroupsOK
<1>7. ASSUME NEW i \in Repeating
      PROVE  groups'[Frequency(i)] \in Group
             /\ OnTrack(groups'[Frequency(i)], Frequency(i), i, asked'[i], now')
  <2>1. Frequency(i) \in Frequencies /\ Frequency(i) \in Nat \ {0}
    BY <1>1, Grouped DEF Frequencies
  <2>2. groups[Frequency(i)] \in Group
    BY <1>6, <2>1 DEF GroupsTyped
  <2>3. groups'[Frequency(i)] = Fired(groups[Frequency(i)], Frequency(i), now + 1)
    BY <1>1, <1>6, <2>1
  <2>4. QED
    BY <1>1, <1>2, <1>6, <2>1, <2>2, <2>3, GroupTicks
<1>8. GroupsOK'
  <2>1. DOMAIN groups' = Frequencies /\ Frequencies \subseteq Nat \ {0}
    BY <1>1, <1>6 DEF GroupsTyped
  <2>2. \A f \in Frequencies : groups'[f] \in Group
    BY <1>7 DEF Frequencies
  <2>3. QED
    BY <1>1, <1>7, <2>1, <2>2, JobKept DEF GroupsOK, GroupsTyped
<1>9. QED
  BY <1>1, <1>2, <1>3, <1>4, <1>5, <1>8, TasksTyped, TasksStep

LEMMA CollectionEndsStep == SetupInv /\ CollectionEnds => SetupInv'
<1> SUFFICES ASSUME SetupInv, CollectionEnds
             PROVE  SetupInv'
  OBVIOUS
<1>1. /\ pc \in {"once", "collect"} /\ pc' = "tasks" /\ input' = input /\ now' = now
      /\ pos' = pos + 1 /\ job' = job /\ tasks' = tasks /\ UNCHANGED prepVars
      /\ timerAt' = timerAt /\ asked' = asked /\ groups' = <<>>
  BY DEF CollectionEnds, inputVars
<1>2. Running /\ Running' /\ now \in Nat /\ pos < Len(tasks) /\ tasks[pos + 1] = "prometheus"
  BY <1>1, CollectionOfPrometheus, SetupTyped DEF Running
<1>3. pos' \in 0 .. Len(tasks)
  BY <1>1, <1>2, TasksTyped
<1>4. ASSUME NEW k \in pos' + 1 .. Len(tasks')
      PROVE  tasks'[k] # "prometheus"
  <2>1. k \in DOMAIN tasks /\ pos + 1 \in DOMAIN tasks /\ k # pos + 1
    <3>1. pos \in Nat /\ Len(tasks) \in Nat /\ DOMAIN tasks = 1 .. Len(tasks)
          /\ k \in pos + 2 .. Len(tasks)
      BY <1>1, TasksTyped
    <3>2. QED
      BY <1>2, <3>1
  <2>2. Distinct(tasks)
    BY <1>2 DEF SetupInv, TasksOK
  <2>3. QED
    BY <1>1, <1>2, <2>1, <2>2 DEF Distinct
<1>5. AskedOK'
  BY <1>1, <1>2, <1>4, NothingAsked DEF AskedOK
<1>6. GroupsOK'
  BY <1>1 DEF GroupsOK, GroupsTyped
<1>7. QED
  BY <1>1, <1>2, <1>3, <1>5, <1>6, TasksTyped, NothingAsked, TasksStep

LEMMA TimePassesStep == SetupInv /\ TimePasses => SetupInv'
<1> SUFFICES ASSUME SetupInv, TimePasses
             PROVE  SetupInv'
  OBVIOUS
<1>1. /\ pc \notin {"collect", "done", "failed"} /\ pc' = pc /\ input' = input /\ now' = now + 1
      /\ UNCHANGED <<prepVars, runVars, queryVars>>
  BY DEF TimePasses
<1>2. now \in Nat /\ now' \in Nat /\ now <= now'
  BY <1>1, SetupTyped
<1>3. CASE ~Running
  <2>1. flags' = flags /\ token' = token /\ spec' = spec /\ cpus' = cpus
    BY <1>1 DEF prepVars
  <2>2. ~Running' /\ (Prepared' <=> Prepared) /\ (Settled' <=> Settled)
    BY <1>1, <1>3 DEF Running, Prepared, Settled
  <2>3. ChecksOK'
    BY <1>1, <2>2, InputKept DEF SetupInv, ChecksOK
  <2>4. KpisOK'
    <3>1. \A t \in 0 .. now : t \in 0 .. now'
      BY <1>2
    <3>2. QED
      BY <1>1, <2>2, <3>1, InputKept DEF SetupInv, KpisOK
  <2>5. FlagsOK'
    BY <1>1, <2>1, <2>2, InputKept DEF SetupInv, FlagsOK, TokenLifetime
  <2>6. SpecOK'
    BY <1>1, <2>1, <2>2, InputKept
       DEF SetupInv, SpecOK, SectionsDone, LoadedKpis, PerNodeData, Running
  <2>7. QED
    BY <1>1, <1>2, <1>3, <2>1, <2>2, <2>3, <2>4, <2>5, <2>6, SetupTyped, GoOnStep
<1>4. CASE Running
  <2>1. pc \in {"tasks", "once"} /\ Running'
    BY <1>1, <1>4 DEF Running
  <2>2. pos' = pos /\ tasks' = tasks /\ job' = job /\ timerAt' = timerAt /\ asked' = asked
    BY <1>1 DEF runVars, queryVars
  <2>3. Repeating' = Repeating
    BY <2>2 DEF Repeating, RunOnce
  <2>4. \A i \in DOMAIN asked : asked[i] # Absent => asked[i].at <= now'
    <3> SUFFICES ASSUME NEW i \in DOMAIN asked, asked[i] # Absent
                 PROVE  asked[i].at <= now'
      OBVIOUS
    <3>1. asked[i] \in Moment
      BY TasksTyped DEF Optional
    <3>2. asked[i].at \in Nat /\ asked[i].at <= now
      BY <3>1 DEF SetupInv, AskedOK, Moment
    <3>3. QED
      BY <1>2, <3>2
  <2>5. AskedOK'
    BY <1>1, <1>2, <2>1, <2>2, <2>3, <2>4, InputKept DEF SetupInv, AskedOK
  <2>6. WindowsForward'
    BY <1>1, <2>2 DEF SetupInv, WindowsForward
  <2>7. pc' \in {"once", "collect"} => pos' < Len(tasks) /\ tasks[pos' + 1] = "prometheus"
    BY <1>1, <2>1, <2>2, CollectionOfPrometheus
  <2>8. QED
    BY <1>1, <1>2, <1>4, <2>1, <2>2, <2>5, <2>6, <2>7, NoGroups, TasksTyped, TasksStep
       DEF queryVars
<1>5. QED
  BY <1>3, <1>4

LEMMA Unmoved == SetupInv /\ UNCHANGED vars => SetupInv'
<1> SUFFICES ASSUME SetupInv, UNCHANGED vars
             PROVE  SetupInv'
  OBVIOUS
<1>1. /\ pc' = pc /\ input' = input /\ now' = now /\ flags' = flags /\ token' = token
      /\ spec' = spec /\ cpus' = cpus /\ job' = job /\ tasks' = tasks /\ pos' = pos
      /\ timerAt' = timerAt /\ asked' = asked /\ groups' = groups
  BY DEF vars, inputVars, prepVars, runVars, queryVars
<1>2. TypeOK' /\ InputOK' /\ WindowsForward'
  BY <1>1 DEF SetupInv, TypeOK, InputOK, WindowsForward
<1>3. /\ (Running' <=> Running) /\ (Prepared' <=> Prepared) /\ (Settled' <=> Settled)
      /\ LoadedKpis' = LoadedKpis /\ FinalJob' = FinalJob /\ (SectionsDone' <=> SectionsDone)
      /\ PerNodeData' = PerNodeData /\ Repeating' = Repeating
  BY <1>1, InputKept DEF Running, Prepared, Settled, LoadedKpis, FinalJob, SectionsDone,
                         PerNodeData, Repeating, RunOnce
<1>4. ChecksOK' /\ KpisOK' /\ FlagsOK' /\ SpecOK' /\ TasksOK'
  BY <1>1, <1>3, InputKept
     DEF SetupInv, ChecksOK, KpisOK, FlagsOK, SpecOK, TasksOK, TokenLifetime
<1>5. AskedOK'
  BY <1>1, <1>3, InputKept DEF SetupInv, AskedOK
<1>6. GroupsOK'
  <2>1. \A i : Frequency(i)' = Frequency(i)
    BY <1>1 DEF Frequency
  <2>2. Frequencies' = Frequencies
    BY <1>3, <2>1 DEF Frequencies
  <2>3. QED
    BY <1>1, <1>3, <2>1, <2>2 DEF SetupInv, GroupsOK, GroupsTyped
<1>7. QED
  BY <1>2, <1>4, <1>5, <1>6 DEF SetupInv

-----------------------------------------------------------------------------
(***************************************************************************)
(* The invariant and what it says.                                         *)
(***************************************************************************)

\* Nothing that the run command does, in whatever time, breaks what its checks,
\* merges and loads established.
THEOREM SetupInvariant == Spec => []SetupInv
<1>1. SetupInv /\ [Next]_vars => SetupInv'
  BY ValidateFlagsStep, LoadTasksStep, AuthStep, ApplySettingsStep, ValidateKpisStep,
     UserAnswersStep, PrepareKpisStep, SetIsolcpusStep, BuildStep, OtherTaskStep,
     CollectionStartsStep, RunEndsStep, QueryOnceStep, StartTimerStep, QueryDueStep,
     TakeTickStep, TickStep, CollectionEndsStep, TimePassesStep, Unmoved DEF Next, Terminated
<1>2. QED
  BY <1>1, InitSound, PTL DEF Spec

\* Every variable stays within its type.
THEOREM TypeCorrect == Spec => []TypeOK
<1>1. SetupInv => TypeOK
  BY DEF SetupInv
<1>2. QED
  BY <1>1, SetupInvariant, PTL

\* A window never ends before it starts, however late its query.
THEOREM WindowsAlwaysForward == Spec => []WindowsForward
<1>1. SetupInv => WindowsForward
  BY DEF SetupInv
<1>2. QED
  BY <1>1, SetupInvariant, PTL

\* A token made for the duration that the collection has lasts for the buffer beyond
\* it, counted from its creation.
LEMMA TokenLongEnough == SetupInv => TokenLasts
<1> DEFINE delay      == timerAt - token.made
           overrun(i) == asked[i].at - (timerAt + job.flags.duration)
<1> SUFFICES ASSUME SetupInv, KeepsDuration, token # Absent, timerAt # Absent,
                    NEW i \in Repeating, asked[i] # Absent, delay + overrun(i) <= Buffer
             PROVE  asked[i].at <= token.expires
  BY DEF TokenLasts
<1>1. token \in Token /\ timerAt \in Nat
  BY SetupTyped, TasksTyped DEF Optional
<1>2. "prometheus" \in Present /\ Running
  BY DEF SetupInv, AskedOK
<1>3. /\ job.flags = FinalFlags /\ FinalFlags.duration \in Nat /\ i \in DOMAIN asked
      /\ asked[i] \in Moment
  <2>1. job.flags = FinalFlags /\ FinalFlags.duration \in Nat \ {0} /\ DOMAIN job.kpis = DOMAIN asked
        /\ DOMAIN asked = DOMAIN input.kpis
    BY <1>2, JobKnown
  <2>2. i \in DOMAIN asked
    BY <2>1 DEF Repeating
  <2>3. QED
    BY <2>1, <2>2, TasksTyped DEF Optional
<1>4. ~FinalFlags.once
  BY <1>3 DEF Repeating, RunOnce
<1>5. token.expires = token.made + (FinalFlags.duration + Buffer)
  BY <1>4, SetupTyped, TokenForDuration DEF SetupInv, FlagsOK
<1>6. asked[i].at \in Nat /\ token.made \in Nat /\ Buffer \in Nat
  BY <1>1, <1>3, SettingsAssumption DEF Moment, Token
<1>7. QED
  BY <1>1, <1>3, <1>5, <1>6

THEOREM TokenOutlivesQueries == Spec => []TokenLasts
BY TokenLongEnough, SetupInvariant, PTL

\* The prometheus task has valid settings that honour the command line, distinct
\* KPIs without placeholders, and a token if there is a kubeconfig.
LEMMA JobIsSound == SetupInv => JobSound
<1> SUFFICES ASSUME SetupInv, job # Absent
             PROVE  /\ ValidSettings(job.flags)
                    /\ \A name \in {"frequency", "duration", "database", "once"} :
                         input.cli[name] # Absent => job.flags[name] = input.cli[name]
                    /\ UniqueIds(job.kpis) /\ ~HasPlaceholders(job.kpis)
                    /\ input.kubeconfig => job.token # Absent
  BY DEF JobSound
<1>1. Running /\ "prometheus" \in Present
  BY DEF SetupInv, TasksOK
<1>2. job = FinalJob /\ job.flags = FinalFlags /\ job.kpis = FinalKpis /\ job.token = token
  BY <1>1, JobKnown DEF FinalJob
<1>3. /\ ValidSettings(FinalFlags) /\ ValidFlags /\ (input.kubeconfig => token # Absent)
  BY <1>1 DEF SetupInv, ChecksOK, FlagsOK, Running, Prepared, Settled
<1>4. UniqueIds(input.kpis) /\ input.kpis \in Seq(Kpi) /\ input \in Inputs
  BY <1>1, JobKnown, SetupTyped, InputTyped DEF ValidKpis
<1>5. UniqueIds(FinalKpis) /\ ~HasPlaceholders(FinalKpis)
  BY <1>4, SubstitutedKpis DEF FinalKpis
<1>6. QED
  BY <1>2, <1>3, <1>4, <1>5, CommandLineWins

THEOREM JobAlwaysSound == Spec => []JobSound
BY JobIsSound, SetupInvariant, PTL

\* What the command has made of a tasks file that was valid is valid too.
LEMMA RewrittenValid ==
  ASSUME SetupInv, pc = "build", input.tasksFile, input.kpis # <<>>
  PROVE  ValidTasksSpec(spec)
<1>1. ValidTasksSpec(Decoded) /\ Prepared /\ Settled /\ SectionsDone /\ input \in Inputs
  <2>1. Prepared /\ Settled
    BY DEF Prepared, Settled
  <2>2. QED
    BY <2>1 DEF SetupInv, ChecksOK, SpecOK, InputOK
<1>2. Present # {} /\ input.policy /\ ValidOrder(input.order, Present)
  BY <1>1 DEF ValidTasksSpec
<1>3. "prometheus" \in Present => spec.configFile # (spec.kpis # <<>>)
  <2>1. FinalKpis # <<>>
    BY <1>1, InputTyped, SubstitutedKpis DEF FinalKpis
  <2>2. "prometheus" \in Present => spec.configFile = FALSE /\ spec.kpis = FinalKpis
    <3>1. spec.configFile \in BOOLEAN
      BY SetupTyped DEF Specs
    <3>2. QED
      BY <1>1, <3>1 DEF SetupInv, SpecOK
  <2>3. QED
    BY <2>1, <2>2
<1>4. \A name \in Present \ {"prometheus"} : ValidSection(name, spec.sections[name])
  BY <1>1, PresentTasks, SectionComplete DEF SectionsDone
<1>5. QED
  BY <1>2, <1>3, <1>4 DEF ValidTasksSpec

LEMMA TasksAreSound == SetupInv => TasksSound
<1> SUFFICES ASSUME SetupInv
             PROVE  TasksSound
  OBVIOUS
<1>1. pc = "build" /\ input.tasksFile /\ input.kpis # <<>> => ValidTasksSpec(spec)
  BY RewrittenValid
<1>2. ASSUME Running
      PROVE  /\ {tasks[i] : i \in DOMAIN tasks} = Present
             /\ Len(tasks) = Cardinality(Present)
             /\ Present # {"prometheus"} => input.kubeconfig
             /\ \A name \in Present \ {"prometheus"} :
                  ValidFields(name, spec.sections[name].fields)
             /\ "per-node-data" \in Present => PerNodeData.isolcpus # <<>>
  <2>1. /\ Elements(tasks) = Present /\ Distinct(tasks)
        /\ Present # {"prometheus"} => input.kubeconfig
    BY <1>2 DEF SetupInv, TasksOK
  <2>2. Len(tasks) = Cardinality(Present)
    BY <2>1, TasksTyped, DistinctCounted
  <2>3. SectionsDone /\ ("per-node-data" \in Present => PerNodeData.isolcpus # <<>>)
    BY <1>2 DEF SetupInv, SpecOK, Prepared, Settled
  <2>4. QED
    BY <2>1, <2>2, <2>3 DEF Elements, SectionsDone
<1>3. QED
  BY <1>1, <1>2 DEF TasksSound, Running

\* A file that loaded is not refused for its structure afterwards, and the tasks
\* that run are those of the file, each once and with all it needs.
THEOREM TasksAlwaysSound == Spec => []TasksSound
BY TasksAreSound, SetupInvariant, PTL

-----------------------------------------------------------------------------
(***************************************************************************)
(* The gaps between windows.                                               *)
(***************************************************************************)

\* A KPI that looks back and is queried again was last queried no longer before its
\* tick than it looks back: a period, which the check of its frequency bounds.
LEMMA DueGap ==
  ASSUME SetupInv, NEW i \in DOMAIN asked, QueryDue(i), asked[i] # Absent,
         LooksBack(input.kpis[i].range)
  PROVE  asked'[i].window.since - asked[i].window.until
           <= asked'[i].at - groups[Frequency(i)].due
<1> DEFINE range == input.kpis[i].range
           at == asked[i].at
           f == Frequency(i)
           due == groups[f].due
           back == range.since.value
<1>1. /\ pc = "collect" /\ i \in Repeating /\ i \in DOMAIN input.kpis
      /\ asked' = Queried({i}, now) /\ f \in Nat \ {0} /\ groups[f] \in Group
      /\ i \in groups[f].left /\ OnTrack(groups[f], f, i, asked[i], now)
  BY DueQuery
<1>2. Running /\ "prometheus" \in Present /\ now \in Nat
  BY <1>1, Grouped
<1>3. asked'[i] = Query(i, now) /\ asked[i] \in Moment
  BY <1>1, TasksTyped DEF Queried, Optional
<1>4. due <= at + f /\ due \in Int /\ at \in Nat
  BY <1>1, <1>3 DEF OnTrack, Group, Moment
<1>5. range # Absent /\ range.since.isDuration /\ range.until = Absent
  BY DEF LooksBack
<1>6. /\ asked'[i].at = now
      /\ asked'[i].window = Window(range, now) /\ asked[i].window = Window(range, at)
  BY <1>1, <1>2, <1>3, <1>5, QueryMade DEF SetupInv, AskedOK
<1>7. asked'[i].window.since = now - back /\ asked[i].window.until = at
  BY <1>5, <1>6 DEF Window, Resolve
<1>8. f <= back /\ back \in Int
  <2>1. PICK t \in 0 .. now : ValidKpis(input.kpis, t)
    BY <1>2, JobKnown
  <2>2. ValidKpi(input.kpis[i], t) /\ input.kpis[i] \in Kpi
    BY <1>1, <1>2, <2>1, JobKnown DEF ValidKpis
  <2>3. EffectiveQueryType(input.kpis[i]) = "range" /\ range.since # Absent
    BY <1>5, <2>2 DEF ValidKpi, ValidQueryType, ValidRangeWindow
  <2>4. ~FinalFlags.once /\ job.flags = FinalFlags
    BY <1>1, <1>2, JobKnown DEF Repeating, RunOnce
  <2>5. FrequencyFits(input.kpis[i], FinalFlags.frequency)
    BY <1>1, <1>2, <2>4 DEF SetupInv, KpisOK, Prepared
  <2>6. f = EffectiveFrequency(input.kpis[i], FinalFlags.frequency)
    BY <1>1, <1>2, <2>4, JobKnown DEF Frequency, EffectiveFrequency
  <2>7. range.since \in TimeRef
    BY <1>5, <2>2, <2>3 DEF Kpi, Optional
  <2>8. QED
    BY <1>5, <2>3, <2>5, <2>6, <2>7 DEF FrequencyFits, TimeRef
<1> HIDE DEF at, f, due, back, range
<1>9. (now - back) - at <= now - due
  BY <1>1, <1>2, <1>4, <1>8
<1>10. QED
  BY <1>6, <1>7, <1>9 DEF due, f

\* Between consecutive windows of a KPI that looks back from now there is no gap longer
\* than the second query is late, however slow its group is.
THEOREM GapAlwaysWithinLateness == Spec => GapWithinLateness
<1> DEFINE Close == \A i \in DOMAIN asked :
                      /\ asked[i] # Absent /\ asked'[i] # asked[i]
                      /\ LooksBack(input.kpis[i].range)
                      => asked'[i].window.since - asked[i].window.until
                           <= asked'[i].at - groups[Frequency(i)].due
<1>1. SetupInv /\ [Next]_vars => [Close]_asked
  <2> SUFFICES ASSUME SetupInv, [Next]_vars, asked' # asked
               PROVE  Close
    OBVIOUS
  <2>1. ASSUME NEW i \in DOMAIN asked, QueryDue(i)
        PROVE  Close
    <3>1. \A k \in DOMAIN asked : k # i => asked'[k] = asked[k]
      BY <2>1, TasksTyped DEF QueryDue
    <3>2. QED
      BY <2>1, <3>1, DueGap
  <2>2. ASSUME NEW i \in DOMAIN asked, QueryOnce(i)
        PROVE  Close
    <3>1. \A k \in DOMAIN asked : asked[k] # Absent => asked'[k] = asked[k]
      BY <2>2, TasksTyped DEF QueryOnce
    <3>2. QED
      BY <3>1
  <2>3. \E i \in DOMAIN asked : QueryDue(i) \/ QueryOnce(i)
    BY DEF Next, vars, queryVars, ValidateFlags, LoadTasks, SetupKubeconfigAuth, AuthFails,
           ApplySettings, ValidateKpis, UserAnswers, PrepareKpis, PrepareKpisFails,
           SetIsolcpus, SetIsolcpusFails, BuildTasks, PreflightFails, OtherTaskEnds,
           CollectionStarts, RunEnds, StartTimer, TakeTick, Tick, CollectionEnds, TimePasses,
           Terminated
  <2>4. QED
    BY <2>1, <2>2, <2>3
<1>2. QED
  BY <1>1, SetupInvariant, PTL DEF Spec, GapWithinLateness

-----------------------------------------------------------------------------
(***************************************************************************)
(* The doctor.                                                             *)
(***************************************************************************)

\* Where the file gives no settings the run command uses those that the doctor saw.
LEMMA DoctorSawSettings ==
  ASSUME input \in Inputs, InDoctorsReach
  PROVE  /\ DoctorFlags \in Settings /\ FinalFlags \in Settings
         /\ FinalFlags.frequency = DoctorFlags.frequency
         /\ FinalFlags.duration = DoctorFlags.duration
         /\ FinalFlags.database = DoctorFlags.database
         /\ FinalFlags.url = DoctorFlags.url /\ DoctorFlags.url = input.cli.url
         /\ FinalFlags.once = DoctorFlags.once
<1>1. input.cli \in GivenSettings /\ input.file \in GivenSettings
  BY InputTyped
<1>2. DoctorFlags \in Settings /\ AuthFlags \in Settings /\ FinalFlags \in Settings
      /\ DoctorFlags = FromCommandLine(input.cli)
  BY FlagsTyped DEF DoctorFlags
<1>3. /\ input.file.frequency = Absent /\ input.file.duration = Absent
      /\ input.file.database = Absent /\ input.file.once = Absent /\ ~input.file.url
  BY DEF InDoctorsReach
<1>4. CASE input.tasksFile
  <2>1. ASSUME NEW f \in Settings
        PROVE  LET g == WithTasksFile(f, input.file)
               IN /\ g.frequency = f.frequency /\ g.duration = f.duration
                  /\ g.database = f.database /\ g.url = f.url /\ g.once = f.once
    <3> DEFINE g == WithTasksFile(f, input.file)
    <3>1. CASE "prometheus" \in Present
      <4>1. /\ g.frequency = Given(input.file.frequency, f.frequency)
            /\ g.duration = Given(input.file.duration, f.duration)
            /\ g.once = Given(input.file.once, f.once)
            /\ g.database = f.database /\ g.url = f.url
        BY <1>1, <3>1, MergeTasksFile
      <4> HIDE DEF g
      <4>2. QED
        BY <1>3, <4>1 DEF Given, g
    <3>2. CASE "prometheus" \notin Present
      BY <1>1, <3>2, MergeTasksFile
    <3>3. QED
      BY <3>1, <3>2
  <2>2. AuthFlags = WithTasksFile(DoctorFlags, input.file)
        /\ FinalFlags = WithTasksFile(AuthFlags, input.file)
    BY <1>2, <1>4 DEF AuthFlags, FinalFlags
  <2>3. DoctorFlags.url = input.cli.url
    BY <1>2, DefaultFlags
  <2>4. QED
    BY <1>2, <2>1, <2>2, <2>3
<1>5. CASE ~input.tasksFile
  <2>1. FinalFlags = WithKpiFile(DoctorFlags, input.file, input.cli)
    BY <1>2, <1>5 DEF FinalFlags, AuthFlags
  <2>2. /\ DoctorFlags.frequency = Given(input.cli.frequency, DefaultFrequency)
        /\ DoctorFlags.duration = Given(input.cli.duration, DefaultDuration)
        /\ DoctorFlags.database = Given(input.cli.database, "sqlite")
        /\ DoctorFlags.url = input.cli.url
        /\ DoctorFlags.once = Given(input.cli.once, FALSE)
    BY <1>2, DefaultFlags
  <2>3. /\ FinalFlags.frequency = Given(input.cli.frequency, Given(input.file.frequency, DoctorFlags.frequency))
        /\ FinalFlags.duration = Given(input.cli.duration, Given(input.file.duration, DoctorFlags.duration))
        /\ FinalFlags.database = Given(input.cli.database, Given(input.file.database, DoctorFlags.database))
        /\ FinalFlags.url = (DoctorFlags.url \/ input.file.url)
        /\ FinalFlags.once = Given(input.cli.once, Given(input.file.once, DoctorFlags.once))
    <3> DEFINE g == WithKpiFile(DoctorFlags, input.file, input.cli)
    <3>1. /\ g.frequency = Given(input.cli.frequency, Given(input.file.frequency, DoctorFlags.frequency))
          /\ g.duration = Given(input.cli.duration, Given(input.file.duration, DoctorFlags.duration))
          /\ g.database = Given(input.cli.database, Given(input.file.database, DoctorFlags.database))
          /\ g.url = (DoctorFlags.url \/ input.file.url)
          /\ g.once = Given(input.cli.once, Given(input.file.once, DoctorFlags.once))
      BY <1>1, <1>2, MergeKpiFile
    <3>2. FinalFlags = g
      BY <2>1
    <3> HIDE DEF g
    <3>3. QED
      BY <3>1, <3>2
  <2>4. DoctorFlags.url \in BOOLEAN
    BY <1>2 DEF Settings
  <2>5. FinalFlags.url = DoctorFlags.url
    BY <1>3, <2>3, <2>4
  <2>6. FinalFlags.frequency = DoctorFlags.frequency /\ FinalFlags.duration = DoctorFlags.duration
    BY <1>3, <2>2, <2>3 DEF Given
  <2>7. FinalFlags.database = DoctorFlags.database /\ FinalFlags.once = DoctorFlags.once
    BY <1>3, <2>2, <2>3 DEF Given
  <2>8. QED
    BY <1>2, <2>2, <2>5, <2>6, <2>7
<1>6. QED
  BY <1>4, <1>5

\* The settings pass the doctor's checks of them when they pass those of the run
\* command.
LEMMA SettingsForetold ==
  ASSUME input \in Inputs, InDoctorsReach
  PROVE  ValidSettings(FinalFlags) <=> ~SamplingFailed /\ ~DatabaseFailed
<1> DEFINE d == DoctorFlags
<1>1. /\ d \in Settings /\ d.url = input.cli.url
      /\ ValidSettings(FinalFlags) <=> ValidSettings(d)
  BY DoctorSawSettings DEF ValidSettings
<1>2. /\ d.frequency \in Int /\ d.duration \in Int /\ d.database \in Databases
      /\ d.url \in BOOLEAN /\ d.once \in BOOLEAN
  BY <1>1 DEF Settings
<1>3. /\ d.frequency = Given(input.cli.frequency, DefaultFrequency)
      /\ d.duration = Given(input.cli.duration, DefaultDuration)
      /\ d.once = Given(input.cli.once, FALSE)
  BY DefaultFlags DEF DoctorFlags
<1>4. SamplingFailed <=> ~d.once /\ (d.frequency <= 0 \/ d.duration <= 0)
  BY DEF SamplingFailed
<1>5. DatabaseFailed <=> CASE d.database = "sqlite"   -> FALSE
                           [] d.database = "postgres" -> ~d.url /\ ~input.envUrl
                           [] OTHER                   -> TRUE
  BY DEF DatabaseFailed
<1> HIDE DEF d
<1>6. d.once => d.frequency > 0 /\ d.duration > 0
  <2> SUFFICES ASSUME d.once
               PROVE  d.frequency > 0 /\ d.duration > 0
    OBVIOUS
  <2>1. input.cli.once # Absent
    BY <1>3 DEF Given
  <2>2. input.cli.frequency = Absent /\ input.cli.duration = Absent
    BY <2>1 DEF InDoctorsReach, ValidFlags
  <2>3. QED
    BY <1>3, <2>2, SettingsAssumption DEF Given
<1>7. ~SamplingFailed <=> d.frequency > 0 /\ d.duration > 0
  BY <1>2, <1>4, <1>6
<1>8. ~DatabaseFailed <=> /\ d.database \in {"sqlite", "postgres"}
                          /\ d.database = "postgres" => d.url
  <2>1. input.envUrl => d.url
    BY <1>1, <1>2, InputTyped DEF InDoctorsReach
  <2>2. QED
    BY <1>2, <1>5, <2>1 DEF Databases
<1>9. QED
  BY <1>1, <1>7, <1>8 DEF ValidSettings

\* Ends of one kind do not move against each other.
LEMMA KpisTimeless ==
  ASSUME input \in Inputs, InDoctorsReach, NEW t \in Nat, NEW u \in Nat,
         ValidKpis(input.kpis, t)
  PROVE  ValidKpis(input.kpis, u)
<1> SUFFICES ASSUME NEW i \in DOMAIN input.kpis, EffectiveQueryType(input.kpis[i]) = "range",
                    ValidRangeWindow(input.kpis[i].range, t)
             PROVE  ValidRangeWindow(input.kpis[i].range, u)
  BY DEF ValidKpis, ValidKpi, ValidQueryType
<1> DEFINE range == input.kpis[i].range
<1>1. input.kpis[i] \in Kpi
  BY InputTyped
<1>2. range.since \in Optional(TimeRef) /\ range.until \in Optional(TimeRef)
  BY <1>1 DEF Kpi, Optional, ValidRangeWindow
<1>3. range # Absent /\ range.since # Absent /\ range.until # Absent
        => range.since.isDuration = range.until.isDuration
  BY DEF InDoctorsReach
<1>4. ValidRangeWindow(range, t)
  OBVIOUS
<1> HIDE DEF range
<1>5. range.until # Absent /\ Resolve(range.since, t) < Resolve(range.until, t)
        => Resolve(range.since, u) < Resolve(range.until, u)
  <2> SUFFICES ASSUME range.until # Absent, Resolve(range.since, t) < Resolve(range.until, t)
               PROVE  Resolve(range.since, u) < Resolve(range.until, u)
    OBVIOUS
  <2>1. range.since \in TimeRef /\ range.until \in TimeRef
        /\ range.since.isDuration = range.until.isDuration
    BY <1>2, <1>3, <1>4 DEF ValidRangeWindow, Optional
  <2>2. /\ range.since.value \in Int /\ range.until.value \in Int
        /\ range.since.isDuration \in BOOLEAN /\ range.until.isDuration \in BOOLEAN
    BY <2>1 DEF TimeRef
  <2>3. CASE range.since.isDuration
    BY <2>1, <2>2, <2>3 DEF Resolve
  <2>4. CASE ~range.since.isDuration
    BY <2>1, <2>2, <2>4 DEF Resolve
  <2>5. QED
    BY <2>2, <2>3, <2>4
<1>6. QED
  BY <1>4, <1>5 DEF ValidRangeWindow, range

\* The KPIs pass the doctor's checks of them when they pass those of the run command.
LEMMA KpisForetold ==
  ASSUME input \in Inputs, InDoctorsReach, ~TasksSpecFailed, "prometheus" \in Present,
         NEW t \in Nat, ValidKpis(input.kpis, t)
  PROVE  KpisFailed <=> \/ HasPlaceholders(input.kpis) /\ ~input.kubeconfig
                        \/ /\ ~FinalFlags.once
                           /\ \E i \in DOMAIN input.kpis :
                                ~FrequencyFits(input.kpis[i], FinalFlags.frequency)
<1>1. DoctorKpis = input.kpis
  BY DEF DoctorKpis
<1>2. ValidKpis(input.kpis, 0)
  BY KpisTimeless
<1>3. FinalFlags.once = DoctorFlags.once /\ FinalFlags.frequency = DoctorFlags.frequency
      /\ DoctorFlags.frequency \in Int
  BY DoctorSawSettings DEF Settings
<1>4. ASSUME NEW i \in DOMAIN input.kpis
      PROVE  LooksBackFrom(input.kpis[i]) /\ Gaps(input.kpis[i])
               <=> ~FrequencyFits(input.kpis[i], FinalFlags.frequency)
  <2> DEFINE kpi == input.kpis[i]
             effective == EffectiveFrequency(kpi, DoctorFlags.frequency)
  <2>1. kpi \in Kpi
    BY InputTyped
  <2>2. effective \in Int
    <3>1. kpi.frequency \in Optional(Int)
      BY <2>1 DEF Kpi
    <3> HIDE DEF kpi
    <3>2. QED
      BY <1>3, <3>1 DEF EffectiveFrequency, Optional
  <2>3. LooksBackFrom(kpi) => kpi.range.since.value \in Int
    BY <2>1 DEF LooksBackFrom, Kpi, Optional, TimeRef
  <2>4. LooksBackFrom(kpi) /\ Gaps(kpi) <=> LooksBackFrom(kpi) /\ effective > kpi.range.since.value
    BY DEF Gaps
  <2>5. FrequencyFits(kpi, FinalFlags.frequency)
          <=> (LooksBackFrom(kpi) => effective <= kpi.range.since.value)
    BY <1>3 DEF FrequencyFits, LooksBackFrom
  <2> HIDE DEF kpi, effective
  <2>6. LooksBackFrom(kpi) => (effective > kpi.range.since.value
                                 <=> ~(effective <= kpi.range.since.value))
    BY <2>2, <2>3
  <2>7. QED
    BY <2>4, <2>5, <2>6 DEF kpi
<1>5. QED
  BY <1>1, <1>2, <1>3, <1>4 DEF KpisFailed

LEMMA DoctorKnows == SetupInv => DoctorForetells
<1> SUFFICES ASSUME SetupInv, InDoctorsReach
             PROVE  /\ ~DoctorFails => ~Refuses
                    /\ Running => ~DoctorFails
  BY DEF DoctorForetells, Running
<1>1. input \in Inputs /\ now \in Nat /\ ValidFlags
  BY SetupTyped DEF InDoctorsReach
<1>2. ~AuthFailed
  BY <1>1, InputTyped DEF ValidFlags, AuthFailed
<1>3. ValidSettings(FinalFlags) <=> ~SamplingFailed /\ ~DatabaseFailed
  BY <1>1, SettingsForetold
<1>4. ASSUME ~DoctorFails
      PROVE  ~Refuses
  <2>1. /\ ~SamplingFailed /\ ~DatabaseFailed /\ ~KpisFailed
        /\ input.tasksFile => ValidTasksSpec(Decoded)
    BY <1>4 DEF DoctorFails, TasksSpecFailed
  <2>2. ~(pc = "load" /\ ~ValidTasksSpec(spec))
    <3>1. pc = "load" => input.tasksFile /\ spec = Decoded
      BY DEF SetupInv, ChecksOK, SpecOK, Settled, Prepared, Running
    <3>2. QED
      BY <2>1, <3>1
  <2>3. ~(pc = "settings" /\ ~ValidSettings(Merged))
    <3>1. pc = "settings" => Merged = FinalFlags
      BY DEF SetupInv, FlagsOK, Merged, FinalFlags
    <3>2. QED
      BY <1>3, <2>1, <3>1
  <2>4. ~(pc = "kpis" /\ ~ValidKpis(LoadedKpis, now))
    <3> SUFFICES ASSUME pc = "kpis"
                 PROVE  ValidKpis(LoadedKpis, now)
      OBVIOUS
    <3>1. LoadedKpis = input.kpis /\ "prometheus" \in Present
      BY KpisLoaded
    <3>2. ValidKpis(input.kpis, 0)
      BY <2>1, <3>1 DEF KpisFailed, DoctorKpis, TasksSpecFailed
    <3>3. QED
      BY <1>1, <3>1, <3>2, KpisTimeless
  <2>5. pc = "substitute" =>
          /\ HasPlaceholders(LoadedKpis) => input.kubeconfig
          /\ flags.once \/ \A i \in DOMAIN LoadedKpis : FrequencyFits(LoadedKpis[i], flags.frequency)
    <3> SUFFICES ASSUME pc = "substitute"
                 PROVE  /\ HasPlaceholders(input.kpis) => input.kubeconfig
                        /\ FinalFlags.once \/ \A i \in DOMAIN input.kpis :
                             FrequencyFits(input.kpis[i], FinalFlags.frequency)
      BY KpisLoaded
    <3>1. "prometheus" \in Present /\ \E t \in 0 .. now : ValidKpis(input.kpis, t)
      BY KpisLoaded DEF SetupInv, KpisOK
    <3>2. PICK t \in Nat : ValidKpis(input.kpis, t)
      BY <1>1, <3>1
    <3>3. ~TasksSpecFailed
      BY <2>1 DEF TasksSpecFailed
    <3>4. QED
      BY <1>1, <2>1, <3>1, <3>2, <3>3, KpisForetold
  <2>6. ~(pc = "build" /\ ~Buildable)
    <3>1. pc = "build" /\ input.tasksFile => ValidTasksSpec(spec)
      BY RewrittenValid DEF InDoctorsReach
    <3>2. Present # {"prometheus"} => input.kubeconfig
      BY DEF InDoctorsReach
    <3>3. QED
      BY <3>1, <3>2 DEF Buildable
  <2>7. QED
    BY <2>2, <2>3, <2>4, <2>5, <2>6 DEF Refuses
<1>5. ASSUME Running
      PROVE  ~DoctorFails
  <2>1. /\ ValidSettings(FinalFlags)
        /\ input.tasksFile => ValidTasksSpec(Decoded)
    BY <1>5 DEF SetupInv, ChecksOK, Running, Prepared, Settled
  <2>2. ~TasksSpecFailed
    BY <2>1 DEF TasksSpecFailed
  <2>3. ~KpisFailed
    <3>1. CASE "prometheus" \in Present
      <4>1. /\ \E t \in 0 .. now : ValidKpis(input.kpis, t)
            /\ HasPlaceholders(input.kpis) => input.kubeconfig
            /\ FinalFlags.once \/ \A i \in DOMAIN input.kpis :
                 FrequencyFits(input.kpis[i], FinalFlags.frequency)
        BY <1>5, <3>1 DEF SetupInv, KpisOK, Prepared
      <4>2. PICK t \in Nat : ValidKpis(input.kpis, t)
        BY <1>1, <4>1
      <4>3. QED
        BY <1>1, <2>2, <3>1, <4>1, <4>2, KpisForetold
    <3>2. CASE "prometheus" \notin Present
      <4>1. DoctorKpis = <<>> /\ DOMAIN DoctorKpis = {}
        BY <3>2 DEF DoctorKpis
      <4>2. QED
        BY <4>1 DEF KpisFailed, ValidKpis, UniqueIds, HasPlaceholders
    <3>3. QED
      BY <3>1, <3>2
  <2>4. QED
    BY <1>2, <1>3, <2>1, <2>2, <2>3 DEF DoctorFails
<1>6. QED
  BY <1>4, <1>5

\* Where the doctor can know, what passes its checks is refused by none of the run
\* command's, and what the run command starts with had no failed check.
THEOREM DoctorAlwaysForetells == Spec => []DoctorForetells
BY DoctorKnows, SetupInvariant, PTL
=============================================================================
