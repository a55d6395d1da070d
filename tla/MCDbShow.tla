------------------------------ MODULE MCDbShow ------------------------------
(* Contents of the database and command lines for DbShow. *)
EXTENDS DbShow, TLC

CONSTANTS load, temp, cpu, mem, none, alpha, beta

\* Samples at half past one second, at two, and at half past three
Times == (1 :> 3) @@ (2 :> 4) @@ (3 :> 7)

\* The first two have the label node, with different values; the third has none.
SomeLabels == (1 :> [node |-> "a"]) @@ (2 :> [node |-> "b"]) @@ (3 :> <<>>)

Row(t, k, id, p) == [table |-> t, kpi |-> k, cluster |-> id, point |-> p]

\* A database after some runs: load is registered, temp was never categorized.
Filled ==
  [clusters |-> (alpha :> 1) @@ (beta :> 0), lastId |-> 1, tables |-> {none, cpu},
   registry |-> (load :> cpu) @@ (temp :> none),
   rows |-> {Row(cpu, load, 1, p) : p \in Points} \cup {Row(none, temp, 1, p) : p \in {1, 3}},
   errored |-> {temp}]

\* After db remove clusters beside a collection: rows of a cluster that is gone
Leftover ==
  [Filled EXCEPT !.clusters = (alpha :> 0) @@ (beta :> 2), !.lastId = 2,
                 !.rows = {Row(none, temp, 1, 1), Row(none, temp, 2, 2), Row(cpu, load, 2, 3)}]

SomeStores == {Filled, Leftover}

Kpi ==
  [show |-> "kpis", name |-> Absent, category |-> Absent, cluster |-> Absent, labels |-> <<>>,
   since |-> Absent, until |-> Absent, limit |-> 0, sort |-> "asc", format |-> "table",
   width |-> Absent, height |-> Absent, interactive |-> FALSE, tty |-> NoTty,
   stdinTty |-> TRUE, dbFlag |-> Absent, dbEnv |-> Absent, url |-> FALSE, dbFile |-> TRUE]

Ago(d) == [isDuration |-> TRUE, value |-> d, parses |-> TRUE]
At(t)  == [isDuration |-> FALSE, value |-> t, parses |-> TRUE]

ScopeCommands ==
  {[Kpi EXCEPT !.name = k, !.cluster = n] : k \in {Absent, load, temp}, n \in {Absent, alpha}}
    \cup {[Kpi EXCEPT !.category = t] : t \in {cpu, mem}}
    \cup {[Kpi EXCEPT !.name = load, !.category = cpu]}

WindowCommands ==
  {[Kpi EXCEPT !.since = s, !.until = u, !.name = load] :
     s \in {Absent, Ago(6), Ago(5), At(4)}, u \in {Absent, Ago(5), Ago(4), At(7), Ago(0)}}
    \cup {[Kpi EXCEPT !.since = [At(0) EXCEPT !.parses = FALSE]]}

LimitCommands == {[Kpi EXCEPT !.limit = l, !.sort = s] : l \in {1, 2}, s \in {"asc", "desc"}}

LabelCommands ==
  {[Kpi EXCEPT !.labels = l] :
     l \in {<<<<"node", "a">>>>, <<<<"node", "a">>, <<"node", "b">>>>, <<<<"node">>>>}}

Screen == [width |-> 100, height |-> 30]

ChartCommands ==
  {[Kpi EXCEPT !.name = load, !.format = f, !.width = w, !.interactive = i, !.tty = t] :
     f \in {"chart", "csv", "xml"}, w \in {Absent, 79, 120}, i \in BOOLEAN, t \in {NoTty, Screen}}

OtherCommands ==
  {[Kpi EXCEPT !.show = s, !.cluster = n] :
     s \in {"clusters", "categories", "errors"}, n \in {Absent, beta}}
    \cup {[Kpi EXCEPT !.dbFlag = f, !.dbEnv = e, !.url = u, !.dbFile = FALSE] :
            f \in {Absent, "postgres"}, e \in {Absent, "postgres", "mysql"}, u \in BOOLEAN}

SomeCommands ==
  ScopeCommands \cup WindowCommands \cup LimitCommands \cup LabelCommands \cup ChartCommands
    \cup OtherCommands
=============================================================================
