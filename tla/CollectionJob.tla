---------------------------- MODULE CollectionJob ----------------------------
(***************************************************************************)
(* What a Prometheus collection promises its caller (PromKPITask.Run):     *)
(* every KPI is attempted at least once or refused together with the call  *)
(* that should have run it, the error it returns says whether anything     *)
(* failed, nothing happens once it has returned, and it does return.       *)
(***************************************************************************)
CONSTANT Kpis        \* the KPIs of the job

VARIABLES
  status,            \* "running", then how the job ended
  attempted,         \* KPIs queried at least once
  refused,           \* KPIs of a call that failed before its first query
  bad                \* some query or call has failed

vars == <<status, attempted, refused, bad>>

Init ==
  /\ status = "running"
  /\ attempted = {}
  /\ refused = {}
  /\ bad = FALSE

\* One query of KPI k ends, ok or not.
Attempt(k, ok) ==
  /\ status = "running"
  /\ attempted' = attempted \cup {k}
  /\ bad' = (bad \/ ~ok)
  /\ UNCHANGED <<status, refused>>

\* What an attempted KPI gave cannot be kept.
Lose ==
  /\ status = "running"
  /\ attempted # {}
  /\ bad' = TRUE
  /\ UNCHANGED <<status, attempted, refused>>

\* A batch of KPIs fails as a whole before its first query.
Refuse(batch) ==
  /\ status = "running"
  /\ refused' = refused \cup batch
  /\ bad' = TRUE
  /\ UNCHANGED <<status, attempted>>

\* The job cannot even open its database.
Reject ==
  /\ status = "running"
  /\ attempted = {}
  /\ status' = "failed"
  /\ refused' = Kpis
  /\ bad' = TRUE
  /\ UNCHANGED attempted

\* The job returns: an error exactly when something failed.
Return ==
  /\ status = "running"
  /\ attempted \cup refused = Kpis
  /\ status' = IF bad THEN "failed" ELSE "ok"
  /\ UNCHANGED <<attempted, refused, bad>>

\* The process dies under the job (a signal nobody handles, a panic).
Crash ==
  /\ status = "running"
  /\ status' = "crashed"
  /\ UNCHANGED <<attempted, refused, bad>>

Next ==
  \/ \E k \in Kpis, ok \in BOOLEAN : Attempt(k, ok)
  \/ Lose
  \/ \E batch \in SUBSET Kpis : Refuse(batch)
  \/ Reject
  \/ Return
  \/ Crash

\* The code's own timeouts end every query, and the database is assumed to answer,
\* so a job that runs makes progress.
Spec == Init /\ [][Next]_vars /\ WF_vars(Next)

==============================================================================
