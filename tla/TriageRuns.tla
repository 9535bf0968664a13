----------------------------- MODULE TriageRuns -----------------------------
(***************************************************************************)
(* The TriageWorkflow executions of one identity, as far as they touch its *)
(* rows: a phase per execution, the state updates, the store, the end.     *)
(***************************************************************************)
EXTENDS IncidentState

\* The best-effort state updates on entering enrichment and triage, with the
\* internal phase's name.
AnnouncePhase(n, phase) ==
    /\ runs[n].phase = "diagnosing"
    /\ rows' = UpdateIncidentState(rows, n, phase)
    /\ UNCHANGED <<now, stamp, lock, hook, op, runs, enabled>>

\* Correlation, enrichment and the agent's answer lead to the store.
DiagnosisReady(n) ==
    /\ runs[n].phase = "diagnosing"
    /\ runs' = [runs EXCEPT ![n].phase = "storing"]
    /\ UNCHANGED <<now, stamp, rows, lock, hook, op, enabled>>

\* The agent failed for good: the workflow returns the error, its row stays.
DiagnosisFails(n) ==
    /\ runs[n].phase = "diagnosing"
    /\ runs' = [runs EXCEPT ![n] = Closed(@, FALSE)]
    /\ UNCHANGED <<now, stamp, rows, lock, hook, op, enabled>>

\* An attempt of StoreTriageReport commits; if its answer is lost, Temporal
\* runs the activity again.
StoreReport(n) ==
    /\ runs[n].phase = "storing"
    /\ rows' = StoreTriageReport(rows, n, now, stamp)
    /\ \/ runs' = [runs EXCEPT ![n] = Closed(@, FALSE)]
       \/ UNCHANGED runs
    /\ UNCHANGED <<now, stamp, lock, hook, op, enabled>>

\* The last attempt failed: logged, not fatal.
StoreGivesUp(n) ==
    /\ runs[n].phase = "storing"
    /\ runs' = [runs EXCEPT ![n] = Closed(@, FALSE)]
    /\ UNCHANGED <<now, stamp, rows, lock, hook, op, enabled>>

\* The server closes an execution at its execution timeout; nothing stops a store
\* attempt that a worker is running.
ExecutionTimesOut(n) ==
    /\ Live(n)
    /\ now >= runs[n].started + WorkflowExecutionTimeout
    /\ \E s \in {FALSE, runs[n].phase = "storing"} :
          runs' = [runs EXCEPT ![n] = Closed(@, s)]
    /\ UNCHANGED <<now, stamp, rows, lock, hook, op, enabled>>

\* That attempt commits, or fails.
StrayStore(n) ==
    /\ runs[n].stray
    /\ rows' \in {rows, StoreTriageReport(rows, n, now, stamp)}
    /\ runs' = [runs EXCEPT ![n].stray = FALSE]
    /\ UNCHANGED <<now, stamp, lock, hook, op, enabled>>

RunStep(n) ==
    \/ \E phase \in {"enriching", "triaging"} : AnnouncePhase(n, phase)
    \/ DiagnosisReady(n)
    \/ DiagnosisFails(n)
    \/ StoreReport(n)
    \/ StoreGivesUp(n)
    \/ ExecutionTimesOut(n)
    \/ StrayStore(n)
=============================================================================
