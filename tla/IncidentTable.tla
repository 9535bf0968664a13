--------------------------- MODULE IncidentTable ---------------------------
(***************************************************************************)
(* The rows of triage.reports that belong to one incident identity         *)
(* (namespace, kind, workload, alert name), and the SQL statements the     *)
(* program runs against them, each as an operator on the table.            *)
(* An operator whose name ends in _Something is the one before the         *)
(* underscore with a plausible bug; no specification uses it.              *)
(*                                                                         *)
(* A workflow_id is the identity stem plus an attempt number, so the rows  *)
(* of one identity are a function on attempt numbers.  created and         *)
(* resolvedAt are clock ticks; order ranks created_at below the tick: two  *)
(* rows never have the same microsecond, but may well have the same tick.  *)
(***************************************************************************)
EXTENDS Integers, FiniteSets

CONSTANTS
    MaxAttempt,                 \* bound: attempt numbers the model tells apart
    FlapWindow,                 \* flapWindow, in ticks
    WorkflowExecutionTimeout    \* workflowExecutionTimeout, in ticks

ASSUME TableAssumption ==
    /\ MaxAttempt \in Nat \ {0}
    /\ FlapWindow \in Nat
    /\ WorkflowExecutionTimeout \in Nat

\* The two limits are one constant in the source, so that they cannot drift.
StuckProcessingTTL == WorkflowExecutionTimeout

Attempts == 1..MaxAttempt

\* chk_state: the only values the state column accepts.
States == {"processing", "reported", "acknowledged", "resolved"}

Never == 0    \* SQL NULL in a timestamp column; the clock starts at 1

NoRow == [state |-> "absent", created |-> Never, order |-> 0, resolvedAt |-> Never]

Row == [state : States \cup {"absent"}, created : Nat, order : Nat, resolvedAt : Nat]

Present(rows) == {n \in Attempts : rows[n].state # "absent"}

\* WHERE state != 'resolved'
Unresolved(rows) == {n \in Present(rows) : rows[n].state # "resolved"}

-----------------------------------------------------------------------------
(* Lookups. t is the NOW() of the reading transaction, its start time.      *)

IsStuck_ShortTTL(row, t) ==
    /\ row.state = "processing"
    /\ row.created <= t - (StuckProcessingTTL - 1)

IsStuck(row, t) ==
    /\ row.state = "processing"
    /\ row.created <= t - StuckProcessingTTL

OpenAt(rows, t) == {n \in Unresolved(rows) : ~IsStuck(rows[n], t)}

FlappingAt_NoWindow(rows, t) ==
    \E n \in Present(rows) : rows[n].state = "resolved" /\ rows[n].resolvedAt > t

FlappingAt(rows, t) ==
    \E n \in Present(rows) :
        /\ rows[n].state = "resolved"
        /\ rows[n].resolvedAt > t - FlapWindow

\* ORDER BY created_at DESC LIMIT 1
IsNewest(rows, S, n) == n \in S /\ \A m \in S : rows[m].order <= rows[n].order

-----------------------------------------------------------------------------
(* Writes.                                                                  *)

\* INSERT ... state 'processing', for an attempt that has no row yet.
InsertProcessing(rows, n, t, k) ==
    [rows EXCEPT ![n] = [state |-> "processing", created |-> t, order |-> k,
                         resolvedAt |-> Never]]

\* UPDATE ... SET state = 'resolved', resolved_at = NOW() on the rows of S that
\* satisfy state != 'resolved'.
MarkResolved(rows, S, t) ==
    [n \in Attempts |->
        IF n \in S \cap Unresolved(rows)
        THEN [rows[n] EXCEPT !.state = "resolved", !.resolvedAt = t]
        ELSE rows[n]]

StoreTriageReport_NoGuard(rows, n, t, k) ==
    [rows EXCEPT ![n].state = "reported"]

\* The UPSERT of StoreTriageReport: a new row is 'reported'; an existing one
\* becomes 'reported' unless it is resolved.
StoreTriageReport(rows, n, t, k) ==
    IF rows[n].state = "absent"
    THEN [rows EXCEPT ![n] = [state |-> "reported", created |-> t, order |-> k,
                              resolvedAt |-> Never]]
    ELSE IF rows[n].state = "resolved" THEN rows
    ELSE [rows EXCEPT ![n].state = "reported"]

StateRank(s) == CASE s = "processing"   -> 1
                  [] s = "reported"     -> 2
                  [] s = "acknowledged" -> 3
                  [] s = "resolved"     -> 4
                  [] OTHER              -> 0

\* An internal phase name is stored as the one operator-visible state it stands for.
NormalizedState(s) ==
    IF s \in {"correlating", "enriching", "triaging"} THEN "processing" ELSE s

UpdateIncidentState_RawPhase(rows, n, s) ==
    IF rows[n].state = "processing" THEN [rows EXCEPT ![n].state = s] ELSE rows

UpdateIncidentState_AnyRank(rows, n, s) ==
    IF rows[n].state # "absent"
    THEN [rows EXCEPT ![n].state = NormalizedState(s)] ELSE rows

\* UPDATE ... SET state = s, only where that raises the rank.
UpdateIncidentState(rows, n, s) ==
    IF /\ rows[n].state # "absent"
       /\ StateRank(rows[n].state) < StateRank(NormalizedState(s))
    THEN [rows EXCEPT ![n].state = NormalizedState(s)]
    ELSE rows

\* UPDATE ... SET state = 'acknowledged' WHERE state IN ('processing', 'reported')
CanAcknowledge(row) == row.state \in {"processing", "reported"}
=============================================================================
