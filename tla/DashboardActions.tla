-------------------------- MODULE DashboardActions --------------------------
(***************************************************************************)
(* The dashboard's one-statement actions on an incident, and the           *)
(* kill-switch.  Each runs an auto-committed UPDATE with no stem lock.     *)
(***************************************************************************)
EXTENDS IncidentState

HandleAcknowledge(n) ==
    /\ "acknowledge" \in WebActions
    /\ CanAcknowledge(rows[n])
    /\ rows' = [rows EXCEPT ![n].state = "acknowledged"]
    /\ UNCHANGED <<now, stamp, lock, hook, op, runs, enabled>>

\* WHERE id = $1 AND state != 'resolved'
HandleResolve(n) ==
    /\ "resolve" \in WebActions
    /\ n \in Unresolved(rows)
    /\ rows' = MarkResolved(rows, {n}, now)
    /\ UNCHANGED <<now, stamp, lock, hook, op, runs, enabled>>

\* SetWorkflowsEnabled, as a request sees it: the cache changes value.
SetWorkflowsEnabled ==
    /\ "toggle" \in WebActions
    /\ enabled' = ~enabled
    /\ UNCHANGED <<now, stamp, rows, lock, hook, op, runs>>

DashboardStep ==
    \/ \E n \in Attempts : HandleAcknowledge(n) \/ HandleResolve(n)
    \/ SetWorkflowsEnabled
=============================================================================
