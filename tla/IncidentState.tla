--------------------------- MODULE IncidentState ---------------------------
(***************************************************************************)
(* The state that the webhook, the re-triage path, the dashboard actions   *)
(* and the Temporal workflows of one incident identity share: the rows,    *)
(* the per-stem advisory lock, the workflow executions, the kill-switch,   *)
(* and the clock Postgres and Temporal read.  Each component's module      *)
(* EXTENDS this one and defines the actions of that component;             *)
(* IncidentLifecycle composes them.                                        *)
(***************************************************************************)
EXTENDS IncidentTable

CONSTANTS
    Hooks,          \* webhook requests that can be in flight at once
    Operators,      \* dashboard re-triage requests that can be in flight at once
    NoHook,         \* the advisory lock is free
    DeadSession,    \* the advisory lock is held by a transaction nobody runs
    WebActions,     \* which dashboard actions happen: "acknowledge", "resolve", "toggle"
    MaxAttemptProbe,\* maxAttemptProbe
    MaxActive,      \* the cap on active versions in handleRetriage
    HandlingBound,  \* bound: ticks an HTTP request may span
    MaxTime,        \* bound: last tick of the clock
    MaxStamp        \* bound: no request arrives once this many transactions began

ASSUME StateAssumption ==
    /\ NoHook \notin Hooks
    /\ DeadSession \notin Hooks \cup {NoHook}
    /\ WebActions \subseteq {"acknowledge", "resolve", "toggle"}
    /\ MaxAttemptProbe \in Nat
    /\ MaxActive \in Nat
    /\ HandlingBound \in Nat
    /\ MaxTime \in Nat
    /\ MaxStamp \in Nat

VARIABLES
    now,      \* the current tick
    stamp,    \* transactions begun so far: orders created_at within a tick
    rows,     \* the identity's rows in triage.reports
    lock,     \* holder of pg_advisory_xact_lock(advisoryLockKey1, hashtext(stem))
    hook,     \* the webhook requests in flight
    op,       \* the re-triage requests in flight
    runs,     \* the Temporal execution of each workflow_id
    enabled   \* the kill-switch's cached value, WorkflowsEnabled()

vars == <<now, stamp, rows, lock, hook, op, runs, enabled>>

NoAttempt == 0

(* Webhook requests: the groups Alertmanager sends for this identity, and    *)
(* where a request stands.                                                   *)
Kinds == {"firing", "resolved", "mixed"}

ResolvePCs == {"resolveBegin", "resolveLock", "resolveUpdate"}
MintPCs    == {"begin", "lock", "lookup", "flap", "history", "insert"}
HookPCs    == {"idle", "gate", "signal"} \cup ResolvePCs \cup MintPCs

\* The statements that run between the lock statement and commit or rollback.
CriticalPCs == {"resolveUpdate", "lookup", "flap", "history", "insert"}

IdleHook == [pc |-> "idle", kind |-> "firing", at |-> 0, order |-> 0,
             wf |-> NoAttempt]

HookRecord == [pc : HookPCs, kind : Kinds, at : Nat, order : Nat, wf : Nat]

(* Re-triage requests.  from is the attempt the operator clicked on, next the *)
(* one to probe or, once reserved, to start.                                  *)
OpPCs    == {"idle", "cap", "probe", "start"}
IdleOp   == [pc |-> "idle", at |-> 0, from |-> NoAttempt, next |-> NoAttempt]
OpRecord == [pc : OpPCs, at : Nat, from : Nat, next : Nat]

(* Workflow executions, one per workflow_id.  stray: an attempt of its store  *)
(* still runs although the execution is over.                                 *)
LivePhases == {"diagnosing", "storing"}
Phases     == LivePhases \cup {"none", "closed"}
NoRun      == [phase |-> "none", started |-> 0, stray |-> FALSE]
Run        == [phase : Phases, started : Nat, stray : BOOLEAN]

Live(n) == runs[n].phase \in LivePhases

\* SignalWithStartWorkflow under USE_EXISTING and the default reuse policy: a
\* running execution takes the signal, otherwise a new one starts under the ID.
SignalWithStart(rs, n, t) ==
    IF rs[n].phase \in LivePhases THEN rs
    ELSE [rs EXCEPT ![n] = [@ EXCEPT !.phase = "diagnosing", !.started = t]]

\* The execution ends; s: one more store attempt outlives it.
Closed(run, s) == [phase |-> "closed", started |-> 0, stray |-> run.stray \/ s]

-----------------------------------------------------------------------------
(* Time.  No request outlives HandlingBound (its client gives up and the      *)
(* request context ends) and no execution outlives its execution timeout.     *)
Tick ==
    /\ now < MaxTime
    /\ \A h \in Hooks : hook[h].pc # "idle" => now < hook[h].at + HandlingBound
    /\ \A o \in Operators : op[o].pc # "idle" => now < op[o].at + HandlingBound
    /\ \A n \in Attempts : Live(n) => now < runs[n].started + WorkflowExecutionTimeout
    /\ now' = now + 1
    /\ UNCHANGED <<stamp, rows, lock, hook, op, runs, enabled>>

Init ==
    /\ now = 1
    /\ stamp = 0
    /\ rows = [n \in Attempts |-> NoRow]
    /\ lock = NoHook
    /\ hook = [h \in Hooks |-> IdleHook]
    /\ op = [o \in Operators |-> IdleOp]
    /\ runs = [n \in Attempts |-> NoRun]
    /\ enabled = TRUE
=============================================================================
