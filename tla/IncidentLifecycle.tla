------------------------- MODULE IncidentLifecycle -------------------------
(***************************************************************************)
(* One incident identity: webhook requests, re-triage requests, dashboard  *)
(* actions and workflow executions, interleaved.  A crash of a worker      *)
(* process is every request it serves failing at the step it is at.        *)
(***************************************************************************)
EXTENDS WebhookRequest, RetriageRequest, DashboardActions, TriageRuns

\* The bounds let nothing more arrive; without this step TLC would call the end of
\* a bounded behaviour a deadlock.
BoundsReached ==
    /\ stamp >= MaxStamp
    /\ now = MaxTime
    /\ \A h \in Hooks : hook[h].pc = "idle"
    /\ \A o \in Operators : op[o].pc = "idle"
    /\ lock = NoHook
    /\ UNCHANGED vars

Next ==
    \/ \E h \in Hooks : HandleWebhook(h)
    \/ ReapSession
    \/ \E o \in Operators : HandleRetriage(o)
    \/ DashboardStep
    \/ \E n \in Attempts : RunStep(n)
    \/ Tick
    \/ BoundsReached

Spec == Init /\ [][Next]_vars

TypeOK ==
    /\ now \in Nat
    /\ stamp \in Nat
    /\ rows \in [Attempts -> Row]
    /\ lock \in Hooks \cup {NoHook, DeadSession}
    /\ hook \in [Hooks -> HookRecord]
    /\ op \in [Operators -> OpRecord]
    /\ runs \in [Attempts -> Run]
    /\ enabled \in BOOLEAN

-----------------------------------------------------------------------------
(* What holds however the requests, operators and runs interleave.          *)

\* The attempts with a row are 1, 2, ..., k: neither the webhook's mint nor the
\* re-triage's unlocked probe ever leaves a gap or extends past one.
AttemptsContiguous ==
    \A n \in Present(rows) : \A m \in 1..n : m \in Present(rows)

\* A workflow execution exists only for an attempt whose row is committed, so that
\* StoreTriageReport always finds a row to complete.
RunHasRow ==
    \A n \in Attempts : runs[n].phase # "none" => n \in Present(rows)

\* No step changes a resolved row: a late report, a repeated activity or an
\* operator's click never reopens it or moves its resolved_at.
ResolvedIsFinal ==
    [][\A n \in Attempts : rows[n].state = "resolved" => rows'[n] = rows[n]]_vars

\* The lifecycle implements the ledger of IncidentLedger.
Ledger == INSTANCE IncidentLedger WITH
             status  <- [n \in Attempts |-> rows[n].state],
             started <- {n \in Attempts : runs[n].phase # "none"}

ImplementsLedger == Ledger!LedgerSpec

-----------------------------------------------------------------------------
(* What the stem lock and the lookups give when only webhooks mint attempts. *)

\* Two unresolved rows of one identity exist only when the older one was a stuck
\* orphan: the newer was minted at least stuckProcessingTTL after it.
OpenRowsFarApart ==
    \A m, n \in Unresolved(rows) :
        m < n => rows[n].created >= rows[m].created + StuckProcessingTTL

\* created_at orders attempts as their numbers do, although a mint stamps its row
\* with the time its transaction began, before it waited for the lock: what the
\* history lookup takes for granted when it extends the newest row.
CreationOrder ==
    \A m, n \in Present(rows) : m < n => rows[m].order < rows[n].order

\* A request about to insert inserts: the "stale row outside the lock path" error
\* never happens.
MintIsFresh ==
    \A h \in Hooks :
        (hook[h].pc = "insert" /\ hook[h].wf \in Attempts)
            => rows[hook[h].wf].state = "absent"

\* A request past the flap check mints only while no row of the identity resolved
\* within the window before it: no resolve slips in between the check and the insert.
FlapGuardHolds ==
    \A h \in Hooks :
        hook[h].pc \in {"history", "insert"} =>
            \A n \in Present(rows) :
                rows[n].state = "resolved" => hook[h].at - rows[n].resolvedAt >= FlapWindow
=============================================================================
