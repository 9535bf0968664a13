--------------------------- MODULE WebhookRequest ---------------------------
(***************************************************************************)
(* handleWebhook for one identity: apply resolves, ask the kill-switch,    *)
(* pick or mint the workflow_id under the per-stem advisory lock, signal.  *)
(* Every statement is a step of its own, because other requests, the       *)
(* dashboard and the workflows run between any two of them; statements run *)
(* under READ COMMITTED and see what is committed when they start, while   *)
(* NOW() stays the time of BEGIN.                                          *)
(***************************************************************************)
EXTENDS IncidentState

At(h, pc)   == hook[h].pc = pc
Goto(h, pc) == hook' = [hook EXCEPT ![h].pc = pc]
Finish(h)   == hook' = [hook EXCEPT ![h] = IdleHook]

\* COMMIT or ROLLBACK releases the transaction-scoped lock.
Release(h) == lock' = IF lock = h THEN NoHook ELSE lock

\* rollbackOnReturn: a ROLLBACK that fails leaves the lock with a transaction
\* nobody runs any more, until Postgres reaps its session.
RollBack(h) == lock' \in IF lock = h THEN {NoHook, DeadSession} ELSE {lock}

ReapSession ==
    /\ lock = DeadSession
    /\ lock' = NoHook
    /\ UNCHANGED <<now, stamp, rows, hook, op, runs, enabled>>

\* A request that the checks at the head of handleWebhook let through.
Arrive(h, k) ==
    /\ At(h, "idle")
    /\ stamp < MaxStamp
    /\ hook' = [hook EXCEPT ![h] =
                  [IdleHook EXCEPT !.pc = IF k = "firing" THEN "gate" ELSE "resolveBegin",
                                   !.kind = k, !.at = now]]
    /\ UNCHANGED <<now, stamp, rows, lock, op, runs, enabled>>

\* BEGIN: fixes NOW() for the whole transaction, before the lock is requested.
Begin(h, from, to) ==
    /\ At(h, from)
    /\ stamp' = stamp + 1
    /\ hook' = [hook EXCEPT ![h] = [@ EXCEPT !.pc = to, !.at = now, !.order = stamp + 1]]
    /\ UNCHANGED <<now, rows, lock, op, runs, enabled>>

AcquireStemLock_NoWait(h, from, to) ==
    /\ At(h, from)
    /\ lock' = h
    /\ Goto(h, to)
    /\ UNCHANGED <<now, stamp, rows, op, runs, enabled>>

AcquireStemLock(h, from, to) ==
    /\ At(h, from)
    /\ lock = NoHook
    /\ lock' = h
    /\ Goto(h, to)
    /\ UNCHANGED <<now, stamp, rows, op, runs, enabled>>

-----------------------------------------------------------------------------
(* resolveByStem.                                                           *)

\* A mixed group goes on to its firing alerts, whether or not the resolve failed.
AfterResolve(h) ==
    IF hook[h].kind = "mixed"
    THEN hook' = [hook EXCEPT ![h] = [IdleHook EXCEPT !.pc = "gate", !.at = hook[h].at]]
    ELSE Finish(h)

ResolveUpdate(h) ==
    /\ At(h, "resolveUpdate")
    /\ rows' = MarkResolved(rows, Attempts, hook[h].at)
    /\ Release(h)
    /\ AfterResolve(h)
    /\ UNCHANGED <<now, stamp, op, runs, enabled>>

\* A statement of the transaction fails.  (A COMMIT that applied but was not
\* acknowledged leaves the tables as ResolveUpdate does.)
ResolveFails(h) ==
    /\ hook[h].pc \in ResolvePCs
    /\ RollBack(h)
    /\ AfterResolve(h)
    /\ UNCHANGED <<now, stamp, rows, op, runs, enabled>>

ResolveByStem(h) ==
    \/ Begin(h, "resolveBegin", "resolveLock")
    \/ AcquireStemLock(h, "resolveLock", "resolveUpdate")
    \/ ResolveUpdate(h)
    \/ ResolveFails(h)

-----------------------------------------------------------------------------
(* resolveWorkflowID.                                                       *)

\* The kill-switch is read once, from the cache.
Gate(h) ==
    /\ At(h, "gate")
    /\ IF enabled THEN Goto(h, "begin") ELSE Finish(h)
    /\ UNCHANGED <<now, stamp, rows, lock, op, runs, enabled>>

\* Rule 1: reuse the newest open row that is not a stuck orphan.
OpenLookup(h) ==
    /\ At(h, "lookup")
    /\ LET open == OpenAt(rows, hook[h].at)
       IN  \/ \E n \in open :
                 /\ IsNewest(rows, open, n)
                 /\ Release(h)
                 /\ hook' = [hook EXCEPT ![h] = [@ EXCEPT !.pc = "signal", !.wf = n]]
           \/ /\ open = {}
              /\ Goto(h, "flap")
              /\ UNCHANGED lock
    /\ UNCHANGED <<now, stamp, rows, op, runs, enabled>>

\* Rule 2: drop the firing when the identity resolved within the flap window.
FlapCheck(h) ==
    /\ At(h, "flap")
    /\ IF FlappingAt(rows, hook[h].at)
       THEN Release(h) /\ Finish(h)
       ELSE Goto(h, "history") /\ UNCHANGED lock
    /\ UNCHANGED <<now, stamp, rows, op, runs, enabled>>

\* Rule 3: the attempt after the newest row's.
HistoryLookup(h) ==
    /\ At(h, "history")
    /\ \/ \E n \in Present(rows) :
             /\ IsNewest(rows, Present(rows), n)
             /\ hook' = [hook EXCEPT ![h] = [@ EXCEPT !.pc = "insert", !.wf = n + 1]]
       \/ /\ Present(rows) = {}
          /\ hook' = [hook EXCEPT ![h] = [@ EXCEPT !.pc = "insert", !.wf = 1]]
    /\ UNCHANGED <<now, stamp, rows, lock, op, runs, enabled>>

Insert_NoCommit(h) ==
    /\ At(h, "insert")
    /\ hook[h].wf \in Attempts
    /\ rows[hook[h].wf].state = "absent"
    /\ Release(h)
    /\ Goto(h, "signal")
    /\ UNCHANGED <<now, stamp, rows, op, runs, enabled>>

\* INSERT ... ON CONFLICT DO NOTHING, then COMMIT.  (wf \in Attempts is the
\* bound MaxAttempt.)
Insert(h) ==
    /\ At(h, "insert")
    /\ hook[h].wf \in Attempts
    /\ rows[hook[h].wf].state = "absent"
    /\ rows' = InsertProcessing(rows, hook[h].wf, hook[h].at, hook[h].order)
    /\ Release(h)
    /\ Goto(h, "signal")
    /\ UNCHANGED <<now, stamp, op, runs, enabled>>

\* No row affected: the error that calls the conflicting row stale.
InsertConflict(h) ==
    /\ At(h, "insert")
    /\ hook[h].wf \in Attempts
    /\ rows[hook[h].wf].state # "absent"
    /\ RollBack(h)
    /\ Finish(h)
    /\ UNCHANGED <<now, stamp, rows, op, runs, enabled>>

\* Any statement fails and the transaction rolls back.  (A COMMIT that applied but
\* was not acknowledged is Insert followed by SignalFails.)
MintFails(h) ==
    /\ hook[h].pc \in MintPCs
    /\ RollBack(h)
    /\ Finish(h)
    /\ UNCHANGED <<now, stamp, rows, op, runs, enabled>>

ResolveWorkflowID(h) ==
    \/ Begin(h, "begin", "lock")
    \/ AcquireStemLock(h, "lock", "lookup")
    \/ OpenLookup(h)
    \/ FlapCheck(h)
    \/ HistoryLookup(h)
    \/ Insert(h)
    \/ InsertConflict(h)
    \/ MintFails(h)

-----------------------------------------------------------------------------
\* signalWithStart, after the lock is gone.  The last call may fail and yet have
\* reached the server.
Signal(h) ==
    /\ At(h, "signal")
    /\ runs' = SignalWithStart(runs, hook[h].wf, now)
    /\ Finish(h)
    /\ UNCHANGED <<now, stamp, rows, lock, op, enabled>>

SignalFails(h) ==
    /\ At(h, "signal")
    /\ Finish(h)
    /\ UNCHANGED <<now, stamp, rows, lock, op, runs, enabled>>

HandleWebhook(h) ==
    \/ \E k \in Kinds : Arrive(h, k)
    \/ ResolveByStem(h)
    \/ Gate(h)
    \/ ResolveWorkflowID(h)
    \/ Signal(h)
    \/ SignalFails(h)
=============================================================================
