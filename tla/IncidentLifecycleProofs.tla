---------------------- MODULE IncidentLifecycleProofs ----------------------
(***************************************************************************)
(* Theorems about IncidentLifecycle, for any number of webhook requests,   *)
(* re-triage requests and attempts, and any time limits.                   *)
(***************************************************************************)
EXTENDS IncidentLifecycle, TLAPS

-----------------------------------------------------------------------------
(* What the statements do to a table.                                       *)

\* Resolving rows keeps the table well formed, removes no row and leaves rows
\* already resolved as they are: resolved_at is never overwritten.
LEMMA MarkResolvedType ==
    ASSUME NEW tbl \in [Attempts -> Row], NEW S, NEW t \in Nat
    PROVE  /\ MarkResolved(tbl, S, t) \in [Attempts -> Row]
           /\ Present(MarkResolved(tbl, S, t)) = Present(tbl)
           /\ \A n \in Attempts : tbl[n].state = "resolved" => MarkResolved(tbl, S, t)[n] = tbl[n]
BY DEF MarkResolved, Row, States, Present, Unresolved

\* The preliminary insert gives exactly one more attempt a row.
LEMMA InsertProcessingType ==
    ASSUME NEW tbl \in [Attempts -> Row], NEW n \in Attempts, NEW t \in Nat, NEW k \in Nat
    PROVE  /\ InsertProcessing(tbl, n, t, k) \in [Attempts -> Row]
           /\ Present(InsertProcessing(tbl, n, t, k)) = Present(tbl) \cup {n}
BY DEF InsertProcessing, Row, States, Present, Never

\* Storing a report on an existing row adds and removes none, and the UPSERT's
\* CASE leaves a resolved row alone.
LEMMA StoreTriageReportType ==
    ASSUME NEW tbl \in [Attempts -> Row], NEW n \in Present(tbl), NEW t \in Nat, NEW k \in Nat
    PROVE  /\ StoreTriageReport(tbl, n, t, k) \in [Attempts -> Row]
           /\ Present(StoreTriageReport(tbl, n, t, k)) = Present(tbl)
           /\ \A m \in Attempts : tbl[m].state = "resolved" => StoreTriageReport(tbl, n, t, k)[m] = tbl[m]
BY DEF StoreTriageReport, Row, States, Present, Never

\* Announcing a phase changes no row: both phase names normalise to 'processing',
\* which outranks nothing.
LEMMA UpdateIncidentStateType ==
    ASSUME NEW tbl \in [Attempts -> Row], NEW n \in Attempts,
           NEW s \in {"enriching", "triaging"}
    PROVE  UpdateIncidentState(tbl, n, s) = tbl
BY DEF UpdateIncidentState, Row, States, NormalizedState, StateRank

\* A signal-with-start can only start the execution it names.
LEMMA SignalWithStartType ==
    ASSUME NEW rs \in [Attempts -> Run], NEW n \in Attempts, NEW t \in Nat
    PROVE  /\ SignalWithStart(rs, n, t) \in [Attempts -> Run]
           /\ \A m \in Attempts : SignalWithStart(rs, n, t)[m].phase # "none"
                                    => m = n \/ rs[m].phase # "none"
           /\ SignalWithStart(rs, n, t)[n].phase # "none"
           /\ \A m \in Attempts : rs[m].phase # "none" => SignalWithStart(rs, n, t)[m].phase # "none"
           /\ \A m \in Attempts : SignalWithStart(rs, n, t)[m].stray => rs[m].stray
<1>1. ASSUME rs[n].phase \notin LivePhases
      PROVE  [rs[n] EXCEPT !.phase = "diagnosing", !.started = t] \in Run
  BY DEF Run, Phases, LivePhases
<1>2. QED
  BY <1>1 DEF SignalWithStart, Run, LivePhases

\* A run that ends is still a run that was started.
LEMMA ClosedType ==
    ASSUME NEW run \in Run, NEW s \in BOOLEAN
    PROVE  Closed(run, s) \in Run /\ Closed(run, s).phase = "closed"
BY DEF Closed, Run, Phases
-----------------------------------------------------------------------------
(* The state of a request in flight is only ever a claim about rows that    *)
(* exist, and rows never go away.                                           *)

\* Every attempt below k has a row.
AllBelow(k) == \A m \in 1..(k - 1) : m \in Present(rows)

HookClaims ==
    \A h \in Hooks :
        /\ hook[h].pc = "insert" => AllBelow(hook[h].wf)
        /\ hook[h].pc = "signal" => hook[h].wf \in Present(rows)

OpClaims ==
    \A o \in Operators :
        /\ op[o].pc \in {"cap", "probe"} => AllBelow(op[o].next)
        /\ op[o].pc = "start" => op[o].next \in Present(rows)

\* A store attempt that outlives its execution belongs to one that ran.
StrayWasRun == \A n \in Attempts : runs[n].stray => runs[n].phase # "none"

IInv == TypeOK /\ AttemptsContiguous /\ RunHasRow /\ StrayWasRun /\ HookClaims /\ OpClaims

\* An attempt that may be given a row without leaving a gap.
Grows == \E n \in Attempts : AllBelow(n) /\ Present(rows') = Present(rows) \cup {n}

\* The empty table, with nothing in flight, satisfies the invariant.
LEMMA InitIInv == Init => IInv
<1> SUFFICES ASSUME Init PROVE IInv
  OBVIOUS
<1>1. Present(rows) = {}
  BY DEF Init, Present, NoRow
<1>2. TypeOK
  BY StateAssumption DEF Init, TypeOK, NoRow, Row, Never, States, IdleHook, HookRecord, HookPCs,
     ResolvePCs, MintPCs, Kinds, NoAttempt, IdleOp, OpRecord, OpPCs, NoRun, Run, Phases, LivePhases
<1>3. RunHasRow /\ StrayWasRun
  BY DEF Init, RunHasRow, StrayWasRun, NoRun
<1>4. QED
  BY <1>1, <1>2, <1>3 DEF Init, IInv, AttemptsContiguous, HookClaims, OpClaims, IdleHook, IdleOp

-----------------------------------------------------------------------------
(* Type correctness, component by component.                                *)

\* What the webhook's steps store for a request is a request record.
LEMMA HookRecords ==
    ASSUME NEW r \in HookRecord, NEW pc \in HookPCs, NEW k \in Kinds,
           NEW at \in Nat, NEW order \in Nat, NEW wf \in Nat
    PROVE  /\ IdleHook \in HookRecord
           /\ [IdleHook EXCEPT !.pc = pc, !.at = at] \in HookRecord
           /\ [IdleHook EXCEPT !.pc = pc, !.kind = k, !.at = at] \in HookRecord
           /\ [r EXCEPT !.pc = pc] \in HookRecord
           /\ [r EXCEPT !.pc = pc, !.at = at, !.order = order] \in HookRecord
           /\ [r EXCEPT !.pc = pc, !.wf = wf] \in HookRecord
BY DEF HookRecord, IdleHook, HookPCs, Kinds, NoAttempt

\* Every pc a request can be sent to.
LEMMA HookPCNames ==
    /\ {"idle", "gate", "signal", "resolveBegin", "resolveLock", "resolveUpdate"} \subseteq HookPCs
    /\ {"begin", "lock", "lookup", "flap", "history", "insert"} \subseteq HookPCs
BY DEF HookPCs, ResolvePCs, MintPCs

\* The three ways a webhook step leaves its request keep it well formed.
LEMMA GotoType ==
    ASSUME TypeOK, NEW h \in Hooks
    PROVE  /\ \A pc \in HookPCs : Goto(h, pc) => hook' \in [Hooks -> HookRecord]
           /\ Finish(h) => hook' \in [Hooks -> HookRecord]
           /\ AfterResolve(h) => hook' \in [Hooks -> HookRecord]
<1>1. hook[h] \in HookRecord /\ hook[h].at \in Nat
  BY DEF TypeOK, HookRecord
<1>2. ASSUME NEW pc \in HookPCs, Goto(h, pc) PROVE hook' \in [Hooks -> HookRecord]
  <2>1. [hook[h] EXCEPT !.pc = pc] \in HookRecord
    BY <1>1 DEF HookRecord
  <2>2. QED
    BY <1>2, <2>1 DEF Goto, TypeOK
<1>3. IdleHook \in HookRecord
  BY DEF HookRecord, IdleHook, HookPCs, Kinds, NoAttempt
<1>4. [IdleHook EXCEPT !.pc = "gate", !.at = hook[h].at] \in HookRecord
  BY <1>1 DEF HookRecord, IdleHook, HookPCs, Kinds, NoAttempt
<1>5. QED
  BY <1>2, <1>3, <1>4 DEF Finish, AfterResolve, TypeOK

\* COMMIT and ROLLBACK leave the lock free, dead, or where it was.
LEMMA LockType ==
    ASSUME TypeOK, NEW h \in Hooks, Release(h) \/ RollBack(h) \/ UNCHANGED lock
    PROVE  lock' \in Hooks \cup {NoHook, DeadSession}
BY DEF TypeOK, Release, RollBack

\* A signal keeps the executions well formed.
LEMMA SignalType ==
    ASSUME TypeOK, NEW n \in Attempts, runs' = SignalWithStart(runs, n, now)
    PROVE  runs' \in [Attempts -> Run]
BY SignalWithStartType DEF TypeOK

\* The signalled attempt has a row, so it is an attempt number.
LEMMA WebhookTypeOK ==
    ASSUME TypeOK, HookClaims, NEW h \in Hooks, HandleWebhook(h)
    PROVE  TypeOK'
<1>0. /\ hook[h] \in HookRecord
      /\ hook[h].at \in Nat
      /\ hook[h].order \in Nat
      /\ now \in Nat
      /\ stamp + 1 \in Nat
  BY DEF TypeOK, HookRecord
<1>1. ASSUME NEW k \in Kinds, Arrive(h, k) PROVE TypeOK'
  <2>1. PICK pc \in HookPCs : hook' = [hook EXCEPT ![h] =
                                  [IdleHook EXCEPT !.pc = pc, !.kind = k, !.at = now]]
    BY <1>1, HookPCNames DEF Arrive
  <2>2. [IdleHook EXCEPT !.pc = pc, !.kind = k, !.at = now] \in HookRecord
    BY <1>0, HookRecords
  <2>3. QED
    BY <1>1, <2>1, <2>2 DEF Arrive, TypeOK
<1>2. ASSUME NEW from \in HookPCs, NEW to \in HookPCs, Begin(h, from, to) PROVE TypeOK'
  <2>1. [hook[h] EXCEPT !.pc = to, !.at = now, !.order = stamp + 1] \in HookRecord
    BY <1>0, HookRecords DEF Kinds
  <2>2. QED
    BY <1>0, <1>2, <2>1 DEF Begin, TypeOK
<1>3. ASSUME NEW from \in HookPCs, NEW to \in HookPCs, AcquireStemLock(h, from, to) PROVE TypeOK'
  BY <1>3, GotoType DEF AcquireStemLock, TypeOK
<1>4. CASE ResolveUpdate(h)
  <2>1. rows' \in [Attempts -> Row]
    BY <1>0, <1>4, MarkResolvedType DEF ResolveUpdate, TypeOK
  <2>2. QED
    BY <1>4, <2>1, GotoType, LockType DEF ResolveUpdate, TypeOK
<1>5. CASE ResolveFails(h)
  BY <1>5, GotoType, LockType DEF ResolveFails, TypeOK
<1>6. CASE Gate(h)
  BY <1>6, GotoType, HookPCNames DEF Gate, TypeOK
<1>7. CASE OpenLookup(h)
  <2>1. lock' \in Hooks \cup {NoHook, DeadSession}
    BY <1>7, LockType DEF OpenLookup
  <2>2. hook' \in [Hooks -> HookRecord]
    <3>1. ASSUME NEW n \in OpenAt(rows, hook[h].at),
                 hook' = [hook EXCEPT ![h] = [@ EXCEPT !.pc = "signal", !.wf = n]]
          PROVE  hook' \in [Hooks -> HookRecord]
      <4>1. n \in Nat
        BY DEF OpenAt, Unresolved, Present, Attempts
      <4>2. [hook[h] EXCEPT !.pc = "signal", !.wf = n] \in HookRecord
        BY <1>0, <4>1, HookRecords, HookPCNames DEF Kinds
      <4>3. QED
        BY <3>1, <4>2 DEF TypeOK
    <3>2. CASE Goto(h, "flap")
      BY <3>2, GotoType, HookPCNames
    <3>3. QED
      BY <1>7, <3>1, <3>2 DEF OpenLookup
  <2>3. QED
    BY <1>7, <2>1, <2>2 DEF OpenLookup, TypeOK
<1>8. CASE FlapCheck(h)
  BY <1>8, GotoType, LockType, HookPCNames DEF FlapCheck, TypeOK
<1>9. CASE HistoryLookup(h)
  <2>1. ASSUME NEW n \in Nat,
               hook' = [hook EXCEPT ![h] = [@ EXCEPT !.pc = "insert", !.wf = n]]
        PROVE  hook' \in [Hooks -> HookRecord]
    <3>1. [hook[h] EXCEPT !.pc = "insert", !.wf = n] \in HookRecord
      BY <1>0, HookRecords, HookPCNames DEF Kinds
    <3>2. QED
      BY <2>1, <3>1 DEF TypeOK
  <2>2. \A n \in Present(rows) : n + 1 \in Nat
    BY DEF Present, Attempts
  <2>3. hook' \in [Hooks -> HookRecord]
    BY <1>9, <2>1, <2>2 DEF HistoryLookup
  <2>4. QED
    BY <1>9, <2>3 DEF HistoryLookup, TypeOK
<1>10. CASE Insert(h)
  <2>1. rows' \in [Attempts -> Row]
    BY <1>0, <1>10, InsertProcessingType DEF Insert, TypeOK
  <2>2. QED
    BY <1>10, <2>1, GotoType, LockType, HookPCNames DEF Insert, TypeOK
<1>11. CASE InsertConflict(h)
  BY <1>11, GotoType, LockType DEF InsertConflict, TypeOK
<1>12. CASE MintFails(h)
  BY <1>12, GotoType, LockType DEF MintFails, TypeOK
<1>13. CASE Signal(h)
  <2>1. hook[h].wf \in Attempts
    BY <1>13 DEF Signal, At, HookClaims, Present
  <2>2. QED
    BY <1>13, <2>1, GotoType, SignalType DEF Signal, TypeOK
<1>14. CASE SignalFails(h)
  BY <1>14, GotoType DEF SignalFails, TypeOK
<1>15. QED
  BY <1>1, <1>2, <1>3, <1>4, <1>5, <1>6, <1>7, <1>8, <1>9, <1>10, <1>11, <1>12, <1>13, <1>14,
     HookPCNames DEF HandleWebhook, ResolveByStem, ResolveWorkflowID

\* A re-triage step keeps every variable well formed.
LEMMA RetriageTypeOK ==
    ASSUME TypeOK, OpClaims, NEW o \in Operators, HandleRetriage(o)
    PROVE  TypeOK'
<1>0. op[o] \in OpRecord /\ now \in Nat /\ stamp + 1 \in Nat /\ IdleOp \in OpRecord
  BY DEF TypeOK, IdleOp, OpRecord, OpPCs, NoAttempt
<1>1. ASSUME NEW n \in Attempts, ReadIncident(o, n) PROVE TypeOK'
  <2>1. [pc |-> "cap", at |-> now, from |-> n, next |-> n + 1] \in OpRecord
    BY <1>0 DEF OpRecord, OpPCs, Attempts
  <2>2. QED
    BY <1>1, <2>1 DEF ReadIncident, TypeOK
<1>2. CASE CheckCap(o)
  <2>1. [op[o] EXCEPT !.pc = "probe"] \in OpRecord
    BY <1>0 DEF OpRecord, OpPCs
  <2>2. QED
    BY <1>0, <1>2, <2>1 DEF CheckCap, TypeOK
<1>3. CASE Reserve(o)
  <2>1. rows' \in [Attempts -> Row]
    BY <1>0, <1>3, InsertProcessingType DEF Reserve, TypeOK
  <2>2. [op[o] EXCEPT !.pc = "start"] \in OpRecord
    BY <1>0 DEF OpRecord, OpPCs
  <2>3. QED
    BY <1>0, <1>3, <2>1, <2>2 DEF Reserve, TypeOK
<1>4. CASE ProbeNext(o)
  <2>1. [op[o] EXCEPT !.next = @ + 1] \in OpRecord
    BY <1>0 DEF OpRecord, OpPCs
  <2>2. QED
    BY <1>4, <2>1 DEF ProbeNext, TypeOK
<1>5. CASE StartRetriage(o)
  <2>1. op[o].next \in Attempts
    BY <1>5 DEF StartRetriage, OpAt, OpClaims, Present
  <2>2. QED
    BY <1>0, <1>5, <2>1, SignalType DEF StartRetriage, TypeOK
<1>6. CASE RetriageFails(o)
  BY <1>0, <1>6 DEF RetriageFails, TypeOK
<1>7. QED
  BY <1>1, <1>2, <1>3, <1>4, <1>5, <1>6 DEF HandleRetriage

\* A dashboard action keeps every variable well formed.
LEMMA DashboardTypeOK ==
    ASSUME TypeOK, DashboardStep
    PROVE  TypeOK'
<1> USE DEF TypeOK
<1>1. ASSUME NEW n \in Attempts, HandleAcknowledge(n) PROVE TypeOK'
  BY <1>1 DEF HandleAcknowledge, Row, States
<1>2. ASSUME NEW n \in Attempts, HandleResolve(n) PROVE TypeOK'
  BY <1>2, MarkResolvedType DEF HandleResolve
<1>3. CASE SetWorkflowsEnabled
  BY <1>3 DEF SetWorkflowsEnabled
<1>4. QED
  BY <1>1, <1>2, <1>3 DEF DashboardStep

\* A workflow step keeps every variable well formed.
LEMMA RunTypeOK ==
    ASSUME TypeOK, RunHasRow, StrayWasRun, NEW n \in Attempts, RunStep(n)
    PROVE  TypeOK'
<1>0. /\ rows \in [Attempts -> Row]
      /\ runs \in [Attempts -> Run]
      /\ runs[n] \in Run
      /\ now \in Nat /\ stamp \in Nat
      /\ FALSE \in BOOLEAN /\ (runs[n].phase = "storing") \in BOOLEAN
  BY DEF TypeOK
<1>1. ASSUME NEW phase \in {"enriching", "triaging"}, AnnouncePhase(n, phase) PROVE TypeOK'
  BY <1>1, UpdateIncidentStateType DEF AnnouncePhase, TypeOK
<1>2. ASSUME NEW s \in BOOLEAN, runs' = [runs EXCEPT ![n] = Closed(@, s)]
      PROVE  runs' \in [Attempts -> Run]
  <2>1. Closed(runs[n], s) \in Run
    BY <1>0, ClosedType
  <2>2. QED
    BY <1>0, <1>2, <2>1
<1>3. CASE DiagnosisReady(n)
  <2>1. [runs[n] EXCEPT !.phase = "storing"] \in Run
    BY <1>0 DEF Run, Phases, LivePhases
  <2>2. QED
    BY <1>3, <2>1 DEF DiagnosisReady, TypeOK
<1>4. CASE DiagnosisFails(n) \/ StoreGivesUp(n)
  BY <1>2, <1>4 DEF DiagnosisFails, StoreGivesUp, TypeOK
<1>5. CASE StoreReport(n) \/ StrayStore(n)
  <2>1. n \in Present(rows)
    BY <1>0, <1>5 DEF StoreReport, StrayStore, RunHasRow, StrayWasRun
  <2>2. rows' \in [Attempts -> Row]
    <3>1. StoreTriageReport(rows, n, now, stamp) \in [Attempts -> Row]
      BY <1>0, <2>1, StoreTriageReportType
    <3>2. rows' = rows \/ rows' = StoreTriageReport(rows, n, now, stamp)
      BY <1>5 DEF StoreReport, StrayStore
    <3>3. QED
      BY <1>0, <3>1, <3>2
  <2>3. [runs[n] EXCEPT !.stray = FALSE] \in Run
    BY <1>0 DEF Run
  <2>4. runs' \in [Attempts -> Run]
    <3>1. CASE StoreReport(n)
      BY <1>0, <1>2, <3>1 DEF StoreReport
    <3>2. CASE StrayStore(n)
      BY <1>0, <2>3, <3>2 DEF StrayStore
    <3>3. QED
      BY <1>5, <3>1, <3>2
  <2>5. QED
    BY <1>5, <2>2, <2>4 DEF StoreReport, StrayStore, TypeOK
<1>6. CASE ExecutionTimesOut(n)
  BY <1>0, <1>2, <1>6 DEF ExecutionTimesOut, TypeOK
<1>7. QED
  BY <1>1, <1>3, <1>4, <1>5, <1>6 DEF RunStep

\* Type correctness is inductive together with the requests' claims.
LEMMA NextTypeOK == IInv /\ [Next]_vars => TypeOK'
<1> SUFFICES ASSUME IInv, [Next]_vars PROVE TypeOK'
  OBVIOUS
<1> USE DEF IInv
<1>1. CASE ReapSession
  BY <1>1 DEF ReapSession, TypeOK
<1>2. CASE Tick
  BY <1>2 DEF Tick, TypeOK
<1>3. CASE BoundsReached \/ UNCHANGED vars
  BY <1>3 DEF BoundsReached, vars, TypeOK
<1>4. QED
  BY <1>1, <1>2, <1>3, WebhookTypeOK, RetriageTypeOK, DashboardTypeOK, RunTypeOK DEF Next

-----------------------------------------------------------------------------
(* What a step does to the rows: it gives at most one attempt a row, always *)
(* the one above all that have one, and leaves resolved rows alone.         *)

ResolvedKept == \A n \in Attempts : rows[n].state = "resolved" => rows'[n] = rows[n]
RowsKept     == Present(rows') = Present(rows)

\* The insert never replaces a row, so no resolved one.
LEMMA InsertKeepsResolved ==
    ASSUME NEW n \in Attempts, rows[n].state = "absent", NEW t, NEW k,
           rows' = InsertProcessing(rows, n, t, k)
    PROVE  ResolvedKept
BY DEF InsertProcessing, ResolvedKept

\* A webhook request mints above all attempts that have a row.
LEMMA WebhookRows ==
    ASSUME IInv, NEW h \in Hooks, HandleWebhook(h)
    PROVE  ResolvedKept /\ (RowsKept \/ Grows)
<1>0. /\ rows \in [Attempts -> Row]
      /\ hook[h].at \in Nat /\ hook[h].order \in Nat
  BY DEF IInv, TypeOK, HookRecord
<1>1. CASE ResolveUpdate(h)
  BY <1>0, <1>1, MarkResolvedType DEF ResolveUpdate, ResolvedKept, RowsKept
<1>2. CASE Insert(h)
  <2>1. AllBelow(hook[h].wf)
    BY <1>2 DEF Insert, At, IInv, HookClaims
  <2>2. Grows
    BY <1>0, <1>2, <2>1, InsertProcessingType DEF Insert, Grows
  <2>3. ResolvedKept
    BY <1>2, InsertKeepsResolved DEF Insert
  <2>4. QED
    BY <2>2, <2>3
<1>3. CASE rows' = rows
  BY <1>3 DEF ResolvedKept, RowsKept
<1>4. QED
  BY <1>1, <1>2, <1>3 DEF HandleWebhook, ResolveByStem, ResolveWorkflowID, Arrive, Begin,
     AcquireStemLock, ResolveFails, Gate, OpenLookup, FlapCheck, HistoryLookup, InsertConflict,
     MintFails, Signal, SignalFails

\* So does a re-triage: its probe has found every lower attempt taken.
LEMMA RetriageRows ==
    ASSUME IInv, NEW o \in Operators, HandleRetriage(o)
    PROVE  ResolvedKept /\ (RowsKept \/ Grows)
<1>0. rows \in [Attempts -> Row] /\ now \in Nat /\ stamp + 1 \in Nat
  BY DEF IInv, TypeOK
<1>1. CASE Reserve(o)
  <2>1. AllBelow(op[o].next)
    BY <1>1 DEF Reserve, OpAt, IInv, OpClaims
  <2>2. Grows
    BY <1>0, <1>1, <2>1, InsertProcessingType DEF Reserve, Grows
  <2>3. ResolvedKept
    BY <1>1, InsertKeepsResolved DEF Reserve
  <2>4. QED
    BY <2>2, <2>3
<1>2. CASE rows' = rows
  BY <1>2 DEF ResolvedKept, RowsKept
<1>3. QED
  BY <1>1, <1>2 DEF HandleRetriage, ReadIncident, CheckCap, ProbeNext, StartRetriage, RetriageFails

\* The dashboard's actions give no attempt a row.
LEMMA DashboardRows ==
    ASSUME IInv, DashboardStep
    PROVE  ResolvedKept /\ RowsKept
<1>0. rows \in [Attempts -> Row] /\ now \in Nat
  BY DEF IInv, TypeOK
<1>1. ASSUME NEW n \in Attempts, HandleAcknowledge(n) PROVE ResolvedKept /\ RowsKept
  BY <1>0, <1>1 DEF HandleAcknowledge, CanAcknowledge, ResolvedKept, RowsKept, Present, Row
<1>2. ASSUME NEW n \in Attempts, HandleResolve(n) PROVE ResolvedKept /\ RowsKept
  BY <1>0, <1>2, MarkResolvedType DEF HandleResolve, ResolvedKept, RowsKept
<1>3. CASE SetWorkflowsEnabled
  BY <1>3 DEF SetWorkflowsEnabled, ResolvedKept, RowsKept
<1>4. QED
  BY <1>1, <1>2, <1>3 DEF DashboardStep

\* Nor does a workflow: its store finds the row already there.
LEMMA RunRows ==
    ASSUME IInv, NEW n \in Attempts, RunStep(n)
    PROVE  ResolvedKept /\ RowsKept
<1>0. rows \in [Attempts -> Row] /\ now \in Nat /\ stamp \in Nat
  BY DEF IInv, TypeOK
<1>1. CASE rows' = StoreTriageReport(rows, n, now, stamp) /\ (StoreReport(n) \/ StrayStore(n))
  <2>1. n \in Present(rows)
    BY <1>1 DEF StoreReport, StrayStore, IInv, RunHasRow, StrayWasRun
  <2>2. QED
    BY <1>0, <1>1, <2>1, StoreTriageReportType DEF ResolvedKept, RowsKept
<1>2. ASSUME NEW phase \in {"enriching", "triaging"}, AnnouncePhase(n, phase)
      PROVE  rows' = rows
  BY <1>0, <1>2, UpdateIncidentStateType DEF AnnouncePhase
<1>3. CASE rows' = rows
  BY <1>3 DEF ResolvedKept, RowsKept
<1>4. QED
  BY <1>1, <1>2, <1>3 DEF RunStep, DiagnosisReady, DiagnosisFails, StoreReport, StoreGivesUp,
     ExecutionTimesOut, StrayStore

\* What any step does to the rows.
LEMMA NextRows ==
    ASSUME IInv, [Next]_vars
    PROVE  ResolvedKept /\ (RowsKept \/ Grows)
<1>1. CASE ReapSession \/ Tick \/ BoundsReached \/ UNCHANGED vars
  BY <1>1 DEF ReapSession, Tick, BoundsReached, vars, ResolvedKept, RowsKept
<1>2. QED
  BY <1>1, WebhookRows, RetriageRows, DashboardRows, RunRows DEF Next

\* So rows never go away, and no gap ever opens.
LEMMA GrowthKeeps ==
    ASSUME AttemptsContiguous, RowsKept \/ Grows
    PROVE  /\ AttemptsContiguous'
           /\ Present(rows) \subseteq Present(rows')
           /\ \A k \in Nat : AllBelow(k) => AllBelow(k)'
<1>1. Present(rows) \subseteq Present(rows')
  BY DEF RowsKept, Grows
<1>2. \A k \in Nat : AllBelow(k) => AllBelow(k)'
  BY <1>1 DEF AllBelow
<1>3. ASSUME NEW n \in Attempts, AllBelow(n), Present(rows') = Present(rows) \cup {n},
             NEW a \in Present(rows'), NEW m \in 1..a
      PROVE  m \in Present(rows')
  <2>1. CASE a \in Present(rows)
    BY <1>3, <2>1 DEF AttemptsContiguous
  <2>2. CASE a = n
    BY <1>3, <2>2 DEF AllBelow, Attempts
  <2>3. QED
    BY <1>3, <2>1, <2>2
<1>4. AttemptsContiguous'
  BY <1>3 DEF RowsKept, Grows, AttemptsContiguous
<1>5. QED
  BY <1>1, <1>2, <1>4

-----------------------------------------------------------------------------
(* The claims of the requests in flight survive every step.                 *)

\* A request's claims hold of it when it stands at hr.
HookClaim(hr) ==
    /\ hr.pc = "insert" => \A m \in 1..(hr.wf - 1) : m \in Present(rows')
    /\ hr.pc = "signal" => hr.wf \in Present(rows')

OpClaim(or) ==
    /\ or.pc \in {"cap", "probe"} => \A m \in 1..(or.next - 1) : m \in Present(rows')
    /\ or.pc = "start" => or.next \in Present(rows')

\* A request that no step moves keeps its claims, because rows never go away.
LEMMA ClaimsCarryOver ==
    ASSUME IInv, RowsKept \/ Grows
    PROVE  /\ \A h \in Hooks : HookClaim(hook[h])
           /\ \A o \in Operators : OpClaim(op[o])
<1>1. Present(rows) \subseteq Present(rows')
  BY GrowthKeeps DEF IInv
<1>2. QED
  BY <1>1 DEF IInv, HookClaims, OpClaims, HookClaim, OpClaim, AllBelow

\* Wherever a step sends a request that holds no claim, there is none to keep.
LEMMA HandlerMoves ==
    ASSUME IInv, NEW h \in Hooks
    PROVE  /\ \A pc \in HookPCs : Goto(h, pc) =>
                hook'[h].pc = pc /\ hook'[h].wf = hook[h].wf
           /\ Finish(h) => hook'[h].pc = "idle"
           /\ AfterResolve(h) => hook'[h].pc \in {"idle", "gate"}
<1>1. hook \in [Hooks -> HookRecord] /\ hook[h] \in HookRecord
  BY DEF IInv, TypeOK
<1>2. ASSUME NEW pc \in HookPCs, Goto(h, pc)
      PROVE  hook'[h].pc = pc /\ hook'[h].wf = hook[h].wf
  <2>1. hook'[h] = [hook[h] EXCEPT !.pc = pc]
    BY <1>1, <1>2 DEF Goto
  <2>2. QED
    BY <1>1, <2>1 DEF HookRecord
<1>3. Finish(h) => hook'[h].pc = "idle"
  BY <1>1 DEF Finish, IdleHook
<1>4. AfterResolve(h) => hook'[h].pc \in {"idle", "gate"}
  BY <1>1, <1>3 DEF AfterResolve, IdleHook
<1>5. QED
  BY <1>2, <1>3, <1>4

\* A webhook step establishes the claims of the place it sends its request to:
\* the history lookup that all lower attempts have rows, the insert that its own has.
LEMMA WebhookClaims ==
    ASSUME IInv, NEW h \in Hooks, HandleWebhook(h)
    PROVE  /\ \A g \in Hooks : HookClaim(hook'[g])
           /\ op' = op
           /\ \A n \in Attempts : runs'[n].phase # "none" => n \in Present(rows')
<1>0. /\ hook \in [Hooks -> HookRecord]
      /\ hook[h] \in HookRecord
      /\ rows \in [Attempts -> Row]
      /\ runs \in [Attempts -> Run]
      /\ now \in Nat
  BY DEF IInv, TypeOK
<1>1. /\ \A g \in Hooks : HookClaim(hook[g])
      /\ Present(rows) \subseteq Present(rows')
  BY WebhookRows, ClaimsCarryOver, GrowthKeeps DEF IInv
<1>2. \A g \in Hooks \ {h} : hook'[g] = hook[g]
  BY <1>0 DEF HandleWebhook, ResolveByStem, ResolveWorkflowID, Arrive, Begin, AcquireStemLock,
     ResolveUpdate, ResolveFails, AfterResolve, Gate, OpenLookup, FlapCheck, HistoryLookup, Insert,
     InsertConflict, MintFails, Signal, SignalFails, Goto, Finish
<1>3. HookClaim(hook'[h])
  <2>1. CASE hook'[h].pc \notin {"insert", "signal"}
    BY <2>1 DEF HookClaim
  <2>2. CASE HistoryLookup(h)
    <3>1. ASSUME NEW n \in Present(rows),
                 hook' = [hook EXCEPT ![h] = [@ EXCEPT !.pc = "insert", !.wf = n + 1]]
          PROVE  HookClaim(hook'[h])
      <4>1. n \in Nat /\ (n + 1) - 1 = n
        BY DEF Present, Attempts
      <4>2. \A m \in 1..n : m \in Present(rows')
        BY <1>1 DEF IInv, AttemptsContiguous
      <4>3. hook'[h].pc = "insert" /\ hook'[h].wf = n + 1
        BY <1>0, <3>1 DEF HookRecord
      <4>4. QED
        BY <4>1, <4>2, <4>3 DEF HookClaim
    <3>2. CASE hook' = [hook EXCEPT ![h] = [@ EXCEPT !.pc = "insert", !.wf = 1]]
      BY <1>0, <3>2 DEF HookClaim, HookRecord
    <3>3. QED
      BY <2>2, <3>1, <3>2 DEF HistoryLookup
  <2>3. CASE OpenLookup(h)
    <3>1. ASSUME NEW n \in OpenAt(rows, hook[h].at),
                 hook' = [hook EXCEPT ![h] = [@ EXCEPT !.pc = "signal", !.wf = n]]
          PROVE  HookClaim(hook'[h])
      <4>1. n \in Present(rows')
        BY <1>1 DEF OpenAt, Unresolved
      <4>2. QED
        BY <1>0, <3>1, <4>1 DEF HookClaim, HookRecord
    <3>2. CASE Goto(h, "flap")
      BY <3>2, <2>1, HandlerMoves, HookPCNames
    <3>3. QED
      BY <2>3, <3>1, <3>2 DEF OpenLookup
  <2>4. CASE Insert(h)
    <3>1. hook'[h].pc = "signal" /\ hook'[h].wf = hook[h].wf
      BY <2>4, HandlerMoves, HookPCNames DEF Insert
    <3>2. hook[h].wf \in Present(rows')
      BY <1>0, <2>4, InsertProcessingType DEF Insert, HookRecord
    <3>3. QED
      BY <3>1, <3>2 DEF HookClaim
  <2>5. CASE \/ ResolveUpdate(h) \/ ResolveFails(h) \/ InsertConflict(h) \/ MintFails(h)
             \/ Signal(h) \/ SignalFails(h)
    BY <2>1, <2>5, HandlerMoves DEF ResolveUpdate, ResolveFails, InsertConflict, MintFails, Signal,
       SignalFails
  <2>6. CASE Gate(h) \/ FlapCheck(h)
    BY <2>1, <2>6, HandlerMoves, HookPCNames DEF Gate, FlapCheck
  <2>7. CASE \/ AcquireStemLock(h, "resolveLock", "resolveUpdate")
             \/ AcquireStemLock(h, "lock", "lookup")
    BY <2>1, <2>7, HandlerMoves, HookPCNames DEF AcquireStemLock
  <2>8. CASE Begin(h, "resolveBegin", "resolveLock") \/ Begin(h, "begin", "lock")
    BY <1>0, <2>1, <2>8 DEF Begin, HookRecord
  <2>9. ASSUME NEW k \in Kinds, Arrive(h, k) PROVE HookClaim(hook'[h])
    BY <1>0, <2>1, <2>9 DEF Arrive, IdleHook
  <2>10. QED
    BY <2>2, <2>3, <2>4, <2>5, <2>6, <2>7, <2>8, <2>9
       DEF HandleWebhook, ResolveByStem, ResolveWorkflowID
<1>4. op' = op
  BY DEF HandleWebhook, ResolveByStem, ResolveWorkflowID, Arrive, Begin, AcquireStemLock,
     ResolveUpdate, ResolveFails, Gate, OpenLookup, FlapCheck, HistoryLookup, Insert,
     InsertConflict, MintFails, Signal, SignalFails
<1>5. ASSUME NEW n \in Attempts, runs'[n].phase # "none" PROVE n \in Present(rows')
  <2>1. CASE Signal(h)
    <3>1. hook[h].wf \in Present(rows)
      BY <2>1 DEF Signal, At, IInv, HookClaims
    <3>2. n = hook[h].wf \/ runs[n].phase # "none"
      BY <1>0, <1>5, <2>1, <3>1, SignalWithStartType DEF Signal, Present
    <3>3. QED
      BY <1>1, <3>1, <3>2 DEF IInv, RunHasRow
  <2>2. CASE runs' = runs
    BY <1>1, <1>5, <2>2 DEF IInv, RunHasRow
  <2>3. QED
    BY <2>1, <2>2 DEF HandleWebhook, ResolveByStem, ResolveWorkflowID, Arrive, Begin,
       AcquireStemLock, ResolveUpdate, ResolveFails, Gate, OpenLookup, FlapCheck, HistoryLookup,
       Insert, InsertConflict, MintFails, SignalFails
<1>6. QED
  BY <1>1, <1>2, <1>3, <1>4, <1>5

\* A re-triage step does the same: each taken attempt raises the probe by one.
LEMMA RetriageClaims ==
    ASSUME IInv, NEW o \in Operators, HandleRetriage(o)
    PROVE  /\ \A p \in Operators : OpClaim(op'[p])
           /\ hook' = hook
           /\ \A n \in Attempts : runs'[n].phase # "none" => n \in Present(rows')
<1>0. /\ op \in [Operators -> OpRecord]
      /\ op[o] \in OpRecord
      /\ rows \in [Attempts -> Row]
      /\ runs \in [Attempts -> Run]
      /\ now \in Nat
      /\ stamp + 1 \in Nat
  BY DEF IInv, TypeOK
<1>1. /\ \A p \in Operators : OpClaim(op[p])
      /\ Present(rows) \subseteq Present(rows')
  BY RetriageRows, ClaimsCarryOver, GrowthKeeps DEF IInv
<1>2. \A p \in Operators \ {o} : op'[p] = op[p]
  BY <1>0 DEF HandleRetriage, ReadIncident, CheckCap, Reserve, ProbeNext, StartRetriage,
     RetriageFails
<1>3. OpClaim(op'[o])
  <2>1. CASE op'[o].pc = "idle"
    BY <2>1 DEF OpClaim
  <2>2. ASSUME NEW n \in Attempts, ReadIncident(o, n) PROVE OpClaim(op'[o])
    <3>1. n \in Present(rows) /\ (n + 1) - 1 = n
      BY <2>2 DEF ReadIncident, Present, States, Attempts
    <3>2. \A m \in 1..n : m \in Present(rows')
      BY <1>1, <3>1 DEF IInv, AttemptsContiguous
    <3>3. op'[o].pc = "cap" /\ op'[o].next = n + 1
      BY <1>0, <2>2 DEF ReadIncident
    <3>4. QED
      BY <3>1, <3>2, <3>3 DEF OpClaim
  <2>3. CASE CheckCap(o)
    <3>1. \/ op'[o] = IdleOp
          \/ op'[o] = [op[o] EXCEPT !.pc = "probe"] /\ op[o].pc = "cap"
      BY <1>0, <2>3 DEF CheckCap, OpAt
    <3>2. CASE op'[o] = [op[o] EXCEPT !.pc = "probe"] /\ op[o].pc = "cap"
      <4>1. op'[o].pc = "probe" /\ op'[o].next = op[o].next
        BY <1>0, <3>2 DEF OpRecord
      <4>2. QED
        BY <1>1, <3>2, <4>1 DEF OpClaim
    <3>3. QED
      BY <2>1, <3>1, <3>2 DEF IdleOp
  <2>4. CASE Reserve(o)
    <3>1. op'[o].pc = "start" /\ op'[o].next = op[o].next
      BY <1>0, <2>4 DEF Reserve, OpRecord
    <3>2. op[o].next \in Present(rows')
      BY <1>0, <2>4, InsertProcessingType DEF Reserve
    <3>3. QED
      BY <3>1, <3>2 DEF OpClaim
  <2>5. CASE ProbeNext(o)
    <3>1. op'[o].pc = "probe" /\ op'[o].next = op[o].next + 1
      BY <1>0, <2>5 DEF ProbeNext, OpAt, OpRecord
    <3>2. op[o].next \in Present(rows') /\ \A m \in 1..(op[o].next - 1) : m \in Present(rows')
      BY <1>1, <2>5 DEF ProbeNext, OpAt, OpClaim, Present
    <3>3. \A m \in 1..((op[o].next + 1) - 1) : m \in Present(rows')
      BY <1>0, <3>2 DEF OpRecord
    <3>4. QED
      BY <3>1, <3>3 DEF OpClaim
  <2>6. CASE StartRetriage(o) \/ RetriageFails(o)
    BY <1>0, <2>1, <2>6 DEF StartRetriage, RetriageFails, IdleOp
  <2>7. QED
    BY <2>2, <2>3, <2>4, <2>5, <2>6 DEF HandleRetriage
<1>4. hook' = hook
  BY DEF HandleRetriage, ReadIncident, CheckCap, Reserve, ProbeNext, StartRetriage, RetriageFails
<1>5. ASSUME NEW n \in Attempts, runs'[n].phase # "none" PROVE n \in Present(rows')
  <2>1. CASE StartRetriage(o)
    <3>1. op[o].next \in Present(rows)
      BY <2>1 DEF StartRetriage, OpAt, IInv, OpClaims
    <3>2. n = op[o].next \/ runs[n].phase # "none"
      BY <1>0, <1>5, <2>1, <3>1, SignalWithStartType DEF StartRetriage, Present
    <3>3. QED
      BY <1>1, <3>1, <3>2 DEF IInv, RunHasRow
  <2>2. CASE runs' = runs
    BY <1>1, <1>5, <2>2 DEF IInv, RunHasRow
  <2>3. QED
    BY <2>1, <2>2 DEF HandleRetriage, ReadIncident, CheckCap, Reserve, ProbeNext, RetriageFails
<1>6. QED
  BY <1>1, <1>2, <1>3, <1>4, <1>5

\* A workflow step starts no execution, and leaves no stray attempt without one.
LEMMA RunsGoOn ==
    ASSUME IInv, NEW n \in Attempts, RunStep(n)
    PROVE  /\ \A m \in Attempts : (runs'[m].phase # "none") <=> (runs[m].phase # "none")
           /\ \A m \in Attempts : runs'[m].stray => runs'[m].phase # "none"
<1>0. runs \in [Attempts -> Run] /\ runs[n] \in Run
  BY DEF IInv, TypeOK
<1>1. ASSUME NEW s \in BOOLEAN, Live(n), runs' = [runs EXCEPT ![n] = Closed(@, s)]
      PROVE  /\ \A m \in Attempts : (runs'[m].phase # "none") <=> (runs[m].phase # "none")
             /\ \A m \in Attempts : runs'[m].stray => runs'[m].phase # "none"
  BY <1>0, <1>1 DEF IInv, StrayWasRun, Closed, Live, LivePhases
<1>2. CASE DiagnosisFails(n) \/ StoreGivesUp(n) \/ ExecutionTimesOut(n)
  BY <1>1, <1>2 DEF DiagnosisFails, StoreGivesUp, ExecutionTimesOut, Live, LivePhases
<1>3. CASE StoreReport(n)
  BY <1>1, <1>3 DEF StoreReport, Live, LivePhases, IInv, StrayWasRun
<1>4. CASE DiagnosisReady(n) \/ StrayStore(n)
  BY <1>0, <1>4 DEF DiagnosisReady, StrayStore, Run, IInv, StrayWasRun
<1>5. CASE runs' = runs
  BY <1>5 DEF IInv, StrayWasRun
<1>6. QED
  BY <1>2, <1>3, <1>4, <1>5 DEF RunStep, AnnouncePhase

\* Nor does any other step.
LEMMA NextStray ==
    ASSUME IInv, [Next]_vars
    PROVE  StrayWasRun'
<1>0. runs \in [Attempts -> Run] /\ now \in Nat
  BY DEF IInv, TypeOK
<1>1. ASSUME NEW n \in Present(rows), runs' = SignalWithStart(runs, n, now)
      PROVE  StrayWasRun'
  BY <1>0, <1>1, SignalWithStartType DEF Present, IInv, StrayWasRun
<1>2. ASSUME NEW h \in Hooks, Signal(h) PROVE StrayWasRun'
  BY <1>1, <1>2 DEF Signal, At, IInv, HookClaims
<1>3. ASSUME NEW o \in Operators, StartRetriage(o) PROVE StrayWasRun'
  BY <1>1, <1>3 DEF StartRetriage, OpAt, IInv, OpClaims
<1>4. ASSUME NEW n \in Attempts, RunStep(n) PROVE StrayWasRun'
  BY <1>4, RunsGoOn DEF StrayWasRun
<1>5. CASE runs' = runs
  BY <1>5 DEF IInv, StrayWasRun
<1>6. QED
  BY <1>2, <1>3, <1>4, <1>5 DEF Next, vars, HandleWebhook, ResolveByStem, ResolveWorkflowID, Arrive,
     Begin, AcquireStemLock, ResolveUpdate, ResolveFails, Gate, OpenLookup, FlapCheck,
     HistoryLookup, Insert, InsertConflict, MintFails, SignalFails, HandleRetriage, ReadIncident,
     CheckCap, Reserve, ProbeNext, RetriageFails, DashboardStep, HandleAcknowledge, HandleResolve,
     SetWorkflowsEnabled, ReapSession, Tick, BoundsReached

\* Dashboard actions, workflow steps and time start no execution and move no request.
LEMMA OtherClaims ==
    ASSUME IInv,
           \/ DashboardStep
           \/ \E n \in Attempts : RunStep(n)
           \/ ReapSession \/ Tick \/ BoundsReached \/ UNCHANGED vars
    PROVE  /\ hook' = hook /\ op' = op
           /\ \A m \in Attempts : runs'[m].phase # "none" => runs[m].phase # "none"
<1>1. runs \in [Attempts -> Run]
  BY DEF IInv, TypeOK
<1>2. CASE DashboardStep
  BY <1>2 DEF DashboardStep, HandleAcknowledge, HandleResolve, SetWorkflowsEnabled
<1>3. ASSUME NEW n \in Attempts, RunStep(n)
      PROVE  /\ hook' = hook /\ op' = op
             /\ \A m \in Attempts : runs'[m].phase # "none" => runs[m].phase # "none"
  <2>1. hook' = hook /\ op' = op
    BY <1>3 DEF RunStep, AnnouncePhase, DiagnosisReady, DiagnosisFails, StoreReport, StoreGivesUp,
       ExecutionTimesOut, StrayStore
  <2>2. QED
    BY <1>1, <1>3, <2>1, RunsGoOn
<1>4. CASE ReapSession \/ Tick \/ BoundsReached \/ UNCHANGED vars
  BY <1>4 DEF ReapSession, Tick, BoundsReached, vars
<1>5. QED
  BY <1>2, <1>3, <1>4

\* The invariant is inductive.
LEMMA NextIInv == IInv /\ [Next]_vars => IInv'
<1> SUFFICES ASSUME IInv, [Next]_vars PROVE IInv'
  OBVIOUS
<1>1. TypeOK'
  BY NextTypeOK
<1>2. AttemptsContiguous' /\ Present(rows) \subseteq Present(rows')
  BY NextRows, GrowthKeeps DEF IInv
<1>3. /\ \A h \in Hooks : HookClaim(hook[h])
      /\ \A o \in Operators : OpClaim(op[o])
  BY NextRows, ClaimsCarryOver
<1> DEFINE Claims == /\ \A h \in Hooks : HookClaim(hook'[h])
                     /\ \A o \in Operators : OpClaim(op'[o])
                     /\ \A n \in Attempts : runs'[n].phase # "none" => n \in Present(rows')
<1>4. Claims
  <2>1. ASSUME NEW h \in Hooks, HandleWebhook(h) PROVE Claims
    BY <1>3, <2>1, WebhookClaims
  <2>2. ASSUME NEW o \in Operators, HandleRetriage(o) PROVE Claims
    BY <1>3, <2>2, RetriageClaims
  <2>3. CASE \/ DashboardStep
             \/ \E n \in Attempts : RunStep(n)
             \/ ReapSession \/ Tick \/ BoundsReached \/ UNCHANGED vars
    BY <1>2, <1>3, <2>3, OtherClaims DEF IInv, RunHasRow
  <2>4. QED
    BY <2>1, <2>2, <2>3 DEF Next
<1>5. HookClaims' /\ OpClaims' /\ RunHasRow'
  BY <1>4 DEF HookClaims, OpClaims, RunHasRow, HookClaim, OpClaim, AllBelow
<1>6. QED
  BY <1>1, <1>2, <1>5, NextStray DEF IInv

\* The inductive invariant of the whole lifecycle.
THEOREM LifecycleInvariant == Spec => []IInv
BY InitIInv, NextIInv, PTL DEF Spec

\* Type correctness: chk_state's values, request and execution records.
THEOREM LifecycleTypeOK == Spec => []TypeOK
BY LifecycleInvariant, PTL DEF IInv

\* However webhook mints and re-triage probes interleave, the attempts of an
\* identity that have a row are 1..k, for any number of concurrent requests.
THEOREM LifecycleContiguous == Spec => []AttemptsContiguous
BY LifecycleInvariant, PTL DEF IInv

\* Every workflow execution has a committed row: signalWithStart and the
\* re-triage start run only after theirs committed, and no row is ever deleted.
THEOREM LifecycleRunHasRow == Spec => []RunHasRow
BY LifecycleInvariant, PTL DEF IInv

\* A resolved row never changes again.
THEOREM LifecycleResolvedIsFinal == Spec => ResolvedIsFinal
<1>1. IInv /\ [Next]_vars => [\A n \in Attempts : rows[n].state = "resolved" => rows'[n] = rows[n]]_vars
  BY NextRows DEF ResolvedKept
<1>2. QED
  BY <1>1, LifecycleInvariant, PTL DEF Spec, ResolvedIsFinal

-----------------------------------------------------------------------------
(* The lifecycle implements IncidentLedger: a step of the rows or of the    *)
(* executions is one ledger step, every other step stutters.                *)

StatusOf(tbl) == [n \in Attempts |-> tbl[n].state]
StartedOf(rs) == {n \in Attempts : rs[n].phase # "none"}
LedgerStep    == [Ledger!LedgerNext]_(Ledger!ledgerVars)

\* A step that changes no state column and starts nothing is a ledger stutter.
LEMMA LedgerStutter ==
    ASSUME StatusOf(rows') = StatusOf(rows), StartedOf(runs') = StartedOf(runs)
    PROVE  LedgerStep
BY DEF LedgerStep, Ledger!ledgerVars, StatusOf, StartedOf

\* A mint above all rows is the ledger's Open.
LEMMA LedgerOpens ==
    ASSUME rows \in [Attempts -> Row], NEW n \in Attempts, NEW t, NEW k,
           rows[n].state = "absent", AllBelow(n),
           rows' = InsertProcessing(rows, n, t, k), runs' = runs
    PROVE  LedgerStep
<1>1. Ledger!Open(n)
  <2>1. \A m \in 1..(n - 1) : m \in Attempts /\ rows[m].state # "absent"
    BY DEF AllBelow, Present
  <2>2. StatusOf(rows') = [StatusOf(rows) EXCEPT ![n] = "processing"]
    BY DEF StatusOf, InsertProcessing
  <2>3. QED
    BY <2>1, <2>2 DEF Ledger!Open, StatusOf
<1>2. QED
  BY <1>1 DEF LedgerStep, Ledger!LedgerNext, Ledger!Numbers, Attempts

\* A signal to an attempt with a row is the ledger's Start, or a stutter.
LEMMA LedgerStarts ==
    ASSUME IInv, NEW n \in Present(rows), runs' = SignalWithStart(runs, n, now), rows' = rows
    PROVE  LedgerStep
<1>1. n \in Attempts /\ rows[n].state # "absent"
  BY DEF Present
<1>2. StartedOf(runs') = StartedOf(runs) \cup {n}
  BY <1>1, SignalWithStartType DEF StartedOf, IInv, TypeOK
<1>3. Ledger!Start(n)
  BY <1>1, <1>2 DEF Ledger!Start, StartedOf
<1>4. QED
  BY <1>1, <1>3 DEF LedgerStep, Ledger!LedgerNext, Ledger!Numbers, Attempts

\* An UPDATE to 'resolved' is the ledger's Resolve of the rows it matched.
LEMMA LedgerResolves ==
    ASSUME rows \in [Attempts -> Row], NEW S, NEW t, rows' = MarkResolved(rows, S, t), runs' = runs
    PROVE  LedgerStep
<1>1. PICK R \in SUBSET Attempts : R = S \cap Unresolved(rows)
  BY DEF Unresolved, Present
<1>2. \A n \in R : StatusOf(rows)[n] \in Ledger!OpenStates
  BY <1>1 DEF StatusOf, Unresolved, Present, Row, States, Ledger!OpenStates
<1>3. StatusOf(rows') = [n \in Attempts |-> IF n \in R THEN "resolved" ELSE StatusOf(rows)[n]]
  BY <1>1 DEF MarkResolved, StatusOf, Row
<1>4. Ledger!Resolve(R)
  BY <1>2, <1>3 DEF Ledger!Resolve, Ledger!Numbers, Attempts, StatusOf
<1>5. QED
  BY <1>1, <1>4 DEF LedgerStep, Ledger!LedgerNext, Ledger!Numbers, Attempts

\* Every webhook step is a ledger step.
LEMMA WebhookLedger ==
    ASSUME IInv, NEW h \in Hooks, HandleWebhook(h)
    PROVE  LedgerStep
<1>0. rows \in [Attempts -> Row]
  BY DEF IInv, TypeOK
<1>1. CASE ResolveUpdate(h)
  BY <1>0, <1>1, LedgerResolves DEF ResolveUpdate
<1>2. CASE Insert(h)
  BY <1>0, <1>2, LedgerOpens DEF Insert, At, IInv, HookClaims
<1>3. CASE Signal(h)
  BY <1>3, LedgerStarts DEF Signal, At, IInv, HookClaims
<1>4. CASE rows' = rows /\ runs' = runs
  BY <1>4, LedgerStutter
<1>5. QED
  BY <1>1, <1>2, <1>3, <1>4 DEF HandleWebhook, ResolveByStem, ResolveWorkflowID, Arrive, Begin,
     AcquireStemLock, ResolveFails, Gate, OpenLookup, FlapCheck, HistoryLookup, InsertConflict,
     MintFails, SignalFails

\* Every re-triage step is a ledger step.
LEMMA RetriageLedger ==
    ASSUME IInv, NEW o \in Operators, HandleRetriage(o)
    PROVE  LedgerStep
<1>0. rows \in [Attempts -> Row]
  BY DEF IInv, TypeOK
<1>1. CASE Reserve(o)
  BY <1>0, <1>1, LedgerOpens DEF Reserve, OpAt, IInv, OpClaims
<1>2. CASE StartRetriage(o)
  BY <1>2, LedgerStarts DEF StartRetriage, OpAt, IInv, OpClaims
<1>3. CASE rows' = rows /\ runs' = runs
  BY <1>3, LedgerStutter
<1>4. QED
  BY <1>1, <1>2, <1>3 DEF HandleRetriage, ReadIncident, CheckCap, ProbeNext, RetriageFails

\* Every dashboard action is a ledger step.
LEMMA DashboardLedger ==
    ASSUME IInv, DashboardStep
    PROVE  LedgerStep
<1>0. rows \in [Attempts -> Row]
  BY DEF IInv, TypeOK
<1>1. ASSUME NEW n \in Attempts, HandleAcknowledge(n) PROVE LedgerStep
  <2>1. StatusOf(rows') = [StatusOf(rows) EXCEPT ![n] = "acknowledged"]
    BY <1>0, <1>1 DEF HandleAcknowledge, StatusOf, Row
  <2>2. Ledger!Acknowledge(n)
    BY <1>1, <2>1 DEF HandleAcknowledge, CanAcknowledge, Ledger!Acknowledge, StatusOf
  <2>3. QED
    BY <2>2 DEF LedgerStep, Ledger!LedgerNext, Ledger!Numbers, Attempts
<1>2. ASSUME NEW n \in Attempts, HandleResolve(n) PROVE LedgerStep
  BY <1>0, <1>2, LedgerResolves DEF HandleResolve
<1>3. CASE SetWorkflowsEnabled
  BY <1>3, LedgerStutter DEF SetWorkflowsEnabled
<1>4. QED
  BY <1>1, <1>2, <1>3 DEF DashboardStep

\* Every workflow step is a ledger step: a report of a started attempt, or a stutter.
LEMMA RunLedger ==
    ASSUME IInv, NEW n \in Attempts, RunStep(n)
    PROVE  LedgerStep
<1>0. /\ rows \in [Attempts -> Row]
      /\ runs \in [Attempts -> Run]
      /\ now \in Nat /\ stamp \in Nat
  BY DEF IInv, TypeOK
<1>1. StartedOf(runs') = StartedOf(runs)
  BY RunsGoOn DEF StartedOf
<1>2. CASE rows' = StoreTriageReport(rows, n, now, stamp) /\ (StoreReport(n) \/ StrayStore(n))
  <2>1. runs[n].phase # "none" /\ n \in Present(rows) /\ rows[n].state \in States
    BY <1>0, <1>2 DEF StoreReport, StrayStore, IInv, RunHasRow, StrayWasRun, Present, Row
  <2>2. CASE rows[n].state = "resolved"
    BY <1>1, <1>2, <2>2, LedgerStutter DEF StoreTriageReport
  <2>3. CASE rows[n].state # "resolved"
    <3>1. StatusOf(rows') = [StatusOf(rows) EXCEPT ![n] = "reported"]
      BY <1>0, <1>2, <2>1, <2>3 DEF StoreTriageReport, StatusOf, States, Row
    <3>2. Ledger!Report(n)
      BY <1>1, <2>1, <2>3, <3>1 DEF Ledger!Report, Ledger!OpenStates, StatusOf, StartedOf, States
    <3>3. QED
      BY <3>2 DEF LedgerStep, Ledger!LedgerNext, Ledger!Numbers, Attempts
  <2>4. QED
    BY <2>2, <2>3
<1>3. ASSUME NEW phase \in {"enriching", "triaging"}, AnnouncePhase(n, phase)
      PROVE  rows' = rows
  BY <1>0, <1>3, UpdateIncidentStateType DEF AnnouncePhase
<1>4. CASE rows' = rows
  BY <1>1, <1>4, LedgerStutter
<1>5. QED
  BY <1>2, <1>3, <1>4 DEF RunStep, DiagnosisReady, DiagnosisFails, StoreReport, StoreGivesUp,
     ExecutionTimesOut, StrayStore

\* Without locks, clocks or requests: attempts open in order, only a started
\* attempt is reported, and what is resolved stays resolved.
THEOREM LifecycleImplementsLedger == Spec => ImplementsLedger
<1>1. Init => Ledger!LedgerInit
  BY DEF Init, NoRow, NoRun, Ledger!LedgerInit, Ledger!Numbers, Attempts
<1>2. IInv /\ [Next]_vars => [Ledger!LedgerNext]_(Ledger!ledgerVars)
  <2> SUFFICES ASSUME IInv, [Next]_vars PROVE LedgerStep
    BY DEF LedgerStep
  <2>1. CASE ReapSession \/ Tick \/ BoundsReached \/ UNCHANGED vars
    BY <2>1, LedgerStutter DEF ReapSession, Tick, BoundsReached, vars
  <2>2. QED
    BY <2>1, WebhookLedger, RetriageLedger, DashboardLedger, RunLedger DEF Next
<1>3. QED
  BY <1>1, <1>2, LifecycleInvariant, PTL DEF Spec, ImplementsLedger, Ledger!LedgerSpec

-----------------------------------------------------------------------------
(* What the stem lock gives while nobody re-triages.  A mint stamps its row    *)
(* with the time its transaction began, before it had the lock; rows that      *)
(* other requests committed meanwhile are either open, and reused, or resolved *)
(* so recently that the flap check drops the firing.                           *)

BegunPCs == {"lock", "lookup", "flap", "history", "insert"}

\* The statements between the lock and the commit run for one request at a time.
LockHeld == \A h \in Hooks : hook[h].pc \in CriticalPCs => lock = h

\* No request outlives HandlingBound.
InTime ==
    \A h \in Hooks :
        hook[h].pc # "idle" => hook[h].at <= now /\ now <= hook[h].at + HandlingBound

\* A row younger than h's transaction was created, and if resolved then resolved, no
\* earlier than that transaction began, up to the time a request may span.
Younger(h, n) ==
    /\ rows[n].order # hook[h].order
    /\ rows[n].order > hook[h].order =>
           /\ rows[n].created >= hook[h].at
           /\ rows[n].state = "resolved" => rows[n].resolvedAt + HandlingBound >= hook[h].at

\* What a request in flight may rely on.
MintClaim(h) ==
    /\ hook[h].pc \in BegunPCs =>
           hook[h].order <= stamp /\ \A n \in Present(rows) : Younger(h, n)
    /\ hook[h].pc \in {"flap", "history", "insert"} =>
           \A n \in Unresolved(rows) : rows[n].created + StuckProcessingTTL <= hook[h].at
    /\ hook[h].pc \in {"history", "insert"} =>
           \A n \in Present(rows) : rows[n].order < hook[h].order
    /\ hook[h].pc = "insert" => \A n \in Present(rows) : n < hook[h].wf

\* Transactions begin in the order of their stamps.
Before(g, h) ==
    g # h /\ hook[g].pc \in BegunPCs /\ hook[h].pc \in BegunPCs =>
        /\ hook[g].order # hook[h].order
        /\ hook[g].order < hook[h].order => hook[g].at <= hook[h].at

Stamped == \A n \in Present(rows) : rows[n].order <= stamp

MintInv ==
    /\ LockHeld /\ InTime /\ Stamped
    /\ \A h \in Hooks : MintClaim(h)
    /\ \A g, h \in Hooks : Before(g, h)
    /\ CreationOrder /\ OpenRowsFarApart

\* A step that mints nothing: what it resolves it resolves now, give or take the time a
\* request may span.
SameRows ==
    /\ Present(rows') = Present(rows) /\ Unresolved(rows') \subseteq Unresolved(rows)
    /\ \A n \in Present(rows) :
          /\ rows'[n].order = rows[n].order /\ rows'[n].created = rows[n].created
          /\ rows'[n].state = "resolved" =>
                \/ rows[n].state = "resolved" /\ rows'[n].resolvedAt = rows[n].resolvedAt
                \/ rows'[n].resolvedAt + HandlingBound >= now

\* What the types say of the numbers in the table and in the requests.
LEMMA Numbers ==
    ASSUME TypeOK
    PROVE  /\ now \in Nat /\ stamp \in Nat /\ HandlingBound \in Nat /\ StuckProcessingTTL \in Nat
           /\ \A h \in Hooks : hook[h].at \in Nat /\ hook[h].order \in Nat /\ hook[h].wf \in Nat
           /\ \A n \in Present(rows) :
                 rows[n].order \in Nat /\ rows[n].created \in Nat /\ rows[n].resolvedAt \in Nat
           /\ \A n \in Present(rows) : n \in Attempts /\ n \in Nat
           /\ Unresolved(rows) \subseteq Present(rows)
BY StateAssumption, TableAssumption
   DEF TypeOK, HookRecord, Row, Present, Unresolved, Attempts, StuckProcessingTTL

\* The table keeps its order when nothing is minted.
LEMMA TableKept ==
    ASSUME TypeOK, SameRows, Stamped, CreationOrder, OpenRowsFarApart, stamp' \in Nat, stamp' >= stamp
    PROVE  Stamped' /\ CreationOrder' /\ OpenRowsFarApart'
<1>1. Stamped'
  BY Numbers DEF Stamped, SameRows
<1>2. CreationOrder'
  BY DEF CreationOrder, SameRows
<1>3. OpenRowsFarApart'
  <2> SUFFICES ASSUME NEW m \in Unresolved(rows'), NEW n \in Unresolved(rows'), m < n
               PROVE  rows'[n].created >= rows'[m].created + StuckProcessingTTL
    BY DEF OpenRowsFarApart, StuckProcessingTTL
  <2>1. m \in Unresolved(rows) /\ n \in Unresolved(rows)
    BY DEF SameRows
  <2>2. rows'[n].created = rows[n].created /\ rows'[m].created = rows[m].created
    BY <2>1, Numbers DEF SameRows
  <2>3. QED BY <2>1, <2>2 DEF OpenRowsFarApart
<1>4. QED BY <1>1, <1>2, <1>3

\* A request that no step moves keeps its claim when nothing is minted.
LEMMA ClaimKept ==
    ASSUME TypeOK, SameRows, InTime, NEW h \in Hooks, MintClaim(h), hook'[h] = hook[h],
           stamp' \in Nat, stamp' >= stamp, TypeOK'
    PROVE  MintClaim(h)'
<1> USE Numbers
<1>0. /\ \A n \in Present(rows') : rows'[n].resolvedAt \in Nat
      /\ StuckProcessingTTL' = StuckProcessingTTL
  BY DEF TypeOK, Row, Present, StuckProcessingTTL
<1>1. ASSUME hook[h].pc \in BegunPCs, NEW n \in Present(rows) PROVE Younger(h, n)'
  <2>1. Younger(h, n) /\ hook[h].at <= now
    BY <1>1 DEF MintClaim, InTime, BegunPCs
  <2>2. QED BY <2>1, <1>0 DEF Younger, SameRows
<1>2. hook[h].pc \in BegunPCs => hook[h].order <= stamp'
  BY DEF MintClaim
<1>3. hook[h].pc \in {"flap", "history", "insert"} =>
        \A n \in Unresolved(rows') : rows'[n].created + StuckProcessingTTL <= hook[h].at
  BY DEF MintClaim, SameRows
<1>4. hook[h].pc \in {"history", "insert"} =>
        \A n \in Present(rows') : rows'[n].order < hook[h].order
  BY DEF MintClaim, SameRows
<1>5. hook[h].pc = "insert" => \A n \in Present(rows') : n < hook[h].wf
  BY DEF MintClaim, SameRows
<1>6. Present(rows') = Present(rows)
  BY DEF SameRows
<1>7. QED BY <1>0, <1>1, <1>2, <1>3, <1>4, <1>5, <1>6 DEF MintClaim

\* Two requests that no step moves keep their order.
LEMMA BeforeKept ==
    ASSUME NEW g \in Hooks, NEW h \in Hooks, Before(g, h), hook'[g] = hook[g], hook'[h] = hook[h]
    PROVE  Before(g, h)'
BY DEF Before

-----------------------------------------------------------------------------
\* A step of the workflows, the dashboard or the server that moves no request.
Aside ==
    /\ UNCHANGED <<now, stamp, hook>>
    /\ lock' = lock \/ (lock = DeadSession /\ lock' = NoHook)
    /\ SameRows

\* Such a step keeps the invariant.
LEMMA AsideKeeps == ASSUME TypeOK, TypeOK', MintInv, Aside PROVE MintInv'
<1>1. LockHeld'
  BY StateAssumption DEF MintInv, LockHeld, Aside
<1>2. InTime'
  BY DEF MintInv, InTime, Aside
<1>3. stamp' \in Nat /\ stamp' >= stamp
  BY Numbers DEF Aside
<1>4. Stamped' /\ CreationOrder' /\ OpenRowsFarApart'
  BY <1>3, TableKept DEF MintInv, Aside
<1>5. \A h \in Hooks : MintClaim(h)'
  BY <1>3, ClaimKept DEF MintInv, Aside
<1>6. \A g, h \in Hooks : Before(g, h)'
  BY BeforeKept DEF MintInv, Aside
<1>7. QED BY <1>1, <1>2, <1>4, <1>5, <1>6 DEF MintInv

\* So does the clock, which waits for the requests.
LEMMA TickKeeps == ASSUME TypeOK, TypeOK', MintInv, Tick PROVE MintInv'
<1>1. LockHeld' /\ Stamped' /\ CreationOrder' /\ OpenRowsFarApart'
  BY DEF MintInv, LockHeld, Stamped, CreationOrder, OpenRowsFarApart, Tick, StuckProcessingTTL
<1>2. InTime'
  BY Numbers DEF MintInv, InTime, Tick
<1>3. \A h \in Hooks : MintClaim(h)'
  BY DEF MintInv, MintClaim, Younger, Tick, StuckProcessingTTL
<1>4. \A g, h \in Hooks : Before(g, h)'
  BY BeforeKept DEF MintInv, Tick
<1>5. QED BY <1>1, <1>2, <1>3, <1>4 DEF MintInv

-----------------------------------------------------------------------------
\* A webhook request moves and mints nothing.
Moves(h) ==
    /\ \A g \in Hooks \ {h} : hook'[g] = hook[g]
    /\ SameRows /\ now' = now /\ stamp' \in Nat /\ stamp' >= stamp
    /\ \A g \in Hooks \ {h} : lock = g => lock' = g
    /\ hook'[h].pc # "idle" => hook'[h].at \in {hook[h].at, now} /\ (hook[h].pc = "idle" => hook'[h].at = now)

\* Such a move keeps the invariant if the request itself may claim what it then claims.
LEMMA MovesKeeps ==
    ASSUME TypeOK, TypeOK', MintInv, NEW h \in Hooks, Moves(h),
           hook'[h].pc \in CriticalPCs => lock' = h,
           MintClaim(h)', \A g \in Hooks : Before(g, h)' /\ Before(h, g)'
    PROVE  MintInv'
<1>1. LockHeld'
  BY DEF MintInv, LockHeld, Moves
<1>2. InTime'
  <2> SUFFICES ASSUME NEW g \in Hooks, hook'[g].pc # "idle"
               PROVE  hook'[g].at <= now /\ now <= hook'[g].at + HandlingBound
    BY DEF InTime, Moves
  <2>1. CASE g # h
    BY <2>1 DEF MintInv, InTime, Moves
  <2>2. CASE g = h
    BY <2>2, Numbers DEF MintInv, InTime, Moves
  <2>3. QED BY <2>1, <2>2
<1>3. Stamped' /\ CreationOrder' /\ OpenRowsFarApart'
  BY TableKept DEF MintInv, Moves
<1>4. ASSUME NEW g \in Hooks PROVE MintClaim(g)'
  BY ClaimKept DEF MintInv, Moves
<1>5. ASSUME NEW g \in Hooks, NEW k \in Hooks PROVE Before(g, k)'
  BY BeforeKept DEF MintInv, Moves
<1>6. QED BY <1>1, <1>2, <1>3, <1>4, <1>5 DEF MintInv

\* A request outside its minting transaction claims nothing.
LEMMA OutsideKeeps ==
    ASSUME TypeOK, TypeOK', MintInv, NEW h \in Hooks, Moves(h),
           hook'[h].pc \notin BegunPCs, hook'[h].pc \in CriticalPCs => lock' = h
    PROVE  MintInv'
<1>1. MintClaim(h)'
  BY DEF MintClaim, BegunPCs
<1>2. \A g \in Hooks : Before(g, h)' /\ Before(h, g)'
  BY DEF Before
<1>3. QED BY <1>1, <1>2, MovesKeeps

\* BEGIN of a mint: younger than every row and every other transaction.
LEMMA BeginKeeps ==
    ASSUME TypeOK, TypeOK', MintInv, NEW h \in Hooks, Begin(h, "begin", "lock")
    PROVE  MintInv'
<1>1. hook'[h] = [hook[h] EXCEPT !.pc = "lock", !.at = now, !.order = stamp + 1]
      /\ hook[h].pc = "begin" /\ stamp' = stamp + 1
  BY DEF Begin, At, TypeOK
<1>2. hook'[h].pc = "lock" /\ hook'[h].at = now /\ hook'[h].order = stamp + 1
  BY <1>1 DEF TypeOK, HookRecord
<1>3. Moves(h)
  BY <1>1, <1>2, Numbers DEF Begin, Moves, SameRows, TypeOK
<1>4. MintClaim(h)'
  <2>1. \A n \in Present(rows) : rows[n].order < hook'[h].order
    BY <1>2, Numbers DEF MintInv, Stamped
  <2>2. rows' = rows
    BY DEF Begin
  <2>3. \A n \in Present(rows') : Younger(h, n)'
    BY <2>1, <2>2, <1>2, Numbers DEF Younger
  <2>4. QED BY <2>3, <1>1, <1>2, Numbers DEF MintClaim
<1>5. \A g \in Hooks : Before(g, h)' /\ Before(h, g)'
  <2> SUFFICES ASSUME NEW g \in Hooks, g # h, hook[g].pc \in BegunPCs
               PROVE  hook[g].order < stamp + 1 /\ hook[g].at <= now
    BY <1>2, <1>3, Numbers DEF Before, Moves
  <2>1. hook[g].order <= stamp /\ hook[g].at <= now
    BY DEF MintInv, MintClaim, InTime, BegunPCs
  <2>2. QED BY <2>1, Numbers
<1>6. hook'[h].pc \notin CriticalPCs
  BY <1>2 DEF CriticalPCs
<1>7. QED BY <1>3, <1>4, <1>5, <1>6, MovesKeeps

\* Further on in the transaction only the claim has to be shown: its time and its
\* stamp stay.
LEMMA OnwardKeeps ==
    ASSUME TypeOK, TypeOK', MintInv, NEW h \in Hooks, hook[h].pc \in BegunPCs,
           hook'[h].pc \in BegunPCs, hook'[h].at = hook[h].at, hook'[h].order = hook[h].order,
           Moves(h), UNCHANGED <<rows, stamp>>, lock' = h,
           hook'[h].pc \in {"flap", "history", "insert"} =>
               \A n \in Unresolved(rows) : rows[n].created + StuckProcessingTTL <= hook[h].at,
           hook'[h].pc \in {"history", "insert"} =>
               \A n \in Present(rows) : rows[n].order < hook[h].order,
           hook'[h].pc = "insert" => \A n \in Present(rows) : n < hook'[h].wf
    PROVE  MintInv'
<1>1. hook[h].order <= stamp /\ \A n \in Present(rows) : Younger(h, n)
  BY DEF MintInv, MintClaim
<1>2. \A n \in Present(rows') : Younger(h, n)'
  BY <1>1 DEF Younger
<1>3. MintClaim(h)'
  BY <1>1, <1>2 DEF MintClaim, StuckProcessingTTL
<1>4. \A g \in Hooks : Before(g, h)' /\ Before(h, g)'
  BY DEF Before, Moves, MintInv
<1>5. QED BY <1>3, <1>4, MovesKeeps

\* Rows that stay as they are.
LEMMA NothingMinted ==
    ASSUME TypeOK, rows' = rows PROVE SameRows
BY DEF SameRows

\* UPDATE to 'resolved', at a time that is now or within the span of a request.
LEMMA ResolveMintsNothing ==
    ASSUME TypeOK, NEW S, NEW t \in Nat, t + HandlingBound >= now, rows' = MarkResolved(rows, S, t)
    PROVE  SameRows
<1>1. ASSUME NEW n \in Attempts
      PROVE  /\ rows'[n] = rows[n] \/ rows'[n] = [rows[n] EXCEPT !.state = "resolved", !.resolvedAt = t]
             /\ rows[n].state \in {"absent", "resolved"} => rows'[n] = rows[n]
  BY DEF MarkResolved, Unresolved, Present
<1>2. Present(rows') = Present(rows)
  BY MarkResolvedType DEF TypeOK
<1>3. Unresolved(rows') \subseteq Unresolved(rows)
  BY <1>1, <1>2 DEF Unresolved, Present
<1>4. ASSUME NEW n \in Present(rows)
      PROVE  /\ rows'[n].order = rows[n].order /\ rows'[n].created = rows[n].created
             /\ rows'[n].state = "resolved" =>
                   \/ rows[n].state = "resolved" /\ rows'[n].resolvedAt = rows[n].resolvedAt
                   \/ rows'[n].resolvedAt + HandlingBound >= now
  <2>1. n \in Attempts /\ rows[n] \in Row
    BY DEF Present, TypeOK
  <2>2. CASE rows'[n] = rows[n]
    BY <2>2
  <2>3. CASE rows'[n] = [rows[n] EXCEPT !.state = "resolved", !.resolvedAt = t]
    BY <2>1, <2>3 DEF Row
  <2>4. QED BY <1>1, <2>1, <2>2, <2>3
<1>5. QED BY <1>2, <1>3, <1>4 DEF SameRows

\* The workflows mint and resolve nothing.
LEMMA RunAside ==
    ASSUME TypeOK, RunHasRow, StrayWasRun, NEW n \in Attempts, RunStep(n)
    PROVE  Aside
<1>1. UNCHANGED <<now, stamp, hook, lock>>
  BY DEF RunStep, AnnouncePhase, DiagnosisReady, DiagnosisFails, StoreReport, StoreGivesUp,
         ExecutionTimesOut, StrayStore
<1>2. CASE rows' = rows
  BY <1>1, <1>2, NothingMinted DEF Aside
<1>3. ASSUME NEW p \in {"enriching", "triaging"}, AnnouncePhase(n, p) PROVE rows' = rows
  BY <1>3, UpdateIncidentStateType DEF AnnouncePhase, TypeOK
<1>4. CASE StoreReport(n) \/ StrayStore(n)
  <2>1. n \in Present(rows)
    BY <1>4 DEF StoreReport, StrayStore, RunHasRow, StrayWasRun
  <2>2. rows' = rows \/ rows' = [rows EXCEPT ![n].state = "reported"]
    BY <1>4, <2>1 DEF StoreReport, StrayStore, StoreTriageReport, Present
  <2>3. CASE rows' = [rows EXCEPT ![n].state = "reported"] /\ rows' # rows
    <3>1. rows[n].state # "resolved"
      BY <1>4, <2>1, <2>3 DEF StoreReport, StrayStore, StoreTriageReport, Present
    <3>2. SameRows
      BY <2>1, <2>3, <3>1 DEF SameRows, TypeOK, Row, Present, Unresolved
    <3>3. QED BY <1>1, <3>2 DEF Aside
  <2>4. QED BY <1>2, <2>2, <2>3
<1>5. QED BY <1>2, <1>3, <1>4
          DEF RunStep, DiagnosisReady, DiagnosisFails, StoreGivesUp, ExecutionTimesOut

\* The dashboard mints nothing.
LEMMA DashboardAside == ASSUME TypeOK, DashboardStep PROVE Aside
<1>1. UNCHANGED <<now, stamp, hook, lock>>
  BY DEF DashboardStep, HandleAcknowledge, HandleResolve, SetWorkflowsEnabled
<1>2. SameRows
  <2>1. ASSUME NEW n \in Attempts, HandleAcknowledge(n) PROVE SameRows
    BY <2>1 DEF HandleAcknowledge, CanAcknowledge, SameRows, TypeOK, Row, Present, Unresolved
  <2>2. ASSUME NEW n \in Attempts, HandleResolve(n) PROVE SameRows
    BY <2>2, ResolveMintsNothing, Numbers DEF HandleResolve
  <2>3. CASE SetWorkflowsEnabled
    BY <2>3, NothingMinted DEF SetWorkflowsEnabled
  <2>4. QED BY <2>1, <2>2, <2>3 DEF DashboardStep
<1>3. QED BY <1>1, <1>2 DEF Aside

-----------------------------------------------------------------------------
(* The steps of a webhook request.                                            *)

OutsidePCs == {"idle", "gate", "signal", "resolveBegin", "resolveLock", "begin"}

\* COMMIT and ROLLBACK take the lock from nobody else.
LEMMA LockOfOthers ==
    ASSUME NEW h \in Hooks, Release(h) \/ RollBack(h) \/ lock' = lock
    PROVE  \A g \in Hooks \ {h} : lock = g => lock' = g
BY DEF Release, RollBack

\* The steps that arrive at, or end in, a place without claims.
LEMMA LeavesKeeps ==
    ASSUME IInv, TypeOK', MintInv, NEW h \in Hooks,
           \/ \E k \in Kinds : Arrive(h, k)
           \/ Begin(h, "resolveBegin", "resolveLock")
           \/ ResolveUpdate(h) \/ ResolveFails(h) \/ Gate(h)
           \/ InsertConflict(h) \/ MintFails(h) \/ Signal(h) \/ SignalFails(h)
    PROVE  MintInv'
<1> USE DEF IInv
<1>0. hook[h] \in HookRecord /\ hook \in [Hooks -> HookRecord]
  BY DEF TypeOK
<1>1. \A g \in Hooks \ {h} : hook'[g] = hook[g]
  BY DEF Arrive, Begin, ResolveUpdate, ResolveFails, AfterResolve, Gate, InsertConflict, MintFails,
         Signal, SignalFails, Finish, Goto, TypeOK
<1>2. /\ hook'[h].pc \in OutsidePCs
      /\ hook'[h].pc # "idle" =>
            hook'[h].at \in {hook[h].at, now} /\ (hook[h].pc = "idle" => hook'[h].at = now)
  <2>1. ASSUME NEW k \in Kinds, Arrive(h, k)
        PROVE  hook'[h].pc \in {"gate", "resolveBegin"} /\ hook'[h].at = now
    BY <1>0, <2>1 DEF Arrive, IdleHook
  <2>2. CASE Begin(h, "resolveBegin", "resolveLock")
    <3>1. hook'[h].pc = "resolveLock" /\ hook'[h].at = now
      BY <1>0, <2>2 DEF Begin, HookRecord
    <3>2. QED BY <3>1 DEF OutsidePCs
  <2>3. CASE AfterResolve(h) /\ hook[h].pc # "idle"
    <3>1. hook'[h] = IdleHook \/ hook'[h] = [IdleHook EXCEPT !.pc = "gate", !.at = hook[h].at]
      BY <1>0, <2>3 DEF AfterResolve, Finish
    <3>2. CASE hook'[h] = IdleHook
      BY <3>2 DEF IdleHook, OutsidePCs
    <3>3. CASE hook'[h] = [IdleHook EXCEPT !.pc = "gate", !.at = hook[h].at]
      <4>1. hook'[h].pc = "gate" /\ hook'[h].at = hook[h].at
        BY <3>3 DEF IdleHook
      <4>2. QED BY <4>1, <2>3 DEF OutsidePCs
    <3>4. QED BY <3>1, <3>2, <3>3
  <2>4. CASE Finish(h)
    BY <1>0, <2>4 DEF Finish, IdleHook, OutsidePCs
  <2>5. CASE Goto(h, "begin") /\ hook[h].pc = "gate"
    <3>1. hook'[h].pc = "begin" /\ hook'[h].at = hook[h].at
      BY <1>0, <2>5 DEF Goto, HookRecord
    <3>2. QED BY <2>5, <3>1 DEF OutsidePCs
  <2>6. (ResolveUpdate(h) \/ ResolveFails(h)) => AfterResolve(h) /\ hook[h].pc # "idle"
    BY DEF ResolveUpdate, ResolveFails, At, ResolvePCs
  <2>7. Gate(h) => Finish(h) \/ (Goto(h, "begin") /\ hook[h].pc = "gate")
    BY DEF Gate, At
  <2>8. InsertConflict(h) \/ MintFails(h) \/ Signal(h) \/ SignalFails(h) => Finish(h)
    BY DEF InsertConflict, MintFails, Signal, SignalFails
  <2>9. QED BY <2>1, <2>2, <2>3, <2>4, <2>5, <2>6, <2>7, <2>8 DEF OutsidePCs
<1>3. \A g \in Hooks \ {h} : lock = g => lock' = g
  <2>1. Release(h) \/ RollBack(h) \/ lock' = lock
    BY DEF Arrive, Begin, ResolveUpdate, ResolveFails, Gate, InsertConflict, MintFails, Signal,
           SignalFails
  <2>2. QED BY <2>1, LockOfOthers
<1>4. now' = now /\ stamp' \in Nat /\ stamp' >= stamp
  <2>1. now' = now /\ stamp' \in {stamp, stamp + 1}
    BY DEF Arrive, Begin, ResolveUpdate, ResolveFails, Gate, InsertConflict, MintFails, Signal,
           SignalFails
  <2>2. QED BY <2>1, Numbers
<1>5. SameRows
  <2>1. CASE ResolveUpdate(h)
    <3>1. hook[h].at + HandlingBound >= now /\ hook[h].at \in Nat
      BY <2>1, Numbers DEF ResolveUpdate, At, MintInv, InTime
    <3>2. QED BY <2>1, <3>1, ResolveMintsNothing DEF ResolveUpdate
  <2>2. CASE rows' = rows
    BY <2>2, NothingMinted
  <2>3. QED BY <2>1, <2>2
            DEF Arrive, Begin, ResolveFails, Gate, InsertConflict, MintFails, Signal, SignalFails
<1>6. Moves(h)
  BY <1>1, <1>2, <1>3, <1>4, <1>5 DEF Moves
<1>7. hook'[h].pc \notin BegunPCs /\ hook'[h].pc \notin CriticalPCs
  BY <1>2 DEF OutsidePCs, BegunPCs, CriticalPCs
<1>8. QED BY <1>6, <1>7, OutsideKeeps


\* What any step within the minting transaction but its last does.
LEMMA WithinMoves ==
    ASSUME TypeOK, NEW h \in Hooks, NEW r \in HookRecord, hook' = [hook EXCEPT ![h] = r],
           hook[h].pc # "idle", r.at = hook[h].at, UNCHANGED <<now, stamp, rows>>,
           lock' \in {lock, h} /\ lock \in {h, NoHook}
    PROVE  Moves(h) /\ hook'[h] = r
<1>1. hook'[h] = r /\ \A g \in Hooks \ {h} : hook'[g] = hook[g]
  BY DEF TypeOK
<1>2. \A g \in Hooks \ {h} : lock = g => lock' = g
  BY StateAssumption
<1>3. QED BY <1>1, <1>2, NothingMinted, Numbers DEF Moves

\* The lock and the three lookups, each of which establishes a claim: what is open is stuck; what
\* has resolved did so before the window, so that every row is older; the newest is the last.
LEMMA LookupKeeps ==
    ASSUME TypeOK, TypeOK', MintInv, NEW h \in Hooks,
           OpenLookup(h) \/ FlapCheck(h) \/ HistoryLookup(h) \/ AcquireStemLock(h, "lock", "lookup")
             \/ AcquireStemLock(h, "resolveLock", "resolveUpdate"),
           HandlingBound < FlapWindow, WorkflowExecutionTimeout > 0
    PROVE  MintInv'
<1>0. hook[h] \in HookRecord /\ hook \in [Hooks -> HookRecord]
  BY DEF TypeOK
<1>1. UNCHANGED <<now, stamp, rows>> /\ hook[h].pc # "idle"
  BY DEF OpenLookup, FlapCheck, HistoryLookup, AcquireStemLock, At
<1>2. ASSUME NEW p \in {"resolveUpdate", "lookup", "flap", "history"}
      PROVE  /\ [hook[h] EXCEPT !.pc = p] \in HookRecord
             /\ [hook[h] EXCEPT !.pc = p].at = hook[h].at
             /\ [hook[h] EXCEPT !.pc = p].order = hook[h].order
             /\ [hook[h] EXCEPT !.pc = p].pc = p
  BY <1>0, HookPCNames DEF HookRecord
<1>3. ASSUME NEW p \in {"signal", "insert"}, NEW n \in Nat
      PROVE  /\ [hook[h] EXCEPT !.pc = p, !.wf = n] \in HookRecord
             /\ [hook[h] EXCEPT !.pc = p, !.wf = n].at = hook[h].at
             /\ [hook[h] EXCEPT !.pc = p, !.wf = n].order = hook[h].order
             /\ [hook[h] EXCEPT !.pc = p, !.wf = n].pc = p
             /\ [hook[h] EXCEPT !.pc = p, !.wf = n].wf = n
  BY <1>0, HookPCNames DEF HookRecord
<1>4. hook[h].pc \in CriticalPCs => lock = h
  BY DEF MintInv, LockHeld
<1>5. CASE AcquireStemLock(h, "resolveLock", "resolveUpdate")
  <2>1. hook' = [hook EXCEPT ![h] = [hook[h] EXCEPT !.pc = "resolveUpdate"]] /\ lock' = h /\ lock = NoHook
    BY <1>5 DEF AcquireStemLock, Goto
  <2>2. Moves(h) /\ hook'[h].pc = "resolveUpdate"
    BY <2>1, <1>1, <1>2, WithinMoves, HookPCNames
  <2>3. QED BY <2>1, <2>2, OutsideKeeps DEF BegunPCs
<1>6. CASE AcquireStemLock(h, "lock", "lookup")
  <2>1. hook' = [hook EXCEPT ![h] = [hook[h] EXCEPT !.pc = "lookup"]] /\ lock' = h /\ lock = NoHook
        /\ hook[h].pc = "lock"
    BY <1>6 DEF AcquireStemLock, Goto, At
  <2>2. Moves(h) /\ hook'[h] = [hook[h] EXCEPT !.pc = "lookup"]
    BY <2>1, <1>1, <1>2, WithinMoves, HookPCNames
  <2>3. QED BY <2>1, <2>2, <1>1, OnwardKeeps DEF BegunPCs
<1>7. CASE OpenLookup(h)
  <2>1. hook[h].pc = "lookup" /\ lock = h
    BY <1>7, <1>4 DEF OpenLookup, At, CriticalPCs
  <2>2. CASE OpenAt(rows, hook[h].at) = {} /\ Goto(h, "flap") /\ lock' = lock
    <3>1. hook' = [hook EXCEPT ![h] = [hook[h] EXCEPT !.pc = "flap"]]
      BY <2>2 DEF Goto
    <3>2. Moves(h) /\ hook'[h] = [hook[h] EXCEPT !.pc = "flap"]
          /\ hook'[h].pc = "flap" /\ hook'[h].at = hook[h].at /\ hook'[h].order = hook[h].order
      BY <3>1, <2>1, <2>2, <1>1, <1>2, WithinMoves
    <3>3. \A n \in Unresolved(rows) : rows[n].created + StuckProcessingTTL <= hook[h].at
      BY <2>2, Numbers DEF OpenAt, IsStuck
    <3>4. QED BY <3>2, <3>3, <2>1, <2>2, <1>1, OnwardKeeps DEF BegunPCs
  <2>3. ASSUME NEW n \in OpenAt(rows, hook[h].at), Release(h),
               hook' = [hook EXCEPT ![h] = [@ EXCEPT !.pc = "signal", !.wf = n]]
        PROVE  MintInv'
    <3>1. n \in Nat
      BY Numbers DEF OpenAt
    <3>2. hook'[h] = [hook[h] EXCEPT !.pc = "signal", !.wf = n]
          /\ \A g \in Hooks \ {h} : hook'[g] = hook[g]
      BY <2>3, <1>0
    <3>3. hook'[h].pc = "signal" /\ hook'[h].at = hook[h].at
      BY <3>2, <1>0 DEF HookRecord
    <3>4. Moves(h)
      BY <3>2, <3>3, <1>1, <2>3, LockOfOthers, NothingMinted, Numbers DEF Moves
    <3>5. QED BY <3>3, <3>4, OutsideKeeps DEF BegunPCs, CriticalPCs
  <2>4. QED BY <1>7, <2>2, <2>3 DEF OpenLookup
<1>8. CASE FlapCheck(h)
  <2>1. hook[h].pc = "flap" /\ lock = h
    BY <1>8, <1>4 DEF FlapCheck, At, CriticalPCs
  <2>2. CASE ~FlappingAt(rows, hook[h].at) /\ Goto(h, "history") /\ lock' = lock
    <3>1. hook' = [hook EXCEPT ![h] = [hook[h] EXCEPT !.pc = "history"]]
      BY <2>2 DEF Goto
    <3>2. Moves(h) /\ hook'[h] = [hook[h] EXCEPT !.pc = "history"]
          /\ hook'[h].pc = "history" /\ hook'[h].at = hook[h].at /\ hook'[h].order = hook[h].order
      BY <3>1, <2>1, <2>2, <1>1, <1>2, WithinMoves
    <3>3. /\ \A n \in Unresolved(rows) : rows[n].created + StuckProcessingTTL <= hook[h].at
          /\ \A n \in Present(rows) : Younger(h, n)
      BY <2>1 DEF MintInv, MintClaim, BegunPCs
    <3>4. ASSUME NEW n \in Present(rows) PROVE rows[n].order < hook[h].order
      <4>1. CASE rows[n].state = "resolved"
        <5>1. rows[n].resolvedAt <= hook[h].at - FlapWindow
          BY <4>1, <2>2, Numbers, TableAssumption DEF FlappingAt
        <5>2. ~(rows[n].resolvedAt + HandlingBound >= hook[h].at)
          BY <5>1, Numbers, TableAssumption
        <5>3. QED BY <4>1, <5>2, <3>3, Numbers DEF Younger
      <4>2. CASE rows[n].state # "resolved"
        <5>1. rows[n].created + StuckProcessingTTL <= hook[h].at
          BY <4>2, <3>3 DEF Unresolved
        <5>2. ~(rows[n].created >= hook[h].at)
          BY <5>1, Numbers DEF StuckProcessingTTL
        <5>3. QED BY <5>2, <3>3, Numbers DEF Younger
      <4>3. QED BY <4>1, <4>2
    <3>5. QED BY <3>2, <3>3, <3>4, <2>1, <2>2, <1>1, OnwardKeeps DEF BegunPCs
  <2>3. CASE Release(h) /\ Finish(h)
    <3>1. hook'[h] = IdleHook /\ \A g \in Hooks \ {h} : hook'[g] = hook[g]
      BY <2>3, <1>0 DEF Finish
    <3>2. hook'[h].pc = "idle"
      BY <3>1 DEF IdleHook
    <3>3. Moves(h)
      BY <3>1, <3>2, <1>1, <2>3, LockOfOthers, NothingMinted, Numbers DEF Moves
    <3>4. QED BY <3>2, <3>3, OutsideKeeps DEF BegunPCs, CriticalPCs
  <2>4. QED BY <1>8, <2>2, <2>3 DEF FlapCheck
<1>9. CASE HistoryLookup(h)
  <2>1. hook[h].pc = "history" /\ lock = h /\ lock' = lock
    BY <1>9, <1>4 DEF HistoryLookup, At, CriticalPCs
  <2>2. PICK n \in Nat : /\ hook' = [hook EXCEPT ![h] = [hook[h] EXCEPT !.pc = "insert", !.wf = n]]
                         /\ \A m \in Present(rows) : m < n
    <3>1. CASE Present(rows) = {} /\ hook' = [hook EXCEPT ![h] = [@ EXCEPT !.pc = "insert", !.wf = 1]]
      BY <3>1
    <3>2. ASSUME NEW n \in Present(rows), IsNewest(rows, Present(rows), n),
                 hook' = [hook EXCEPT ![h] = [@ EXCEPT !.pc = "insert", !.wf = n + 1]]
          PROVE  \E k \in Nat : /\ hook' = [hook EXCEPT ![h] = [hook[h] EXCEPT !.pc = "insert", !.wf = k]]
                                /\ \A m \in Present(rows) : m < k
      <4>1. ASSUME NEW m \in Present(rows) PROVE m < n + 1
        <5>1. rows[m].order <= rows[n].order /\ (n < m => rows[n].order < rows[m].order)
          BY <3>2 DEF IsNewest, MintInv, CreationOrder
        <5>2. QED BY <5>1, Numbers
      <4>2. n + 1 \in Nat
        BY Numbers
      <4>3. QED BY <4>1, <4>2, <3>2
    <3>3. QED BY <1>9, <3>1, <3>2 DEF HistoryLookup
  <2>3. Moves(h) /\ hook'[h] = [hook[h] EXCEPT !.pc = "insert", !.wf = n]
    BY <2>2, <2>1, <1>1, <1>3, WithinMoves, HookPCNames
  <2>4. /\ \A m \in Unresolved(rows) : rows[m].created + StuckProcessingTTL <= hook[h].at
        /\ \A m \in Present(rows) : rows[m].order < hook[h].order
    BY <2>1 DEF MintInv, MintClaim
  <2>5. /\ hook'[h].pc = "insert" /\ hook'[h].wf = n /\ hook'[h].at = hook[h].at
        /\ hook'[h].order = hook[h].order
    BY <2>3, <1>0 DEF HookRecord
  <2>6. QED BY <2>1, <2>2, <2>3, <2>4, <2>5, <1>1, OnwardKeeps DEF BegunPCs
<1>10. QED BY <1>5, <1>6, <1>7, <1>8, <1>9

\* The insert: no other request is in its critical section, and the row is younger than
\* every other and above it.
LEMMA InsertKeeps ==
    ASSUME TypeOK, TypeOK', MintInv, NEW h \in Hooks, Insert(h)
    PROVE  MintInv'
<1> PICK w \in Attempts : w = hook[h].wf
  BY DEF Insert
<1>0. hook[h] \in HookRecord /\ hook \in [Hooks -> HookRecord] /\ w \in Nat
  BY DEF TypeOK, Attempts
<1>1. hook[h].pc = "insert" /\ lock = h /\ lock' = NoHook /\ UNCHANGED <<now, stamp>>
  BY DEF Insert, At, MintInv, LockHeld, CriticalPCs, Release
<1>2. hook'[h].pc = "signal" /\ hook'[h].at = hook[h].at /\ \A g \in Hooks \ {h} : hook'[g] = hook[g]
  BY <1>0 DEF Insert, Goto, HookRecord
<1>3. /\ rows'[w] = [state |-> "processing", created |-> hook[h].at, order |-> hook[h].order,
                     resolvedAt |-> 0]
      /\ \A n \in Attempts \ {w} : rows'[n] = rows[n]
      /\ Present(rows') = Present(rows) \cup {w}
  <2>1. rows' = [rows EXCEPT ![w] = [state |-> "processing", created |-> hook[h].at,
                                     order |-> hook[h].order, resolvedAt |-> 0]]
    BY DEF Insert, InsertProcessing, Never
  <2>2. Present(rows') = Present(rows) \cup {w}
    <3>1. rows' = InsertProcessing(rows, w, hook[h].at, hook[h].order)
      BY DEF Insert
    <3>2. rows \in [Attempts -> Row] /\ hook[h].at \in Nat /\ hook[h].order \in Nat
      BY Numbers DEF TypeOK
    <3>3. QED BY <3>1, <3>2, InsertProcessingType
  <2>3. QED BY <2>1, <2>2 DEF TypeOK
<1>4. /\ \A n \in Present(rows) : n < w /\ rows[n].order < hook[h].order /\ rows'[n] = rows[n]
      /\ \A n \in Unresolved(rows) : rows[n].created + StuckProcessingTTL <= hook[h].at
      /\ hook[h].order <= stamp
  <2>1. \A n \in Present(rows) : n < w /\ rows[n].order < hook[h].order
    BY <1>1 DEF MintInv, MintClaim
  <2>2. \A n \in Present(rows) : n \in Attempts \ {w}
    BY <2>1, <1>0, Numbers
  <2>3. QED BY <2>1, <2>2, <1>1, <1>3 DEF MintInv, MintClaim, BegunPCs
<1>5. LockHeld'
  <2> SUFFICES ASSUME NEW g \in Hooks PROVE hook'[g].pc \notin CriticalPCs
    BY DEF LockHeld
  <2>1. CASE g = h
    BY <2>1, <1>2 DEF CriticalPCs
  <2>2. CASE g # h
    BY <2>2, <1>1, <1>2 DEF MintInv, LockHeld
  <2>3. QED BY <2>1, <2>2
<1>6. InTime'
  BY <1>1, <1>2 DEF MintInv, InTime
<1>7. Stamped'
  BY <1>1, <1>3, <1>4 DEF MintInv, Stamped
<1>8. \A g, k \in Hooks : Before(g, k)'
  BY <1>2 DEF MintInv, Before, BegunPCs
<1>9. ASSUME NEW g \in Hooks PROVE MintClaim(g)'
  <2>1. CASE g = h
    BY <2>1, <1>2 DEF MintClaim, BegunPCs
  <2>2. CASE g # h
    <3>1. hook'[g] = hook[g] /\ hook[g].pc \notin {"flap", "history", "insert"}
      BY <2>2, <1>1, <1>2 DEF MintInv, LockHeld, CriticalPCs
    <3>2. CASE hook[g].pc \notin BegunPCs
      BY <3>1, <3>2 DEF MintClaim, BegunPCs
    <3>3. CASE hook[g].pc \in BegunPCs
      <4>1. ASSUME NEW n \in Present(rows) PROVE Younger(g, n)'
        BY <4>1, <3>1, <3>3, <1>4 DEF MintInv, MintClaim, Younger
      <4>2. Younger(g, w)'
        <5>1. Before(g, h) /\ hook[h].pc \in BegunPCs
          BY <1>1 DEF MintInv, BegunPCs
        <5>2. /\ hook[g].order # hook[h].order
              /\ hook[g].order < hook[h].order => hook[g].at <= hook[h].at
          BY <5>1, <2>2, <3>3 DEF Before
        <5>3. /\ rows'[w].order = hook[h].order /\ rows'[w].created = hook[h].at
              /\ rows'[w].state # "resolved"
          BY <1>3
        <5>4. QED BY <5>2, <5>3, <3>1, Numbers DEF Younger
      <4>3. hook[g].order <= stamp'
        BY <3>3, <1>1 DEF MintInv, MintClaim
      <4>4. \A n \in Present(rows') : Younger(g, n)'
        BY <4>1, <4>2, <1>3
      <4>5. QED BY <4>3, <4>4, <3>1 DEF MintClaim
    <3>4. QED BY <3>2, <3>3
  <2>3. QED BY <2>1, <2>2
<1>10. CreationOrder'
  <2> SUFFICES ASSUME NEW m \in Present(rows'), NEW n \in Present(rows'), m < n
               PROVE  rows'[m].order < rows'[n].order
    BY DEF CreationOrder
  <2>1. CASE n \in Present(rows) /\ m \in Present(rows)
    BY <2>1, <1>4 DEF MintInv, CreationOrder
  <2>2. CASE n = w /\ m \in Present(rows)
    BY <2>2, <1>3, <1>4
  <2>3. CASE m = w
    BY <2>3, <1>0, <1>3, <1>4, Numbers
  <2>4. QED BY <2>1, <2>2, <2>3, <1>3
<1>11. OpenRowsFarApart'
  <2>1. \A n \in Unresolved(rows') : n = w \/ (n \in Unresolved(rows) /\ rows'[n] = rows[n])
    BY <1>3, <1>4 DEF Unresolved
  <2> SUFFICES ASSUME NEW m \in Unresolved(rows'), NEW n \in Unresolved(rows'), m < n
               PROVE  rows'[n].created >= rows'[m].created + StuckProcessingTTL
    BY DEF OpenRowsFarApart, StuckProcessingTTL
  <2>2. CASE n # w /\ m # w
    BY <2>1, <2>2 DEF MintInv, OpenRowsFarApart
  <2>3. CASE n = w /\ m # w
    <3>1. m \in Unresolved(rows) /\ rows'[m] = rows[m] /\ rows'[n].created = hook[h].at
      BY <2>1, <2>3, <1>3
    <3>2. rows[m].created + StuckProcessingTTL <= hook[h].at
      BY <3>1, <1>4
    <3>3. QED BY <3>1, <3>2, Numbers
  <2>4. CASE m = w
    <3>1. n # w
      BY <2>4, <1>0
    <3>2. n \in Present(rows)
      BY <3>1, <2>1 DEF Unresolved
    <3>3. n < w /\ n \in Nat
      BY <3>2, <1>4, Numbers
    <3>4. QED BY <3>3, <2>4, <1>0
  <2>5. QED BY <2>2, <2>3, <2>4
<1>12. QED BY <1>5, <1>6, <1>7, <1>8, <1>9, <1>10, <1>11 DEF MintInv

-----------------------------------------------------------------------------
\* No row and no request.
LEMMA InitMintInv == Init => MintInv
<1> SUFFICES ASSUME Init PROVE MintInv
  OBVIOUS
<1>1. Present(rows) = {} /\ Unresolved(rows) = {}
  BY DEF Init, Present, Unresolved, NoRow
<1>2. \A h \in Hooks : hook[h].pc = "idle"
  BY DEF Init, IdleHook
<1>3. QED BY <1>1, <1>2
          DEF MintInv, LockHeld, InTime, Stamped, MintClaim, Before, CreationOrder,
              OpenRowsFarApart, CriticalPCs, BegunPCs

\* The invariant is inductive, given the one above.
LEMMA NextMintInv ==
    ASSUME Operators = {}, HandlingBound < FlapWindow, WorkflowExecutionTimeout > 0,
           IInv, IInv', MintInv, [Next]_vars
    PROVE  MintInv'
<1> USE DEF IInv
<1>1. CASE UNCHANGED vars
  <2>1. Aside
    BY <1>1, NothingMinted DEF vars, Aside
  <2>2. QED BY <2>1, AsideKeeps
<1>2. CASE ReapSession
  <2>1. Aside
    BY <1>2, NothingMinted DEF ReapSession, Aside
  <2>2. QED BY <2>1, AsideKeeps
<1>3. CASE DashboardStep
  BY <1>3, DashboardAside, AsideKeeps
<1>4. CASE \E n \in Attempts : RunStep(n)
  BY <1>4, RunAside, AsideKeeps
<1>5. CASE Tick
  BY <1>5, TickKeeps
<1>6. CASE BoundsReached
  BY <1>1, <1>6 DEF BoundsReached
<1>7. ASSUME NEW h \in Hooks, HandleWebhook(h) PROVE MintInv'
  <2>1. CASE ResolveByStem(h)
    BY <2>1, LeavesKeeps, LookupKeeps DEF ResolveByStem
  <2>2. CASE ResolveWorkflowID(h)
    BY <2>2, BeginKeeps, LookupKeeps, InsertKeeps, LeavesKeeps DEF ResolveWorkflowID
  <2>3. QED BY <1>7, <2>1, <2>2, LeavesKeeps DEF HandleWebhook
<1>8. QED BY <1>1, <1>2, <1>3, <1>4, <1>5, <1>6, <1>7 DEF Next

\* While nobody re-triages and no request spans the flap window, the minting transactions
\* keep the table in order, for any number of webhook requests and any dashboard action.
THEOREM LifecycleMintInv ==
    ASSUME Operators = {}, HandlingBound < FlapWindow, WorkflowExecutionTimeout > 0
    PROVE  Spec => []MintInv
<1>1. Init => MintInv
  BY InitMintInv
<1>2. IInv /\ IInv' /\ MintInv /\ [Next]_vars => MintInv'
  BY NextMintInv
<1>3. QED BY <1>1, <1>2, LifecycleInvariant, PTL DEF Spec

\* Under the same assumptions created_at orders attempts as their numbers do, although a
\* mint takes its time before it has the lock.
THEOREM LifecycleCreationOrder ==
    ASSUME Operators = {}, HandlingBound < FlapWindow, WorkflowExecutionTimeout > 0
    PROVE  Spec => []CreationOrder
<1>1. MintInv => CreationOrder
  BY DEF MintInv
<1>2. QED BY <1>1, LifecycleMintInv, PTL

\* Under the same assumptions a second open row of an identity is at least
\* stuckProcessingTTL younger than the first.
THEOREM LifecycleOpenRowsFarApart ==
    ASSUME Operators = {}, HandlingBound < FlapWindow, WorkflowExecutionTimeout > 0
    PROVE  Spec => []OpenRowsFarApart
<1>1. MintInv => OpenRowsFarApart
  BY DEF MintInv
<1>2. QED BY <1>1, LifecycleMintInv, PTL

\* Under the same assumptions a request about to insert finds its attempt free.
THEOREM LifecycleMintIsFresh ==
    ASSUME Operators = {}, HandlingBound < FlapWindow, WorkflowExecutionTimeout > 0
    PROVE  Spec => []MintIsFresh
<1>1. TypeOK /\ MintInv => MintIsFresh
  <2> SUFFICES ASSUME TypeOK, MintInv, NEW h \in Hooks, hook[h].pc = "insert", hook[h].wf \in Attempts
               PROVE  rows[hook[h].wf].state = "absent"
    BY DEF MintIsFresh
  <2>1. hook[h].wf \notin Present(rows)
    BY Numbers DEF MintInv, MintClaim
  <2>2. QED BY <2>1 DEF Present
<1>2. QED BY <1>1, LifecycleMintInv, LifecycleTypeOK, PTL

-----------------------------------------------------------------------------
(* The flap guard needs the lock alone: nobody resolves by webhook while a     *)
(* request is between its flap check and its insert.                           *)

FlapInv == LockHeld /\ FlapGuardHolds

PastFlapPCs == {"history", "insert"}

\* A step that resolves no row.
ResolvesNone ==
    \A n \in Attempts : rows'[n].state = "resolved" => rows[n] = rows'[n]

\* A step of h that resolves nothing, takes the lock from nobody else, and is not the one
\* that gets past the flap check.
LEMMA FlapKept ==
    ASSUME TypeOK, FlapInv, NEW h \in Hooks, ResolvesNone,
           \A g \in Hooks \ {h} : hook'[g] = hook[g] /\ (lock = g => lock' = g),
           hook'[h].pc \in CriticalPCs => lock' = h,
           hook'[h].pc \in PastFlapPCs => hook[h].pc \in PastFlapPCs /\ hook'[h].at = hook[h].at
    PROVE  FlapInv'
<1>1. LockHeld'
  BY DEF FlapInv, LockHeld
<1>2. \A n \in Present(rows') : rows'[n].state = "resolved" => n \in Present(rows) /\ rows'[n] = rows[n]
  BY DEF Present, ResolvesNone
<1>3. FlapGuardHolds'
  BY <1>2 DEF FlapInv, FlapGuardHolds, PastFlapPCs
<1>4. QED BY <1>1, <1>3 DEF FlapInv

\* A step that moves no request and resolves nothing.
LEMMA AsideFlap ==
    ASSUME TypeOK, FlapInv, ResolvesNone, UNCHANGED hook,
           lock' = lock \/ (lock = DeadSession /\ lock' = NoHook)
    PROVE  FlapInv'
<1>1. LockHeld'
  BY StateAssumption DEF FlapInv, LockHeld
<1>2. \A n \in Present(rows') : rows'[n].state = "resolved" => n \in Present(rows) /\ rows'[n] = rows[n]
  BY DEF Present, ResolvesNone
<1>3. FlapGuardHolds'
  BY <1>2 DEF FlapInv, FlapGuardHolds
<1>4. QED BY <1>1, <1>3 DEF FlapInv

\* Where a step leaves h, by what it does to h's record.
LEMMA HookAfter ==
    ASSUME TypeOK, NEW h \in Hooks
    PROVE  /\ \A p \in HookPCs : Goto(h, p) =>
                 /\ hook'[h].pc = p /\ hook'[h].at = hook[h].at
                 /\ \A g \in Hooks \ {h} : hook'[g] = hook[g]
           /\ Finish(h) \/ AfterResolve(h) =>
                 /\ hook'[h].pc \in {"idle", "gate"}
                 /\ \A g \in Hooks \ {h} : hook'[g] = hook[g]
<1>1. ASSUME NEW p \in HookPCs, Goto(h, p)
      PROVE  /\ hook'[h].pc = p /\ hook'[h].at = hook[h].at
             /\ \A g \in Hooks \ {h} : hook'[g] = hook[g]
  BY <1>1 DEF Goto, TypeOK, HookRecord
<1>2. ASSUME NEW r, hook' = [hook EXCEPT ![h] = r], r.pc \in {"idle", "gate"}
      PROVE  /\ hook'[h].pc \in {"idle", "gate"}
             /\ \A g \in Hooks \ {h} : hook'[g] = hook[g]
  BY <1>2 DEF TypeOK
<1>3. IdleHook.pc = "idle" /\ [IdleHook EXCEPT !.pc = "gate", !.at = hook[h].at].pc = "gate"
  BY DEF IdleHook
<1>4. Finish(h) => hook' = [hook EXCEPT ![h] = IdleHook]
  BY DEF Finish
<1>5. AfterResolve(h) =>
        \/ hook' = [hook EXCEPT ![h] = IdleHook]
        \/ hook' = [hook EXCEPT ![h] = [IdleHook EXCEPT !.pc = "gate", !.at = hook[h].at]]
  BY <1>4 DEF AfterResolve
<1>6. QED BY <1>1, <1>2, <1>3, <1>4, <1>5

\* A webhook step that resolves does so with the lock, when nobody is past the flap check.
LEMMA WebhookFlap ==
    ASSUME TypeOK, FlapInv, NEW h \in Hooks, HandleWebhook(h)
    PROVE  FlapInv'
<1>0. hook[h] \in HookRecord /\ hook \in [Hooks -> HookRecord]
      /\ (hook[h].pc \in CriticalPCs => lock = h)
      /\ \A g \in Hooks : hook[g].pc \in PastFlapPCs => lock = g
  BY DEF TypeOK, FlapInv, LockHeld, PastFlapPCs, CriticalPCs
<1>1. ASSUME NEW k \in Kinds, Arrive(h, k) PROVE FlapInv'
  <2>1. hook'[h].pc \in {"gate", "resolveBegin"} /\ \A g \in Hooks \ {h} : hook'[g] = hook[g]
    BY <1>0, <1>1 DEF Arrive, IdleHook
  <2>2. ResolvesNone /\ lock' = lock
    BY <1>1 DEF Arrive, ResolvesNone
  <2>3. QED BY <2>1, <2>2, FlapKept DEF CriticalPCs, PastFlapPCs
<1>2. ASSUME NEW from, NEW to \in {"resolveLock", "lock"}, Begin(h, from, to) PROVE FlapInv'
  <2>1. hook'[h].pc = to /\ \A g \in Hooks \ {h} : hook'[g] = hook[g]
    BY <1>0, <1>2 DEF Begin, HookRecord
  <2>2. ResolvesNone /\ lock' = lock
    BY <1>2 DEF Begin, ResolvesNone
  <2>3. QED BY <2>1, <2>2, FlapKept DEF CriticalPCs, PastFlapPCs
<1>3. ASSUME NEW from, NEW to \in {"resolveUpdate", "lookup"}, AcquireStemLock(h, from, to)
      PROVE  FlapInv'
  <2>1. hook'[h].pc = to /\ \A g \in Hooks \ {h} : hook'[g] = hook[g]
    BY <1>3, HookAfter, HookPCNames DEF AcquireStemLock
  <2>2. ResolvesNone /\ lock' = h /\ lock = NoHook
    BY <1>3 DEF AcquireStemLock, ResolvesNone
  <2>3. QED BY <2>1, <2>2, FlapKept, StateAssumption DEF PastFlapPCs
<1>4. CASE ResolveUpdate(h)
  <2>1. lock = h /\ hook'[h].pc \in {"idle", "gate"} /\ \A g \in Hooks \ {h} : hook'[g] = hook[g]
    BY <1>0, <1>4, HookAfter DEF ResolveUpdate, At, CriticalPCs
  <2>2. \A g \in Hooks : hook'[g].pc \notin CriticalPCs
    BY <2>1 DEF FlapInv, LockHeld, CriticalPCs
  <2>3. QED BY <2>2 DEF FlapInv, LockHeld, FlapGuardHolds, CriticalPCs
<1>5. CASE \/ ResolveFails(h) \/ InsertConflict(h) \/ MintFails(h) \/ Signal(h) \/ SignalFails(h)
           \/ (Gate(h) /\ Finish(h)) \/ (FlapCheck(h) /\ Finish(h))
  <2>1. hook'[h].pc \in {"idle", "gate"} /\ \A g \in Hooks \ {h} : hook'[g] = hook[g]
    BY <1>5, HookAfter DEF ResolveFails, InsertConflict, MintFails, Signal, SignalFails
  <2>2. ResolvesNone /\ (Release(h) \/ RollBack(h) \/ lock' = lock)
    BY <1>5 DEF ResolveFails, InsertConflict, MintFails, Signal, SignalFails, Gate, FlapCheck,
                Goto, Release, ResolvesNone
  <2>3. QED BY <2>1, <2>2, LockOfOthers, FlapKept DEF CriticalPCs, PastFlapPCs
<1>6. CASE Gate(h) /\ Goto(h, "begin")
  <2>1. hook'[h].pc = "begin" /\ \A g \in Hooks \ {h} : hook'[g] = hook[g]
    BY <1>6, HookAfter, HookPCNames
  <2>2. ResolvesNone /\ lock' = lock
    BY <1>6 DEF Gate, ResolvesNone
  <2>3. QED BY <2>1, <2>2, FlapKept DEF CriticalPCs, PastFlapPCs
<1>7. CASE OpenLookup(h)
  <2>1. ResolvesNone /\ lock = h /\ \A g \in Hooks \ {h} : lock = g => lock' = g
    BY <1>0, <1>7 DEF OpenLookup, At, CriticalPCs, ResolvesNone
  <2>2. CASE Goto(h, "flap") /\ UNCHANGED lock
    <3>1. hook'[h].pc = "flap" /\ \A g \in Hooks \ {h} : hook'[g] = hook[g]
      BY <2>2, HookAfter, HookPCNames
    <3>2. QED BY <2>1, <2>2, <3>1, FlapKept DEF PastFlapPCs
  <2>3. ASSUME NEW n, hook' = [hook EXCEPT ![h] = [@ EXCEPT !.pc = "signal", !.wf = n]] PROVE FlapInv'
    <3>1. hook'[h].pc = "signal" /\ \A g \in Hooks \ {h} : hook'[g] = hook[g]
      BY <1>0, <2>3 DEF HookRecord
    <3>2. QED BY <2>1, <3>1, FlapKept DEF CriticalPCs, PastFlapPCs
  <2>4. QED BY <1>7, <2>2, <2>3 DEF OpenLookup
<1>8. CASE FlapCheck(h) /\ ~FlappingAt(rows, hook[h].at) /\ Goto(h, "history")
  <2>1. lock' = lock /\ lock = h /\ UNCHANGED rows
    BY <1>0, <1>8 DEF FlapCheck, At, CriticalPCs
  <2>2. hook'[h].pc = "history" /\ hook'[h].at = hook[h].at /\ \A g \in Hooks \ {h} : hook'[g] = hook[g]
    BY <1>8, HookAfter, HookPCNames
  <2>3. \A n \in Present(rows) : rows[n].state = "resolved" => hook[h].at - rows[n].resolvedAt >= FlapWindow
    BY <1>8, Numbers, TableAssumption DEF FlappingAt
  <2>4. LockHeld'
    BY <2>1, <2>2 DEF FlapInv, LockHeld
  <2>5. FlapGuardHolds'
    BY <2>1, <2>2, <2>3 DEF FlapInv, FlapGuardHolds
  <2>6. QED BY <2>4, <2>5 DEF FlapInv
<1>9. CASE HistoryLookup(h)
  <2>1. ResolvesNone /\ lock' = lock /\ lock = h /\ hook[h].pc = "history"
    BY <1>0, <1>9 DEF HistoryLookup, At, CriticalPCs, ResolvesNone
  <2>2. ASSUME NEW n, hook' = [hook EXCEPT ![h] = [@ EXCEPT !.pc = "insert", !.wf = n]]
        PROVE  /\ hook'[h].pc = "insert" /\ hook'[h].at = hook[h].at
               /\ \A g \in Hooks \ {h} : hook'[g] = hook[g]
    BY <1>0, <2>2 DEF HookRecord
  <2>3. /\ hook'[h].pc = "insert" /\ hook'[h].at = hook[h].at
        /\ \A g \in Hooks \ {h} : hook'[g] = hook[g]
    BY <1>9, <2>2 DEF HistoryLookup
  <2>4. QED BY <2>1, <2>3, FlapKept DEF PastFlapPCs
<1>10. CASE Insert(h)
  <2>1. hook'[h].pc = "signal" /\ \A g \in Hooks \ {h} : hook'[g] = hook[g]
    BY <1>10, HookAfter, HookPCNames DEF Insert
  <2>2. ResolvesNone
    BY <1>10 DEF Insert, InsertProcessing, ResolvesNone, TypeOK
  <2>3. QED BY <1>10, <2>1, <2>2, LockOfOthers, FlapKept DEF Insert, CriticalPCs, PastFlapPCs
<1>11. QED
  BY <1>1, <1>2, <1>3, <1>4, <1>5, <1>6, <1>7, <1>8, <1>9, <1>10
     DEF HandleWebhook, ResolveByStem, ResolveWorkflowID, Gate, FlapCheck

\* No other step resolves.
LEMMA NextFlapInv ==
    ASSUME "resolve" \notin WebActions, IInv, FlapInv, [Next]_vars
    PROVE  FlapInv'
<1> USE DEF IInv
<1>1. CASE ReapSession \/ Tick \/ UNCHANGED vars \/ BoundsReached
  BY <1>1, AsideFlap DEF ReapSession, Tick, vars, BoundsReached, ResolvesNone
<1>2. CASE DashboardStep
  <2>1. UNCHANGED <<hook, lock>>
    BY <1>2 DEF DashboardStep, HandleAcknowledge, HandleResolve, SetWorkflowsEnabled
  <2>2. ResolvesNone
    BY <1>2 DEF DashboardStep, HandleAcknowledge, HandleResolve, SetWorkflowsEnabled, ResolvesNone,
                TypeOK, Row
  <2>3. QED BY <2>1, <2>2, AsideFlap
<1>3. ASSUME NEW n \in Attempts, RunStep(n) PROVE FlapInv'
  <2>1. UNCHANGED <<hook, lock>>
    BY <1>3 DEF RunStep, AnnouncePhase, DiagnosisReady, DiagnosisFails, StoreReport, StoreGivesUp,
                ExecutionTimesOut, StrayStore
  <2>2. n \in Present(rows) \/ rows' = rows \/ \E p \in {"enriching", "triaging"} : AnnouncePhase(n, p)
    BY <1>3 DEF RunStep, DiagnosisReady, DiagnosisFails, StoreReport, StoreGivesUp,
                ExecutionTimesOut, StrayStore, RunHasRow, StrayWasRun
  <2>3. \/ rows' = rows \/ \E p \in {"enriching", "triaging"} : AnnouncePhase(n, p)
        \/ rows' = StoreTriageReport(rows, n, now, stamp)
    BY <1>3 DEF RunStep, DiagnosisReady, DiagnosisFails, StoreReport, StoreGivesUp,
                ExecutionTimesOut, StrayStore
  <2>4. ASSUME NEW p \in {"enriching", "triaging"}, AnnouncePhase(n, p) PROVE rows' = rows
    BY <2>4, UpdateIncidentStateType DEF AnnouncePhase, TypeOK
  <2>5. ResolvesNone
    BY <2>2, <2>3, <2>4 DEF ResolvesNone, StoreTriageReport, TypeOK, Row, Present
  <2>6. QED BY <2>1, <2>5, AsideFlap
<1>4. ASSUME NEW o \in Operators, HandleRetriage(o) PROVE FlapInv'
  <2>1. UNCHANGED <<hook, lock>>
    BY <1>4 DEF HandleRetriage, ReadIncident, CheckCap, Reserve, ProbeNext, StartRetriage,
                RetriageFails
  <2>2. rows' = rows \/ \E n \in Attempts : \E t, k : rows' = InsertProcessing(rows, n, t, k)
    BY <1>4 DEF HandleRetriage, ReadIncident, CheckCap, Reserve, ProbeNext, StartRetriage,
                RetriageFails
  <2>3. ResolvesNone
    BY <2>2 DEF ResolvesNone, InsertProcessing, TypeOK
  <2>4. QED BY <2>1, <2>3, AsideFlap
<1>5. QED BY <1>1, <1>2, <1>3, <1>4, WebhookFlap DEF Next

\* While the dashboard, which takes no stem lock, resolves nothing: a request past its flap
\* check mints only outside the window of every resolve, for any number of webhook and
\* re-triage requests.
THEOREM LifecycleFlapGuard ==
    ASSUME "resolve" \notin WebActions PROVE Spec => []FlapGuardHolds
<1>1. Init => FlapInv
  BY DEF Init, FlapInv, LockHeld, FlapGuardHolds, IdleHook, CriticalPCs
<1>2. IInv /\ FlapInv /\ [Next]_vars => FlapInv'
  BY NextFlapInv
<1>3. FlapInv => FlapGuardHolds
  BY DEF FlapInv
<1>4. QED BY <1>1, <1>2, <1>3, LifecycleInvariant, PTL DEF Spec
=============================================================================
