----------------------------- MODULE AlertGroup -----------------------------
(***************************************************************************)
(* handleWebhook for a whole alert group: its alerts are sorted into       *)
(* identities, every identity is resolved, or opened and signalled, in a   *)
(* transaction of its own, and one answer speaks for all of them.          *)
(* Alertmanager sends the group again until that answer is a 200.          *)
(*                                                                         *)
(* WebhookRequest has the statements of one identity's transaction; here   *)
(* its writes are one step, under the identity's lock.                     *)
(***************************************************************************)
EXTENDS Identity

CONSTANTS
    Alerts,     \* the alerts the group may have
    Labels,     \* the labels of each alert
    Workload,   \* the workload and problem that each alert is about
    Catalogue,  \* labels of alerts of other groups
    MaxAttempt, \* bound: attempts whose workflow_ids are compared
    Hooks,      \* webhook requests that can be in flight at once
    MaxFaults,  \* bound: calls that fail
    Free,       \* the stem lock is free
    Other,      \* it is held by a request for another group
    DeadSession \* it is held by a transaction nobody runs

ASSUME GroupAssumption ==
    /\ Free \notin Hooks /\ Other \notin Hooks \cup {Free}
    /\ DeadSession \notin Hooks \cup {Free, Other}
    /\ MaxFaults \in Nat
    /\ 1..MaxAttempt \subseteq DOMAIN Numeral

ASSUME LabelsAssumption ==
    /\ \A a \in Alerts : IsLabels(Labels[a])
    /\ \A labels \in Catalogue : IsLabels(labels)

ASSUME WorkloadAssumption ==
    \A a, b \in Alerts : Workload[a] = Workload[b] => SameWorkload(Labels[a], Labels[b])

VARIABLES
    alert,      \* each alert, as Alertmanager keeps it
    request,    \* the webhook requests in flight
    lock,       \* the holder of each stem's advisory lock
    incident,   \* what the table has of each identity
    faults      \* calls that failed

vars == <<alert, request, lock, incident, faults>>

IdentityOf == [a \in Alerts |-> DeriveIdentity(Labels[a])]
Stems == {IdentityOf[a] : a \in Alerts}
StemsOf(as) == {IdentityOf[a] : a \in as}

\* out: not in the group, because it never fired, or because a 200 told Alertmanager
\* that its resolve arrived.
AlertStates == {"out", "firing", "resolved"}

(* none: no open row, and none resolved within flapWindow.  minted: an open     *)
(* row, no workflow yet.  open: an open row and its workflow.  recent: resolved *)
(* within flapWindow.                                                           *)
IncidentStates == {"none", "minted", "open", "recent"}
Open(s) == incident[s] \in {"minted", "open"}

RequestPCs == {"idle", "resolving", "resolveLock", "resolveUpdate", "gate",
               "firing", "mintLock", "mint", "signal"}

\* code: the last answer.  todo: identities the loop has not come to.  stem: the one in
\* hand, if any.  closed, handled: the identities this request resolved, and those it
\* signalled or dropped as flapping; the code keeps neither.
Idle(code) ==
    [pc |-> "idle", code |-> code, firing |-> {}, resolved |-> {}, todo |-> {}, stem |-> {},
     errors |-> FALSE, closed |-> {}, handled |-> {}]

Request ==
    [pc : RequestPCs, code : {0, 200, 500}, firing : SUBSET Alerts, resolved : SUBSET Alerts,
     todo : SUBSET Stems, stem : {{}} \cup {{s} : s \in Stems}, errors : BOOLEAN,
     closed : SUBSET Stems, handled : SUBSET Stems]

TypeOK ==
    /\ alert \in [Alerts -> AlertStates]
    /\ request \in [Hooks -> Request]
    /\ lock \in [Stems -> Hooks \cup {Free, Other, DeadSession}]
    /\ incident \in [Stems -> IncidentStates]
    /\ faults \in 0..MaxFaults

-----------------------------------------------------------------------------
(* Alertmanager and time.                                                   *)

Fire(a) ==
    /\ alert[a] = "out"
    /\ alert' = [alert EXCEPT ![a] = "firing"]
    /\ UNCHANGED <<request, lock, incident, faults>>

Resolve(a) ==
    /\ alert[a] = "firing"
    /\ alert' = [alert EXCEPT ![a] = "resolved"]
    /\ UNCHANGED <<request, lock, incident, faults>>

\* A notification, the first or a repeated one, that the checks at the head of
\* handleWebhook let through.  (One that finds the process unhealthy changes nothing.)
Notify(h) ==
    LET firing   == {a \in Alerts : alert[a] = "firing"}
        resolved == {a \in Alerts : alert[a] = "resolved"}
    IN  /\ request[h].pc = "idle"
        /\ firing \cup resolved # {}
        /\ request' = [request EXCEPT ![h] =
                         [Idle(0) EXCEPT !.pc = "resolving", !.firing = firing,
                                         !.resolved = resolved, !.todo = StemsOf(resolved)]]
        /\ UNCHANGED <<alert, lock, incident, faults>>

FlapWindowPasses(s) ==
    /\ incident[s] = "recent"
    /\ incident' = [incident EXCEPT ![s] = "none"]
    /\ UNCHANGED <<alert, request, lock, faults>>

OtherLocks(s) ==
    /\ lock[s] = Free
    /\ \A t \in Stems : lock[t] # Other
    /\ lock' = [lock EXCEPT ![s] = Other]
    /\ UNCHANGED <<alert, request, incident, faults>>

OtherUnlocks(s) ==
    /\ lock[s] = Other
    /\ lock' = [lock EXCEPT ![s] = Free]
    /\ UNCHANGED <<alert, request, incident, faults>>

ReapSession(s) ==
    /\ lock[s] = DeadSession
    /\ lock' = [lock EXCEPT ![s] = Free]
    /\ UNCHANGED <<alert, request, incident, faults>>

-----------------------------------------------------------------------------
(* The transactions.                                                        *)

At(h, pc) == request[h].pc = pc

Fault == faults < MaxFaults /\ faults' = faults + 1

\* The alerts whose resolve a 200 confirmed leave the group; an answer may be lost.
Answer(h, code) ==
    /\ request' = [request EXCEPT ![h] = Idle(code)]
    /\ \/ /\ code = 200
          /\ alert' = [a \in Alerts |-> IF a \in request[h].resolved /\ alert[a] = "resolved"
                                        THEN "out" ELSE alert[a]]
       \/ UNCHANGED alert
    /\ UNCHANGED <<lock, incident>>

\* The next identity, in the order of a map: any.
Pick(h, from, to) ==
    /\ At(h, from)
    /\ \E s \in request[h].todo :
          request' = [request EXCEPT ![h] = [request[h] EXCEPT !.pc = to, !.stem = {s}, !.todo = @ \ {s}]]
    /\ UNCHANGED <<alert, lock, incident, faults>>

AcquireStemLock(h, from, to) ==
    /\ At(h, from)
    /\ \E s \in request[h].stem :
          /\ lock[s] = Free
          /\ lock' = [lock EXCEPT ![s] = h]
    /\ request' = [request EXCEPT ![h].pc = to]
    /\ UNCHANGED <<alert, incident, faults>>

Unlocked(h) == [s \in Stems |-> IF lock[s] = h THEN Free ELSE lock[s]]

\* A failed transaction that is neither committed nor rolled back.
Fails_KeepsLock(h, pcs, to, s, rows) ==
    /\ request[h].pc \in pcs /\ s \in request[h].stem
    /\ incident' = incident
    /\ request' = [request EXCEPT ![h] = [request[h] EXCEPT !.pc = to, !.stem = {}, !.errors = TRUE]]
    /\ Fault
    /\ UNCHANGED <<alert, lock>>

\* errors = append(errors, ...), and the next identity.  The transaction may have
\* committed all the same, and a rollback may fail.
Fails(h, pcs, to, s, rows) ==
    /\ request[h].pc \in pcs
    /\ s \in request[h].stem
    /\ incident' \in {incident, [incident EXCEPT ![s] = rows]}
    /\ lock' \in {Unlocked(h), [t \in Stems |-> IF lock[t] = h THEN DeadSession ELSE lock[t]]}
    /\ request' = [request EXCEPT ![h] = [request[h] EXCEPT !.pc = to, !.stem = {}, !.errors = TRUE]]
    /\ Fault
    /\ UNCHANGED alert

MarkResolved(s) == IF Open(s) THEN "recent" ELSE incident[s]

resolveByStem(h, s) ==
    /\ At(h, "resolveUpdate") /\ s \in request[h].stem
    /\ incident' = [incident EXCEPT ![s] = MarkResolved(s)]
    /\ lock' = Unlocked(h)
    /\ request' = [request EXCEPT ![h] = [request[h] EXCEPT !.pc = "resolving", !.stem = {},
                                                  !.closed = @ \cup {s}]]
    /\ UNCHANGED <<alert, faults>>

-----------------------------------------------------------------------------
(* handleResolvedAlerts.                                                    *)

ResolveFails(h) ==
    \E s \in Stems :
        \/ Fails(h, {"resolveLock"}, "resolving", s, incident[s])
        \/ Fails(h, {"resolveUpdate"}, "resolving", s, MarkResolved(s))

Verdict_SaysDone(h) == 200

Verdict_Unavailable(h) == IF request[h].errors THEN 503 ELSE 200

\* 500, so that Alertmanager sends the group again.
Verdict(h) == IF request[h].errors THEN 500 ELSE 200

AllResolved(h) ==
    /\ At(h, "resolving") /\ request[h].todo = {}
    /\ IF request[h].firing = {}
       THEN Answer(h, Verdict(h)) /\ UNCHANGED faults
       ELSE /\ request' = [request EXCEPT ![h].pc = "gate"]
            /\ UNCHANGED <<alert, lock, incident, faults>>

handleResolvedAlerts(h) ==
    \/ Pick(h, "resolving", "resolveLock")
    \/ AcquireStemLock(h, "resolveLock", "resolveUpdate")
    \/ \E s \in Stems : resolveByStem(h, s)
    \/ ResolveFails(h)
    \/ AllResolved(h)

-----------------------------------------------------------------------------
(* The firing alerts.                                                       *)

FireAll(h) ==
    /\ At(h, "gate")
    /\ request' = [request EXCEPT ![h] = [request[h] EXCEPT !.pc = "firing",
                                                  !.todo = StemsOf(request[h].firing)]]
    /\ UNCHANGED <<alert, lock, incident, faults>>

Paused_DropsErrors(h) == At(h, "gate") /\ Answer(h, 200) /\ UNCHANGED faults

\* The kill-switch is on: the failed resolves alone decide the answer.
Paused(h) == At(h, "gate") /\ Answer(h, Verdict(h)) /\ UNCHANGED faults

Mint(s) == IF incident[s] = "none" THEN "minted" ELSE incident[s]

\* An identity that has an open row is taken for handled.
resolveWorkflowID_SkipsOpen(h, s) ==
    LET handled == incident[s] # "none"
    IN  /\ At(h, "mint") /\ s \in request[h].stem
        /\ incident' = [incident EXCEPT ![s] = Mint(s)]
        /\ lock' = Unlocked(h)
        /\ request' = [request EXCEPT ![h] =
                         IF handled
                         THEN [request[h] EXCEPT !.pc = "firing", !.stem = {}, !.handled = @ \cup {s}]
                         ELSE [request[h] EXCEPT !.pc = "signal"]]
        /\ UNCHANGED <<alert, faults>>

\* ErrSkipFlap drops the identity; otherwise its row is reused or minted.
resolveWorkflowID(h, s) ==
    LET flapping == incident[s] = "recent"
    IN  /\ At(h, "mint") /\ s \in request[h].stem
        /\ incident' = [incident EXCEPT ![s] = Mint(s)]
        /\ lock' = Unlocked(h)
        /\ request' = [request EXCEPT ![h] =
                         IF flapping
                         THEN [request[h] EXCEPT !.pc = "firing", !.stem = {}, !.handled = @ \cup {s}]
                         ELSE [request[h] EXCEPT !.pc = "signal"]]
        /\ UNCHANGED <<alert, faults>>

Start(s) == IF incident[s] = "minted" THEN "open" ELSE incident[s]

signalWithStart(h, s) ==
    /\ At(h, "signal") /\ s \in request[h].stem
    /\ incident' = [incident EXCEPT ![s] = Start(s)]
    /\ request' = [request EXCEPT ![h] = [request[h] EXCEPT !.pc = "firing", !.stem = {},
                                                  !.handled = @ \cup {s}]]
    /\ UNCHANGED <<alert, lock, faults>>

FiringFails(h) ==
    \E s \in Stems :
        \/ Fails(h, {"mintLock"}, "firing", s, incident[s])
        \/ Fails(h, {"mint"}, "firing", s, Mint(s))
        \/ Fails(h, {"signal"}, "firing", s, Start(s))

AllFired(h) ==
    /\ At(h, "firing") /\ request[h].todo = {}
    /\ Answer(h, Verdict(h))
    /\ UNCHANGED faults

handleFiringAlerts(h) ==
    \/ FireAll(h) \/ Paused(h)
    \/ Pick(h, "firing", "mintLock")
    \/ AcquireStemLock(h, "mintLock", "mint")
    \/ \E s \in Stems : resolveWorkflowID(h, s) \/ signalWithStart(h, s)
    \/ FiringFails(h)
    \/ AllFired(h)

-----------------------------------------------------------------------------
Init ==
    /\ alert = [a \in Alerts |-> "out"]
    /\ request = [h \in Hooks |-> Idle(0)]
    /\ lock = [s \in Stems |-> Free]
    /\ incident = [s \in Stems |-> "none"]
    /\ faults = 0

Next ==
    \/ \E a \in Alerts : Fire(a) \/ Resolve(a)
    \/ \E h \in Hooks : Notify(h) \/ handleResolvedAlerts(h) \/ handleFiringAlerts(h)
    \/ \E s \in Stems : FlapWindowPasses(s) \/ OtherLocks(s) \/ OtherUnlocks(s) \/ ReapSession(s)

(* Fairness: a handler goes on, Postgres grants its locks in turn and reaps    *)
(* dead sessions, time passes, Alertmanager repeats, and triage is not paused  *)
(* for ever.  Nothing makes alerts fire or resolve; calls fail MaxFaults times *)
(* at most.                                                                    *)
Handles(h) ==
    \/ Pick(h, "resolving", "resolveLock") \/ Pick(h, "firing", "mintLock")
    \/ \E s \in Stems : resolveByStem(h, s) \/ resolveWorkflowID(h, s) \/ signalWithStart(h, s)
    \/ AllResolved(h) \/ FireAll(h) \/ Paused(h) \/ AllFired(h)

Locks(h) ==
    \/ AcquireStemLock(h, "resolveLock", "resolveUpdate")
    \/ AcquireStemLock(h, "mintLock", "mint")

Fairness ==
    /\ \A h \in Hooks : WF_vars(Notify(h)) /\ WF_vars(Handles(h)) /\ SF_vars(Locks(h)) /\ SF_vars(FireAll(h))
    /\ \A s \in Stems : WF_vars(FlapWindowPasses(s)) /\ WF_vars(OtherUnlocks(s) \/ ReapSession(s))

Spec == Init /\ [][Next]_vars
FairSpec == Spec /\ Fairness

-----------------------------------------------------------------------------
\* A 200 speaks for every identity of the group: each one with a resolved alert was
\* resolved, and each one with a firing alert was signalled or dropped as flapping,
\* unless the kill-switch was on.
AnswersHonest ==
    [][\A h \in Hooks :
         (request[h].pc # "idle" /\ request'[h].pc = "idle" /\ request'[h].code = 200) =>
             /\ StemsOf(request[h].resolved) \subseteq request[h].closed
             /\ request[h].pc = "firing" => StemsOf(request[h].firing) \subseteq request[h].handled]_vars

\* Pods of one workload never have two open incidents.
PodsShareIncident ==
    \A a, b \in Alerts :
        (Workload[a] = Workload[b] /\ Open(IdentityOf[a]) /\ Open(IdentityOf[b]))
            => IdentityOf[a] = IdentityOf[b]

\* Identities of the group with a workflow_id that some other identity or attempt has
\* too, or that does not parse back into its stem and its attempt.
Ambiguous ==
    LET attempts == 1..MaxAttempt
        ids      == {DeriveIdentity(labels) : labels \in Catalogue} \cup Stems
    IN  {i \in Stems : \E m \in attempts :
            \/ ParseAttempt(WorkflowIDForAttempt(i, m)) # <<WorkflowID(i), m>>
            \/ \E j \in ids, n \in attempts :
                  /\ WorkflowIDForAttempt(i, m) = WorkflowIDForAttempt(j, n)
                  /\ <<i, m>> # <<j, n>>}

\* The workflow_ids of an incident in the table are its own, whatever other alerts
\* are called: no signal or report reaches another incident's row.
WorkflowIdsDistinct == \A s \in Stems : incident[s] # "none" => s \notin Ambiguous

\* Every request is answered, although it takes one stem lock after the other while
\* other requests take them too and dead sessions hold them.
RequestsAnswered ==
    \A h \in Hooks : request[h].pc # "idle" ~> request[h].pc = "idle"

Firing(s) == \E a \in Alerts : alert[a] = "firing" /\ IdentityOf[a] = s

\* An identity with a firing alert gets an open incident with a workflow, as long as
\* triage is not paused, whatever failed, flapped or resolved with it before.
FiringSurfaces ==
    \A s \in Stems : Firing(s) ~> (incident[s] = "open" \/ ~Firing(s))

\* Once an identity's alerts have resolved, and no request that took one for firing
\* is under way, its incident is closed in the end, unless it fires again.
ResolvedCloses ==
    \A s \in Stems :
        (/\ \E a \in Alerts : alert[a] = "resolved" /\ IdentityOf[a] = s
         /\ ~Firing(s)
         /\ \A h \in Hooks : request[h].pc = "idle")
        ~> (~Open(s) \/ Firing(s))
=============================================================================
