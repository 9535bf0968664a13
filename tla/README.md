# triage-worker: TLA+ models, checks and proofs

The triage worker receives Alertmanager webhooks, opens one incident row per
incident identity and attempt in Postgres (`triage.reports`), runs a Temporal
workflow that correlates alerts, collects context, asks an LLM agent for a
diagnosis and stores it, and serves a dashboard on which operators acknowledge,
resolve and re-triage incidents. This directory holds TLA+ modules of that
program, the TLC configurations that check them, and TLAPS proofs.

`PROJECT.json` lists the components, the runs, the source lines behind every
definition (`map`), the hazards, the deviations found, and the theorems.

## 1. Inventory

| component | state | operations | talks to |
|---|---|---|---|
| incident store (`triage.reports`) | a row per workflow_id = identity stem + attempt | preliminary insert, resolve, `StoreTriageReport`, `UpdateIncidentState`, acknowledge | everything below |
| webhook handler (`webhook/handler.go`) | requests in flight, the per-stem advisory lock, health flag | grouping by identity, `resolveByStem`, kill-switch, `resolveWorkflowID`, `signalWithStart`, one answer per group | store, switch, Temporal, Alertmanager |
| re-triage (`web/handler.go`, `workflow/retriage.go`) | requests in flight | check, cap, `allocateAttemptID`, start | store, Temporal |
| dashboard actions (`web/handler.go`) | none | acknowledge, resolve, escalate, notes, toggle | store, switch |
| triage workflow (`workflow/triage.go`) | correlated alerts, timers | `correlateAlerts`, announce, enrich, agent, store | Temporal, store, agent |
| kill-switch (`settings/settings.go`) | a settings row, an atomic cache | `Load`, `SetWorkflowsEnabled`, `WorkflowsEnabled` | store, dashboard, webhook |
| realtime updates (`web/sse.go`) | LISTEN connection, one pending event, debounce timer, clients' channels | dispatch, debounce, flush, broadcast, subscribe, stop | NOTIFY trigger, pages |
| token provider (`auth/oauth.go`) | cached token, mutex | `Token`, `fetchToken` | token endpoint, agent call |
| agent call (`activity/agent.go`) | none | request, read plain or streamed reply, find the report | agent, token provider |
| worker process (`cmd/worker/main.go`) | what is open and running, health | start, serve, shut down | all of the above |
| schema migration (`activity/report.go`) | session lock, schema | `MigrateSchema` | Postgres, other replicas |
| identity (`types/alert.go`) | none | labels to identity, identity and attempt to workflow_id and back | webhook, workflow, re-triage |
| recommendations, summaries (`types/`) | none | pure functions | |
| enrichment, report API, rendering, authentication, CSRF, metrics | none that matters here | | |

What is hard here:

- **Interleaving.** Several webhook requests of one identity run at once, in
  several replicas. Only minting and webhook resolves take the stem lock;
  re-triage, the dashboard's statements and the workflow's activities do not.
  Statements run under READ COMMITTED, but `NOW()` is the time of BEGIN, which a
  request executes *before* it waits for the lock.
- **One answer for many.** A group has several identities, each with a transaction
  and a stem lock of its own; one status code speaks for all of them, and
  Alertmanager repeats the group or not.
- **Partial failure.** A row can be committed and its workflow never started; a
  rollback can fail and leave the lock with a dead session; a store can commit
  and its answer be lost, so that Temporal repeats it, even after the execution
  timed out.
- **Time.** Flap window, stuck-row bypass, debounce and hard cap, retries, token
  buffer, grace period.
- **Staleness.** The kill-switch's cache, the cached token, the pages.
- **Startup and shutdown.** Replicas that migrate at once under a session lock that
  a failed unlock leaves with a pooled session; deferred closes against requests,
  streams and the activities that run on after the worker has stopped.

What makes each component correct: attempts of an identity form a chain without
gaps; a workflow runs only for a committed row; resolved is final; two open rows
exist only when the older was a stuck orphan; a flapping identity opens nothing;
every request is answered, and a 200 is true of every identity of the group; what
fires gets an incident in the end, and what resolved is closed; pods of one workload
share an incident, and no workflow_id belongs to two; whoever was told of an
acknowledge, a resolve or a note can rely on it; correlation loses no alert and
ends; a pause or resume an operator was told of holds across restarts until somebody
asks for the opposite; an open dashboard shows every change in the end; no request
sets out with an expired token; a report the agent gave is found; a signal ends the
process, and what requests and streams use is closed behind them as far as the grace
period goes.

## 2. Modules

```
IncidentTable          rows of one identity, each SQL statement an operator
  IncidentState        shared state: rows, lock, requests, executions, switch, clock
    WebhookRequest     handleWebhook, statement by statement
    RetriageRequest    handleRetriage and RetriageStarter
    DashboardActions   acknowledge, resolve, toggle
    TriageRuns         executions, as far as they touch the rows
      IncidentLifecycle       the composition and its properties
        MCIncidentLifecycle   symmetry for TLC
        IncidentLifecycleProofs
IncidentLedger         abstract specification that IncidentLifecycle and
                       OperatorConsole implement
OperatorConsole, OperatorConsoleProofs
TriageWorkflow         one execution in detail; implements TriageRuns' steps
  TriageWorkflowProofs
Identity               labels, identities, workflow_ids
  AlertGroup           a group of several identities and its repetitions
    MCAlertGroup       the alerts of the checked group
    AlertGroupProofs
KillSwitch, MCKillSwitch
SSEBroker, SSEBrokerProofs
TokenProvider, TokenProviderProofs
AgentReply, AgentReplyProofs
WorkerProcess
WorkerProcessProofs    the process, and the kill-switch it loads
```

An operator `X_Something` is `X` with a plausible bug. No specification uses it;
`PROJECT.json` pairs it with the property that notices it.

**IncidentTable / IncidentState.** A workflow_id is an identity and an attempt, so
the rows of one identity are a function on `1..MaxAttempt`. A row has its state,
the tick of `created_at`, a rank that orders `created_at` below the tick, and
`resolved_at`. `lock` is the transaction-scoped advisory lock; `DeadSession` holds
it after a rollback that failed, until Postgres reaps the session.

**WebhookRequest.** One action per statement: `Begin` fixes `NOW()`,
`AcquireStemLock` waits, then `ResolveUpdate`, or `OpenLookup` (rule 1, reuse),
`FlapCheck` (rule 2, drop), `HistoryLookup` and `Insert` (rule 3, mint), and after
the commit `Signal`. `MintFails`, `ResolveFails`, `SignalFails` are the error paths
at every statement. A mixed group resolves first and then fires. A worker crash is
every request it serves failing where it stands, and Postgres rolling back.

**Identity** takes the name of a Kubernetes object as the sequence of its segments,
and a segment as a member of the sets the code tells apart (ordinals, schedule
stamps, pod and ReplicaSet hashes). `DeriveIdentity` is the switch over the labels,
`WorkflowIDForAttempt` and `ParseAttempt` build and read the `#n` suffix.
`SameWorkload` is Kubernetes' side: which labels two alerts about one workload have.

**AlertGroup** composes those identities: a notification sorts the group's alerts
into identities, resolves the resolved ones, asks the kill-switch, opens and signals
the firing ones and answers once. The transaction that `WebhookRequest` has statement
by statement is one step here, taken under the identity's lock, and the row is
reduced to what the answer depends on (no open row, open without a workflow, open with
one, resolved within the flap window). Alertmanager keeps the alerts, repeats the
group, and forgets a resolved alert only after a 200 that reached it. Requests for
other groups only take and give back locks; `Fails` is every failing call, with a
transaction that may have committed and a rollback that may leave its lock with a
dead session.

**OperatorConsole** has the four actions of the incident page, each one statement and
then, as another statement, the read for the answer, while other operators, the
webhook and the workflow change the row. `claims`, `toldResolved` and `lost` are
history variables: who took the incident, who was told it is resolved, and the notes
that a failed request had committed all the same.

**RetriageRequest.** Read, cap, probe, reserve, start: separate auto-committed
statements without the lock. A failure after `Reserve` leaves the row.

**TriageRuns** keeps of an execution its phase and start; `stray` says that a
store attempt runs on after the execution timed out. **TriageWorkflow** is the same
execution in detail: `FirstTask` and `CorrelationTask` are whole workflow tasks
(the debounce wait clipped to the cap, the channel drained, channel before timer),
`Query` the three parallel enrichment activities, each activity with its
`MaximumAttempts`, and answers that are lost after the commit.

**KillSwitch** separates the row from the cache: `Persist` (with an answer that may
be lost), `Cache`, `Boot` (with a read that may fail, which leaves the default,
enabled), `Crash`. Several toggles may be under way, as the store takes no lock around
the two steps. Three things are history: `promise` is what an operator was last told,
until somebody asks for the opposite; a toggle is `opposed` when somebody asked for the
other value while it was under way; `failed` names why row and cache may differ (a
failed first read, an answer that was lost, or a toggle that wrote the row while an
opposite one was about to write the cache). An unopposed toggle that is answered clears
the last two.

**SSEBroker** has the notification channel (a reconnect is a nil), the coalescing
pending event, the debounce timer whose callback may run late, channels of bounded
capacity that drop, and pages that load, subscribe, fetch again and leave.

**TokenProvider** has the mutex, the cached expiry as the provider noted it and as
the issuer counts it (from the issue, earlier than the answer), and the agent
request, with the clock. A call notes when it was handed its token (`since`).

**AgentReply** abstracts texts to sequences of tokens (whole objects, stray braces,
code fences, line breaks, prose), so that `StripMarkdownJSON` is prefix, fence and
brace search as in the code; the two readers and the verdict are operators, and
reading the stream event by event is the action system.

**WorkerProcess** follows `run()`: the migration (the session lock with its 30 s
timeout, two phases, an unlock that may fail and then leaves the lock with a session
of the pool until its five minutes are over, another replica that migrates too), what
else it opens, the goroutines, the signal that
both `NotifyContext` and the Temporal worker listen for, the shutdown and the
deferred closes in reverse order. Activities begin while the worker runs and may go on
when it has stopped: `worker.Options` sets no `WorkerStopTimeout`, so neither
`WorkerReturns` nor `StopWorker` waits for them. `Exit` ends whatever is left.

## 3. Runs

Every passing run explores the whole bounded state space.

| run | question | bounds |
|---|---|---|
| `webhooks` | two requests, acknowledges and workflows, no re-triage: `OpenRowsFarApart`, `CreationOrder`, `MintIsFresh`, `FlapGuardHolds`, `TypeOK` | 2 requests (symmetric), 3 attempts, 4 ticks, 3 transactions |
| `retriage` | `AttemptsContiguous`, `RunHasRow`, `ResolvedIsFinal`, `ImplementsLedger` with an unlocked re-triage, dashboard resolves and toggles | 1 request, 1 re-triage, 3 attempts, 4 ticks |
| `groups` | `PodsShareIncident`, `WorkflowIdsDistinct`, `AnswersHonest`, `TypeOK`, and `RequestsAnswered`, `FiringSurfaces`, `ResolvedCloses` under fairness | 3 alerts of 2 identities, 1 request at a time beside others that lock, 1 failing call |
| `console` | `OneTakesIt`, `ToldResolvedIsResolved`, `NotesOnce`, `ResolvedRowFrozen` | 2 operators, 1 note committed by a failed request |
| `switch` | `PauseHonoured`, `ResumeHonoured`, `CacheMatchesRow` | 2 toggles that overlap, 2 firings (both symmetric), crashes without bound |
| `execution` | `CorrelationTakesAll`, `CorrelationBounded`, `ImplementsRun` | 2 alerts, debounce 2, cap 5, timeout 9; the code's attempt limits |
| `dashboards` | `TypeOK`, `NoSendAfterClose`, and `DashboardsShowChanges` under fairness | 2 pages, channels of 1, 2 changes |
| `shared` | `TokenLiveAtHandOut`, `BufferCovers`, and `TokenAnswered` under fairness | 2 calls, ticks of 50 s: buffer 3, fetch 1, activity 6, lifetimes 3 and 6, 11 ticks |
| `reply` | `ReportFound`, `TransportsAgree` | all texts of up to 5 tokens; streams of any length |
| `process` | `MigratesAlone`, `RequestsDrained`, and `StartEnds`, `LockGivenBack`, `ShutdownEnds`, `ReadyAgain` under fairness | 1 request, 1 stream, 1 activity, 1 other replica |
| `order` | violation: `CreationOrder` once operators re-triage | 1 request, 1 re-triage |
| `detail` | violation: `DetailsShowChanges` | 1 detail page |

Why the bounds are enough for what they are for: the lock protects two requests
against each other, and a third only waits as the second does; three attempts hold
an old resolved row, an open row and one to mint; the clock runs past the flap
window and past `stuckProcessingTTL`; `HandlingBound = 1` lets a transaction's
`NOW()` be older than the row it decides about while staying below the flap window
(a handler that stalls as long as the flap window is outside the model). `MaxStamp`
stops new requests. In `execution` the cap is not a multiple of the debounce, so
that the clipped wait occurs, and the execution timeout falls behind the cap. In
`shared` the clock allows a token to be fetched, cached, handed out and replaced, and a
request to run on past the end of its token, as the code's 300 s allow. The fetch, 10 s
in the code, is rounded up to a tick. A lifetime of 3 is not longer than the buffer:
such a token is fetched anew each time. In `switch` two toggles can cross; a third is
in line with one of them. In `process` requests, streams and activities do nothing to
each other, so that one of each shows what a second would.
In `groups` two alerts share an identity and one is alone, so that a group is firing
and resolved at once, within one identity and across two; the requests of other
groups stand for any number, since all they do to this one is to hold its locks; one
failing call is enough for a partial failure and for an answer that is wrong about
it. In `console` two operators suffice for one to overtake the other; a third would
only do to the second what the second does to the first.
`BoundsReached` is the only stuttering step added for a bound; deadlock stays
checked in the lifecycle, group, console, switch and token runs. The others may really
stop. The types of the modules whose cfg has no `TypeOK` are proved (section 4).

`FlapGuardHolds` is checked without dashboard resolves, because those take no stem lock
and break it (section 5); `retriage` has them.

**Fairness.** `AlertGroup`: a handler goes on (WF), a free advisory lock is granted to
each waiter in turn (SF, Postgres queues lock waiters), dead sessions are reaped and
other requests unlock, the flap window passes, Alertmanager repeats its notifications
(WF), and triage is not paused for ever (SF on `FireAll`: a request that comes to the
kill-switch again and again once finds it off). `SSEBroker`: goroutines and timers run,
pq reconnects, a subscribed page reads. `TokenProvider`: a fetch ends (client timeout),
`sync.Mutex` starves nobody (SF). `WorkerProcess`: `run()`'s own steps return, the pool
closes sessions at their five minutes, the grace period ends, the ticker ticks. Nothing
makes alerts fire or resolve, requests arrive, calls fail, streams, requests or
activities end, operators act, Temporal come back, or another replica give the migration
lock back. The other specifications state no fairness and have no liveness property.

## 4. Proofs

TLAPS checks these for every value of the constants that meets the named
assumptions of the modules (`TableAssumption`, `StateAssumption`, `TokenAssumption`,
`ConsoleAssumption`, ...).

**IncidentLifecycleProofs.** `AttemptsContiguous` and `RunHasRow` are not
inductive: a request carries an attempt number across several steps while others
insert. `IInv` adds what each request in flight may claim: `HookClaims` (at the
insert, every attempt below the chosen one has a row; at the signal, the chosen one
does), `OpClaims` (the same of a re-triage at its probe and its start) and
`StrayWasRun`. Rows never disappear, so every claim is stable, and each step
either keeps the set of rows or adds one whose predecessors exist (`Grows`).
Results: `LifecycleTypeOK`, `LifecycleContiguous`, `LifecycleRunHasRow`,
`LifecycleResolvedIsFinal`, and `LifecycleImplementsLedger`, which maps each step
to one step of `IncidentLedger` or a stutter.

The second group is about the lock and the clock. `LifecycleMintIsFresh`,
`LifecycleCreationOrder` and `LifecycleOpenRowsFarApart` assume that nobody re-triages
(`Operators = {}`; run `order` shows that the second fails otherwise),
`HandlingBound < FlapWindow` (no request takes longer than the flap window) and a
positive execution timeout; dashboard resolves are allowed. The difficulty is that a
mint's `created_at` is older than its lock. `MintInv` says, for the request that
holds the lock at each statement, what rows younger than its own `NOW()` can be:
open ones, which its lookup reuses, or ones resolved so recently that the flap check
drops it (`MintClaim`), together with `Before`, which orders two requests that both
passed BEGIN. A request that gets to its insert has therefore no younger row beside it,
so the newest row is the last attempt. `LifecycleFlapGuard` assumes only that the
dashboard resolves nothing; `FlapInv` adds to it that whoever is between the flap check
and the insert holds the lock.

**OperatorConsoleProofs.** `ClaimsHold` (while a claim stands the row is acknowledged
or resolved, so nobody else's acknowledge takes effect), `ResolvesHold` (a resolve that
waits for its answer found or made the row resolved), `NotesCounted` (one note for the
request that succeeded, one for each that lost its answer) and `StartedHasRow` survive
what the webhook and the workflow do to the row, because a resolved row is frozen
and a stored report ends every claim. Results:
`ConsoleTypeOK`, the four properties of run `console`, and `ConsoleImplementsLedger`.

**TriageWorkflowProofs.** `NothingDropped` (what was signalled is in the channel or
correlated until the correlation ends), `FirstIsEarly`, `StrayIsOver` and the bound on
timers give `WorkflowCorrelationTakesAll`, `WorkflowCorrelationBounded` and
`WorkflowSomeAlertCorrelated`: for any number of alerts and any durations.
`WorkflowImplementsRun` maps the execution with its activities, retries, lost answers
and timeouts to the steps of `TriageRuns` that the lifecycle is composed of.

**WorkerProcessProofs.** `ProcessMigratesAlone` and `ProcessRequestsDrained`: the
invariant follows `run()`: what is open at each place (`TemporalOpen`,
`DatabaseOpen`, `BrokerUp`), that nothing is served before the start (`NothingYet`),
that a closed server has neither requests nor streams (`ClosedIsIdle`), that whatever
comes behind the drain finds the server closed unless the grace period is over
(`DrainedFirst`), and that `errCh` has a place for every goroutine that may still
report (`ErrChRoom`). Of activities the theorem says nothing, because nothing waits for
them (section 5).

Its second part is about `KillSwitch`. `SwitchInv` says that a promise is in the row,
that between the two steps of an unopposed toggle the row already has its value, that
all toggles under way beside an unopposed one ask for what it asks for (`OpposedSeen`),
and that no request of the opposite value is under way while a promise stands;
`CacheFollows` adds the cache, with the faults named. For any number of firings and of
toggles, overlapping as they like: `KillSwitchPauseHonoured`,
`KillSwitchResumeHonoured`, `KillSwitchCacheMatchesRow`.

**SSEBrokerProofs.** `BrokerTypeOK`, which bounds every channel by its capacity, and
`BrokerNoSendAfterClose`, with any number of debounce callbacks still on their way.
`BrokerNothingForgotten` is the safety that `DashboardsShowChanges` rests on: while the
broker runs, a dashboard that lacks a change committed since it subscribed has an event
in its channel, a notification, a pending flush with its timer or its callback, a flush
already taken, or a reconnect to come. The fairness of the run then makes each of these
happen. Its invariant adds that a pending event always has a timer or a callback, and
`BroadcastReaches`, that a full channel drops only an event the client does not need.

**AgentReplyProofs.** `ReplyTransportsAgree`, for texts of any length: the lemma
`SameText` says that both readers come to the same text, and `Answered`,
`NothingRead` and `LastIsResponse` that what the activity returned is the outcome one
of the two readers gave the response it had. `ReplyReportFound`, for texts of any
length too: `TrimIs` describes what `strings.TrimSpace` leaves, `StripFindsReport` what
`stripMarkdownJSON` cuts out of a text with one report, `VerdictOfReport` that this is
what becomes the diagnosis. The least and the greatest position of a token exist by
well-founded induction over numbers (`Least`, `MinIs`, `MaxIs`).

**AlertGroupProofs**, of `AlertGroup` and `Identity`, for any labels, alerts and number of
requests:

- `GroupPodsShareIncident`. `SameIdentity` goes through the labels in the order of
  `DeriveIdentity`; for Jobs and pods, `JobOwner`, `DeploymentOwner` and `DaemonSetOwner`
  say that what the normalisation leaves depends on the owner alone. `WorkloadAssumption`
  says what it is for two alerts to be about one workload: the same labels, but for the
  Job or the pod of one owner, named as Kubernetes names them. It leaves out pods whose
  hash is all digits, which the code takes for a StatefulSet's (section 5).
- `GroupWorkflowIdsDistinct`. `SpelledOut` says what stands at each place of a
  workflow_id, `SafeIs` that a sanitised alert name has no delimiter, so that the stem
  can be read back (`StemsDiffer`) and the attempt after it (`AttemptFound`,
  `AttemptParsed`). `IdentityAssumption` has the two delimiters among the symbols
  `SanitizeLabelValue` drops, and `IsLabels` keeps them out of names of Kubernetes
  objects; only alert names are arbitrary.
- `GroupAnswersHonest`. A 200 says something of identities handled long before, in
  transactions that are over. `Accounted` says of every request that, unless something
  failed, each identity it owes is done, in hand or to do; each step of the loop moves
  an identity along, a failure sets `errors` for good, and `EndsByAnswer` shows that
  only a verdict ends a request.
- `GroupNoHoldAndWait`, the reason `RequestsAnswered` has no deadlock to fear: `HoldsOne`
  says that a request holds the lock of the identity in hand within its transaction and
  no other, so one that waits for a lock holds none.

**TokenProviderProofs.** `TokenInv`: the noted expiry is late by a fetch at most.
`TokenLive` needs `FetchCovered` (the buffer covers a fetch, lifetimes exceed it).
`TokenBufferCovers` needs nothing of the constants but their types: `RequestCovered`
says that a token, when it is handed out, has the buffer left if it came from the cache
and its lifetime if it was fetched, less a fetch in either case. With the code's buffer
of 150 s, its fetch of 10 s and tokens that live at least as long as the buffer, that
is the first 140 s of a request of up to 300 s.

Only model-checked, because liveness is outside the prover: `RequestsAnswered`,
`FiringSurfaces`, `ResolvedCloses`, `DashboardsShowChanges`, `TokenAnswered`,
`StartEnds`, `ReadyAgain`, `LockGivenBack` and `ShutdownEnds`. Every invariant and every
action property of a passing run is also a theorem.

## 5. Where the code and its texts disagree

Shown by a run:

- `order`: `webhook/handler.go:411` takes the newest row by `created_at` for the
  highest attempt. A re-triage that inserts while a webhook's older transaction
  waits breaks that, and the later mints of the identity run into the conflict.
- `detail`: a change lost with the LISTEN connection is broadcast as `refresh`
  (`sse.go:126`), which the detail page's `hx-trigger` does not name.

Met while modelling, not the subject of a run:

- `report.go:115` says states only move forward; the UPSERT of `StoreTriageReport`
  (`report.go:71`) puts an acknowledged row back to `reported`. `IncidentLedger`
  therefore allows `Report` on an acknowledged attempt.
- The cap of three active versions (`web/handler.go:1351`) is counted in one
  statement and used in another: two operators can pass it together.
- `report.go:318` says at most one row of an identity is open; a stuck row that was
  bypassed and a re-triage of an unresolved incident both make two.
- A row's age makes it stuck (`handler.go:318`), also while a later execution under
  the same workflow_id still runs.
- A dashboard resolve takes no lock and can fall between the flap check and the
  insert (`handler.go:389`, `web/handler.go:1240`); run `webhooks` therefore has no
  dashboard resolve, and `LifecycleFlapGuard` assumes that there is none.
- A group that is firing and resolved resolves each identity first; an identity that is
  both is then dropped by its own flap check (`handler.go:190`) and opened only by a
  later notification. `FiringSurfaces` says that this happens.
- A firing notification that arrives after the last alert resolved and was confirmed
  opens an incident that no later notification resolves; `ResolvedCloses` therefore
  speaks of the time when no request that took the alert for firing is under way.
- A pod whose five-character suffix is all digits is taken for a StatefulSet's ordinal
  and keeps its name (`alert.go:141`), against the list at `alert.go:120`; pods that a
  CronJob's job runs keep the schedule stamp. Such pods do not share an incident, and
  the checked group has none; `WorkloadAssumption` excludes them.
- `stripMarkdownJSON` promises to handle prose around the report (`agent.go:439`); a
  text that begins with the report and goes on in prose is returned whole and fails to
  parse. `ReportFound` speaks of the texts the code handles.
- `buildTimeline` calls the incident's timeline an immutable audit log
  (`web/handler.go:1654`); entries are built from columns that later actions replace.
- A second operator who resolves is told "Incident resolved", although his note and
  source are dropped (`web/handler.go:1254`); an acknowledge that committed while the
  read for the answer failed answers an internal error, and its retry is told of a
  conflict. A note whose panel cannot be read answers an empty panel and "Note added"
  (`web/handler.go:1609`).
- `report.go:207` says the migration's lock could stay with a pooled session for
  hours; `main.go:80` limits a session's life to five minutes, which is what
  `LockGivenBack` rests on.
- A pause refuses webhooks' starts, not re-triages (`web/handler.go:1355`).
- `SetWorkflowsEnabled` says that the cache is updated only after a successful write, so
  that the two cannot diverge (`settings.go:59-61`). They can, in three ways that the
  model has and `failed` names: two opposite toggles cross, one writing the row while
  the other is about to write the cache (`settings.go:72`, `:76`); the write commits and
  its acknowledgement is lost (`settings.go:72`); or the first read after a start fails
  (`main.go:166`), which resumes a paused process. In all three the next restart changes
  what the process does. `CacheMatchesRow` says that nothing else makes them differ, and
  that the next toggle nobody opposes mends the first two; a failed first read is mended
  by such a toggle or a restart too, but the property leaves it out.
- The kill-switch is read once, before the lock wait and the start (`handler.go:205`): a
  firing that passed it before a pause starts its run after the operator was told.
  `PauseHonoured` speaks of firings that arrive after that.
- The buffer's comment says that it must exceed the longest activity timeout, 120 s for
  agent calls, to prevent a token from expiring mid-request (`oauth.go:52`). The timeout
  is 300 s (`triage.go:106`, `main.go:143`), twice the buffer of 150 s: in the model of
  run `shared`, as in the code, a token can expire under a request. `BufferCovers` says
  what the buffer still gives.
- Activities are not waited for at shutdown. `worker.Options` (`main.go:149-152`) leaves
  `WorkerStopTimeout` at the SDK's default of 0, so that `w.Run` (`main.go:239`) and
  `w.Stop` (`main.go:313`) return while activities run, and the deferred `tc.Close`
  (`main.go:125`) and `db.Close` (`main.go:76`) come under them: a store may fail, or
  commit without its completion reaching Temporal, which then repeats it elsewhere.
  `TriageWorkflow` has those repetitions and lost answers. After an error from `errCh`
  (`main.go:279`) the same holds for requests and streams, as nothing drains them.
- Announcing a phase changes no row: `enriching` and `triaging` normalise to
  `processing`, which outranks nothing (proved as `UpdateIncidentStateType`).
- A debounce callback can run after `Stop` returned (`sse.go:162`); it finds no
  client.
- A JSON-RPC error in a stream becomes a report with classification Unknown
  (`agent.go:434`); in a plain reply it is an error. Text that is only in
  `status.message` is read from a plain reply (`agent.go:387`) and not from a stream,
  where it ends as Unknown too. `TransportsAgree` speaks of the cases both readers handle.
- At shutdown a health check under way may set the process ready again
  (`main.go:267`); and with an event stream open the shutdown always takes the
  whole grace period, because the broker is stopped by a defer.

## 6. Assumptions about what is outside the repository

`AwaitWithTimeout` looks at its condition before its timer. pq listens again before
it sends nil. Starting a workflow under a closed ID is allowed (the default reuse
policy). Temporal orders signals against workflow tasks. `w.Stop` may be called on a
worker that has stopped; with the default `WorkerStopTimeout` of 0 neither it nor
`w.Run` waits for activities. `http.Server.Shutdown` closes listeners first, waits for
active connections and leaves those it gave up on running.

## 7. Not modelled, and the plan

Done: the lifecycle (store, webhook, re-triage, dashboard, executions), its ledger
and proofs; the group of identities; the incident page; the workflow; the switch; the
broker; the token provider; the agent's reply; the process and its migration; the
proofs of section 4.

Next modules, most important first:

1. `ConnectionPool`: the pool of five that requests, activities and the dashboard
   share, with the connections that waiting for a stem lock ties up.
2. `Identity`: the rewriting of names that are no DNS labels (`SanitizeK8sName`) and
   the limits on lengths.
3. `Recommendations`: L1 commands and the merge into the report.
4. `SSEBroker`: a subscription after `Stop`, the keepalive and the client gauge.

Next proofs: what the other liveness properties rest on, as `BrokerNothingForgotten` does
for the dashboards (that a held stem lock always has someone to return it, that whoever
waits for the token waits for a fetch under way); `NotesOnce`'s counterpart for the store's
retried UPSERT.

Not planned: enrichment queries, report API, rendering, authentication, CSRF and
metrics. They read, format or count, and keep no state that another part relies on.
The schema beyond the columns named above, the prompt, and token usage are left out
of the modules that touch them.
