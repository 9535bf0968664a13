--------------------------- MODULE TriageWorkflow ---------------------------
(***************************************************************************)
(* One execution of TriageWorkflow, from its first alert to its end: the   *)
(* correlation of alert signals, the activities with their retries, and    *)
(* the row they write.  A workflow task is one step: Temporal orders a     *)
(* signal that comes while a worker runs the task after the task.  How     *)
(* long a task or an attempt waits or takes is left open, up to the        *)
(* execution timeout.                                                      *)
(***************************************************************************)
EXTENDS Naturals

CONSTANTS
    Alerts,                 \* fingerprints of the alerts of the identity
    FirstAlert,             \* the one SignalWithStart delivers
    Sources,                \* the enrichment activities: Prometheus, Kubernetes, Loki
    CorrelationDebounce,    \* CorrelationDebounce, in ticks
    CorrelationHardCap,     \* CorrelationHardCap, in ticks
    ExecutionTimeout,       \* WorkflowExecutionTimeout, in ticks
    StateAttempts,          \* MaximumAttempts of stateOpts, and so on
    EnrichAttempts,
    AgentAttempts,
    StoreAttempts

ASSUME WorkflowAssumption ==
    /\ FirstAlert \in Alerts
    /\ {CorrelationDebounce, CorrelationHardCap, ExecutionTimeout} \subseteq Nat \ {0}
    /\ {StateAttempts, EnrichAttempts, AgentAttempts, StoreAttempts} \subseteq Nat \ {0}

VARIABLES
    now,        \* the current tick
    phase,      \* where the execution stands
    inbox,      \* alert signals in the history, not yet received
    early,      \* every alert signalled before the correlation ended
    alerts,     \* the correlated alerts
    deadline,   \* when correlation ends for good
    timer,      \* when the current wait for alerts ends
    tries,      \* attempts of the current activity
    pending,    \* attempts of each enrichment activity; 0 once it is over
    stray,      \* a store attempt runs on although the execution is over
    row         \* its row in triage.reports

vars == <<now, phase, inbox, early, alerts, deadline, timer, tries, pending, stray, row>>

Started == 1    \* the tick the execution starts at

Correlating == {"scheduled", "correlating"}
Diagnosing  == Correlating \cup {"enriching", "querying", "triaging", "agent"}
Over        == {"completed", "failed", "noAlerts", "timedOut"}

\* The execution as the identity's TriageRuns sees it.
AsRun == [phase   |-> CASE phase \in Diagnosing -> "diagnosing"
                        [] phase = "storing"    -> "storing"
                        [] OTHER                -> "closed",
          started |-> IF phase \in Over THEN 0 ELSE Started,
          stray   |-> stray]

Runs == INSTANCE TriageRuns WITH
    MaxAttempt <- 1, FlapWindow <- 0, WorkflowExecutionTimeout <- ExecutionTimeout,
    Hooks <- {}, Operators <- {}, NoHook <- 0, DeadSession <- 1, WebActions <- {},
    MaxAttemptProbe <- 0, MaxActive <- 0, HandlingBound <- 0, MaxTime <- 0, MaxStamp <- 0,
    stamp <- 1, rows <- <<row>>, lock <- 0, hook <- <<>>, op <- <<>>, runs <- <<AsRun>>,
    enabled <- TRUE

TypeOK ==
    /\ now \in Started..(Started + ExecutionTimeout)
    /\ phase \in Diagnosing \cup Over \cup {"storing"}
    /\ inbox \subseteq Alerts /\ early \subseteq Alerts /\ alerts \subseteq Alerts
    /\ deadline \in Nat /\ timer \in Nat
    /\ tries \in Nat \ {0}
    /\ pending \in [Sources -> 0..EnrichAttempts]
    /\ stray \in BOOLEAN
    /\ row \in Runs!Row

-----------------------------------------------------------------------------
Advance(p) == phase' = p /\ tries' = 1

\* Temporal runs an activity again unless this was its last attempt.
RetryOr(maximum, p) ==
    IF tries < maximum THEN tries' = tries + 1 /\ UNCHANGED phase ELSE Advance(p)

\* An alert signal for the workflow_id.
SignalAlert(a) ==
    /\ phase \notin Over
    /\ inbox' = inbox \cup {a}
    /\ early' = IF phase \in Correlating THEN early \cup {a} ELSE early
    /\ UNCHANGED <<now, phase, alerts, deadline, timer, tries, pending, stray, row>>

-----------------------------------------------------------------------------
(* correlateAlerts.                                                           *)

EndCorrelation(taken) ==
    /\ alerts' = taken
    /\ Advance(IF taken = {} THEN "noAlerts" ELSE "enriching")
    /\ UNCHANGED timer

Wait_Unclipped(cap) ==
    /\ phase' = "correlating"
    /\ timer' = now + CorrelationDebounce
    /\ UNCHANGED tries

\* Wait one debounce for the next alert, but not past the cap.
Wait(cap) ==
    /\ phase' = "correlating"
    /\ timer' = IF CorrelationDebounce > cap - now THEN cap ELSE now + CorrelationDebounce
    /\ UNCHANGED tries

\* Drain the channel, then go round the loop again.
Drain(cap) ==
    /\ inbox' = {}
    /\ \/ cap > now  /\ alerts' = alerts \cup inbox /\ Wait(cap)
       \/ cap <= now /\ EndCorrelation(alerts \cup inbox)

\* The first workflow task: the cap counts from here, not from the start call.
FirstTask ==
    /\ phase = "scheduled"
    /\ deadline' = now + CorrelationHardCap
    /\ Drain(deadline')
    /\ UNCHANGED <<now, early, pending, stray, row>>

CorrelationTask_TimerFirst ==
    /\ phase = "correlating"
    /\ \/ now < timer /\ inbox # {} /\ Drain(deadline)
       \/ now >= timer /\ EndCorrelation(alerts) /\ UNCHANGED inbox
    /\ UNCHANGED <<now, early, deadline, pending, stray, row>>

\* AwaitWithTimeout looks at the channel before it looks at its timer.
CorrelationTask ==
    /\ phase = "correlating"
    /\ \/ inbox # {} /\ Drain(deadline)
       \/ inbox = {} /\ now >= timer /\ EndCorrelation(alerts) /\ UNCHANGED inbox
    /\ UNCHANGED <<now, early, deadline, pending, stray, row>>

-----------------------------------------------------------------------------
(* The activities.                                                            *)

Untouched == UNCHANGED <<now, inbox, early, alerts, deadline, timer, stray>>

AfterAnnounce == IF phase = "enriching" THEN "querying" ELSE "agent"

\* An attempt of UpdateIncidentState commits; its answer may be lost.
Announce ==
    /\ phase \in {"enriching", "triaging"}
    /\ row' = Runs!UpdateIncidentState(<<row>>, 1, phase)[1]
    /\ Advance(AfterAnnounce) \/ RetryOr(StateAttempts, AfterAnnounce)
    /\ Untouched /\ UNCHANGED pending

\* It fails; the workflow ignores the error.
AnnounceFails ==
    /\ phase \in {"enriching", "triaging"}
    /\ RetryOr(StateAttempts, AfterAnnounce)
    /\ Untouched /\ UNCHANGED <<pending, row>>

\* The three queries run in parallel, each with its own attempts; one that fails
\* for good only leaves its part of the enrichment out.
Query(s) ==
    /\ phase = "querying"
    /\ pending[s] # 0
    /\ \/ pending' = [pending EXCEPT ![s] = 0]
       \/ pending[s] < EnrichAttempts /\ pending' = [pending EXCEPT ![s] = @ + 1]
    /\ Untouched /\ UNCHANGED <<phase, tries, row>>

Enriched ==
    /\ phase = "querying"
    /\ \A s \in Sources : pending[s] = 0
    /\ Advance("triaging")
    /\ Untouched /\ UNCHANGED <<pending, row>>

InvokeTriageAgent ==
    /\ phase = "agent"
    /\ \/ Advance("storing")                    \* a report
       \/ RetryOr(AgentAttempts, "failed")      \* an error Temporal retries
       \/ Advance("failed")                     \* AuthError, ClientError, A2AClientError
    /\ Untouched /\ UNCHANGED <<pending, row>>

\* An attempt of StoreTriageReport commits; its answer may be lost.
Store ==
    /\ phase = "storing"
    /\ row' = Runs!StoreTriageReport(<<row>>, 1, now, 1)[1]
    /\ Advance("completed") \/ RetryOr(StoreAttempts, "completed")
    /\ Untouched /\ UNCHANGED pending

StoreFails_AsksAgain ==
    /\ phase = "storing"
    /\ RetryOr(StoreAttempts, "agent")
    /\ Untouched /\ UNCHANGED <<pending, row>>

\* The last failure is logged, not returned.
StoreFails ==
    /\ phase = "storing"
    /\ RetryOr(StoreAttempts, "completed")
    /\ Untouched /\ UNCHANGED <<pending, row>>

-----------------------------------------------------------------------------
(* Around the execution: its timeout, a store attempt that outlives it, the   *)
(* operators, the clock.                                                      *)

ExecutionTimesOut ==
    /\ phase \notin Over
    /\ now >= Started + ExecutionTimeout
    /\ stray' \in {FALSE, phase = "storing"}
    /\ Advance("timedOut")
    /\ UNCHANGED <<now, inbox, early, alerts, deadline, timer, pending, row>>

StrayStore ==
    /\ stray
    /\ stray' = FALSE
    /\ row' \in {row, Runs!StoreTriageReport(<<row>>, 1, now, 1)[1]}
    /\ UNCHANGED <<now, phase, inbox, early, alerts, deadline, timer, tries, pending>>

OperatorActs ==
    /\ \/ Runs!CanAcknowledge(row) /\ row' = [row EXCEPT !.state = "acknowledged"]
       \/ row.state # "resolved" /\ row' = Runs!MarkResolved(<<row>>, {1}, now)[1]
    /\ UNCHANGED <<now, phase, inbox, early, alerts, deadline, timer, tries, pending, stray>>

Tick ==
    /\ phase \notin Over
    /\ now < Started + ExecutionTimeout
    /\ now' = now + 1
    /\ UNCHANGED <<phase, inbox, early, alerts, deadline, timer, tries, pending, stray, row>>

\* Signal-with-start: the execution and its first alert come in one call.
Init ==
    /\ now = Started /\ phase = "scheduled"
    /\ inbox = {FirstAlert} /\ early = {FirstAlert} /\ alerts = {}
    /\ deadline = 0 /\ timer = 0 /\ tries = 1
    /\ pending = [s \in Sources |-> 1]
    /\ stray = FALSE
    /\ row = [state |-> "processing", created |-> 1, order |-> 1, resolvedAt |-> 0]

Next ==
    \/ \E a \in Alerts : SignalAlert(a)
    \/ FirstTask \/ CorrelationTask
    \/ Announce \/ AnnounceFails
    \/ \E s \in Sources : Query(s)
    \/ Enriched \/ InvokeTriageAgent
    \/ Store \/ StoreFails
    \/ ExecutionTimesOut \/ StrayStore
    \/ OperatorActs
    \/ Tick

Spec == Init /\ [][Next]_vars

-----------------------------------------------------------------------------
\* Every alert signalled before the correlation ended is handed to the agent, also
\* one that comes with the timer or at the hard cap.
CorrelationTakesAll ==
    phase \notin Correlating \cup {"timedOut"} => early \subseteq alerts

\* However the alerts keep coming, the correlation never waits past the hard cap.
CorrelationBounded == phase = "correlating" => timer <= deadline

\* The execution does to its row, and with its phases, what TriageRuns says.
OperatorStep == UNCHANGED AsRun /\ OperatorActs

ImplementsRun == [][Runs!RunStep(1) \/ OperatorStep]_<<row, AsRun>>
=============================================================================
