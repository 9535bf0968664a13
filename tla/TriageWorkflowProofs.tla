------------------------ MODULE TriageWorkflowProofs ------------------------
(***************************************************************************)
(* For any alerts, sources, limits and timeouts: the types of one          *)
(* execution, what its correlation promises, and that the execution does   *)
(* to its row what TriageRuns says.                                        *)
(***************************************************************************)
EXTENDS TriageWorkflow, TLAPS

\* While it correlates, an execution has received every signalled alert or will do so
\* before it leaves its loop.
NothingDropped == phase \in Correlating => early \subseteq alerts \cup inbox

\* The alert that came with the start call is among them.
FirstIsEarly == FirstAlert \in early

\* Once the loop is over something was correlated: the "noAlerts" return is never taken.
SomeAlertCorrelated == phase # "noAlerts"

\* A store attempt that runs on belongs to an execution that is over.
StrayIsOver == stray => phase \in Over

IInv ==
    /\ TypeOK /\ NothingDropped /\ FirstIsEarly /\ StrayIsOver
    /\ CorrelationTakesAll /\ CorrelationBounded /\ SomeAlertCorrelated

-----------------------------------------------------------------------------
(* The statements on a table that has only this execution's row.              *)

\* A statement that assigns a state, or nothing, gives a one-row table again.
LEMMA OneRow ==
    ASSUME NEW r \in Runs!Row, NEW s \in {"processing", "reported"}
    PROVE  /\ [<<r>> EXCEPT ![1].state = s] = <<[r EXCEPT !.state = s]>>
           /\ [r EXCEPT !.state = s] \in Runs!Row
<1>1. [<<r>> EXCEPT ![1].state = s] = <<[r EXCEPT !.state = s]>>
  OBVIOUS
<1>2. [r EXCEPT !.state = s] \in Runs!Row
  BY DEF Runs!Row, Runs!States
<1>3. QED BY <1>1, <1>2

LEMMA AnnounceRow ==
    ASSUME NEW r \in Runs!Row, NEW p \in {"enriching", "triaging"}
    PROVE  \E q \in Runs!Row : Runs!UpdateIncidentState(<<r>>, 1, p) = <<q>>
<1>1. Runs!NormalizedState(p) = "processing"
  BY DEF Runs!NormalizedState
<1>2. Runs!UpdateIncidentState(<<r>>, 1, p) \in {<<r>>, <<[r EXCEPT !.state = "processing"]>>}
  BY <1>1, OneRow DEF Runs!UpdateIncidentState
<1>3. QED BY <1>2, OneRow

LEMMA StoreRow ==
    ASSUME NEW r \in Runs!Row, NEW t \in Nat
    PROVE  \E q \in Runs!Row : Runs!StoreTriageReport(<<r>>, 1, t, 1) = <<q>>
<1> DEFINE new == [state |-> "reported", created |-> t, order |-> 1, resolvedAt |-> 0]
<1>1. new \in Runs!Row /\ [<<r>> EXCEPT ![1] = new] = <<new>>
  BY DEF Runs!Row, Runs!States
<1>2. Runs!StoreTriageReport(<<r>>, 1, t, 1) \in
          {<<r>>, <<new>>, <<[r EXCEPT !.state = "reported"]>>}
  BY <1>1, OneRow DEF Runs!StoreTriageReport, Runs!Never
<1>3. QED BY <1>1, <1>2, OneRow

LEMMA OperatorRow ==
    ASSUME row \in Runs!Row, now \in Nat, OperatorActs
    PROVE  row' \in Runs!Row
<1>1. CASE row' = [row EXCEPT !.state = "acknowledged"]
  BY <1>1 DEF Runs!Row, Runs!States
<1>2. CASE row' = Runs!MarkResolved(<<row>>, {1}, now)[1]
  <2>1. row' \in {row, [row EXCEPT !.state = "resolved", !.resolvedAt = now]}
    <3>1. <<row>>[1] = row /\ 1 \in 1..1
      OBVIOUS
    <3>2. Runs!MarkResolved(<<row>>, {1}, now)[1] =
            IF 1 \in {1} \cap Runs!Unresolved(<<row>>)
            THEN [<<row>>[1] EXCEPT !.state = "resolved", !.resolvedAt = now]
            ELSE <<row>>[1]
      BY <3>1, Zenon DEF Runs!MarkResolved, Runs!Attempts
    <3>3. QED BY <1>2, <3>1, <3>2
  <2>2. QED BY <2>1 DEF Runs!Row, Runs!States
<1>3. QED BY <1>1, <1>2 DEF OperatorActs

-----------------------------------------------------------------------------
LEMMA InitIInv == ASSUME Init PROVE IInv
<1> USE WorkflowAssumption DEF Init, Started
<1>1. TypeOK
  <2>1. row \in Runs!Row
    BY DEF Runs!Row, Runs!States
  <2>2. pending \in [Sources -> 0..EnrichAttempts]
    OBVIOUS
  <2>3. now \in Started..(Started + ExecutionTimeout)
    OBVIOUS
  <2>4. stray \in BOOLEAN
    OBVIOUS
  <2>5. QED BY <2>1, <2>2, <2>3, <2>4 DEF TypeOK, Diagnosing, Correlating
<1>2. NothingDropped /\ FirstIsEarly /\ CorrelationTakesAll /\ CorrelationBounded /\ SomeAlertCorrelated
  BY DEF NothingDropped, FirstIsEarly, CorrelationTakesAll, CorrelationBounded,
         SomeAlertCorrelated, Correlating
<1>3. StrayIsOver
  BY DEF StrayIsOver
<1>4. QED BY <1>1, <1>2, <1>3 DEF IInv

\* The loop of correlateAlerts: one workflow task takes what is in the channel, and waits
\* on or ends with it.
LEMMA CorrelationStep == ASSUME IInv, FirstTask \/ CorrelationTask PROVE IInv'
<1> USE DEF IInv, TypeOK
<1>1. /\ phase \in Correlating
      /\ alerts' = alerts \cup inbox /\ inbox' = {}
      /\ UNCHANGED <<now, early, pending, stray, row>>
  BY DEF FirstTask, CorrelationTask, Drain, Wait, EndCorrelation, Correlating
<1>2. now \in Nat
  BY DEF Started
<1>3. /\ deadline' \in Nat /\ timer' \in Nat /\ tries' \in Nat \ {0}
      /\ \/ phase' = "correlating" /\ timer' <= deadline'
         \/ phase' = IF alerts' = {} THEN "noAlerts" ELSE "enriching"
  <2>1. ASSUME NEW cap \in Nat, Drain(cap)
        PROVE  /\ timer' \in Nat /\ tries' \in Nat \ {0}
               /\ \/ phase' = "correlating" /\ timer' <= cap
                  \/ phase' = IF alerts' = {} THEN "noAlerts" ELSE "enriching"
    <3>1. CASE cap > now /\ Wait(cap)
      BY <3>1, <1>2, WorkflowAssumption DEF Wait
    <3>2. CASE EndCorrelation(alerts \cup inbox)
      BY <3>2 DEF EndCorrelation, Advance
    <3>3. QED BY <2>1, <3>1, <3>2 DEF Drain
  <2>2. CASE FirstTask
    <3>1. deadline' \in Nat /\ Drain(deadline')
      BY <2>2, <1>2, WorkflowAssumption DEF FirstTask
    <3>2. QED BY <3>1, <2>1
  <2>3. CASE CorrelationTask /\ Drain(deadline)
    BY <2>3, <2>1 DEF CorrelationTask
  <2>4. CASE CorrelationTask /\ EndCorrelation(alerts) /\ inbox = {}
    BY <2>4, <1>1 DEF CorrelationTask, EndCorrelation, Advance
  <2>5. QED BY <2>2, <2>3, <2>4 DEF CorrelationTask
<1>4. early' \subseteq alerts' /\ FirstAlert \in alerts'
  BY <1>1 DEF NothingDropped, FirstIsEarly
<1>5. phase' \in {"correlating", "enriching"}
  BY <1>3, <1>4
<1>6. TypeOK'
  BY <1>1, <1>3, <1>5 DEF Diagnosing, Correlating
<1>7. CorrelationBounded'
  BY <1>3, <1>4 DEF CorrelationBounded
<1>8. NothingDropped' /\ FirstIsEarly' /\ CorrelationTakesAll' /\ SomeAlertCorrelated'
  BY <1>1, <1>4, <1>5 DEF NothingDropped, FirstIsEarly, CorrelationTakesAll, SomeAlertCorrelated
<1>9. StrayIsOver'
  BY <1>1 DEF StrayIsOver, Correlating, Over
<1>10. QED BY <1>6, <1>7, <1>8, <1>9

LEMMA SignalStep == ASSUME IInv, NEW a \in Alerts, SignalAlert(a) PROVE IInv'
<1> USE DEF IInv, TypeOK
<1>1. TypeOK'
  BY DEF SignalAlert
<1>2. NothingDropped' /\ FirstIsEarly' /\ CorrelationTakesAll' /\ CorrelationBounded' /\ SomeAlertCorrelated'
  BY DEF SignalAlert, NothingDropped, FirstIsEarly, CorrelationTakesAll, CorrelationBounded,
         SomeAlertCorrelated
<1>3. StrayIsOver'
  BY DEF SignalAlert, StrayIsOver
<1>4. QED BY <1>1, <1>2, <1>3

\* The activities run after the correlation and touch none of its variables.
Later == phase \notin Correlating /\ UNCHANGED <<now, inbox, early, alerts, deadline, timer>>

LEMMA LaterStep ==
    ASSUME IInv, Later, TypeOK', StrayIsOver', phase' \notin Correlating \cup {"noAlerts"},
           phase' = "timedOut" \/ phase # "timedOut"
    PROVE  IInv'
BY DEF IInv, Later, NothingDropped, FirstIsEarly, CorrelationTakesAll, CorrelationBounded,
       SomeAlertCorrelated, Correlating

LEMMA ActivityStep ==
    ASSUME IInv,
           \/ Announce \/ AnnounceFails \/ Enriched \/ InvokeTriageAgent \/ Store \/ StoreFails
           \/ \E s \in Sources : Query(s)
    PROVE  IInv'
<1> USE DEF IInv, TypeOK
<1>1. /\ Later /\ UNCHANGED stray /\ phase # "timedOut"
      /\ phase' \in {"enriching", "querying", "triaging", "agent", "storing", "completed", "failed"}
      /\ tries' \in Nat \ {0}
  BY DEF Announce, AnnounceFails, Enriched, InvokeTriageAgent, Store, StoreFails, Query, Later,
         Correlating, Untouched, Advance, RetryOr, AfterAnnounce
<1>2. pending' \in [Sources -> 0..EnrichAttempts]
  <2>1. CASE \E s \in Sources : Query(s)
    BY <2>1, WorkflowAssumption DEF Query
  <2>2. CASE Announce \/ AnnounceFails \/ Enriched \/ InvokeTriageAgent \/ Store \/ StoreFails
    BY <2>2 DEF Announce, AnnounceFails, Enriched, InvokeTriageAgent, Store, StoreFails
  <2>3. QED BY <2>1, <2>2
<1>3. row' \in Runs!Row
  <2>1. CASE Announce
    BY <2>1, AnnounceRow DEF Announce
  <2>2. CASE Store
    BY <2>2, StoreRow DEF Store, Started
  <2>3. CASE AnnounceFails \/ Enriched \/ InvokeTriageAgent \/ StoreFails \/ \E s \in Sources : Query(s)
    BY <2>3 DEF AnnounceFails, Enriched, InvokeTriageAgent, StoreFails, Query
  <2>4. QED BY <2>1, <2>2, <2>3
<1>4. TypeOK'
  BY <1>1, <1>2, <1>3 DEF Later, Diagnosing, Over
<1>5. phase \notin Over
  BY DEF Announce, AnnounceFails, Enriched, InvokeTriageAgent, Store, StoreFails, Query, Over
<1>6. StrayIsOver'
  BY <1>1, <1>5 DEF StrayIsOver
<1>7. QED BY <1>1, <1>4, <1>6, LaterStep DEF Correlating

LEMMA AroundStep ==
    ASSUME IInv, ExecutionTimesOut \/ StrayStore \/ OperatorActs \/ Tick
    PROVE  IInv'
<1> USE DEF IInv, TypeOK
<1>1. UNCHANGED <<inbox, early, alerts, deadline, timer, pending>>
  BY DEF ExecutionTimesOut, StrayStore, OperatorActs, Tick
<1>2. phase' \in {phase, "timedOut"} /\ tries' \in Nat \ {0}
  <2>1. (phase' = phase /\ tries' = tries) \/ (phase' = "timedOut" /\ tries' = 1)
    <3>1. CASE ExecutionTimesOut
      BY <3>1, Zenon DEF ExecutionTimesOut, Advance
    <3>2. CASE StrayStore \/ OperatorActs \/ Tick
      BY <3>2, Zenon DEF StrayStore, OperatorActs, Tick
    <3>3. QED BY <3>1, <3>2
  <2>2. QED BY <2>1
<1>3. now' \in Started..(Started + ExecutionTimeout)
  <2>1. now' = now \/ (now' = now + 1 /\ now < Started + ExecutionTimeout)
    BY DEF ExecutionTimesOut, StrayStore, OperatorActs, Tick
  <2>2. QED BY <2>1, WorkflowAssumption DEF Started
<1>4. stray' \in BOOLEAN
  <2>1. CASE ExecutionTimesOut
    BY <2>1, Zenon DEF ExecutionTimesOut
  <2>2. CASE StrayStore \/ OperatorActs \/ Tick
    BY <2>2, Zenon DEF StrayStore, OperatorActs, Tick
  <2>3. QED BY <2>1, <2>2
<1>5. row' \in Runs!Row
  <2>1. CASE StrayStore
    BY <2>1, StoreRow DEF StrayStore, Started
  <2>2. CASE OperatorActs
    BY <2>2, OperatorRow DEF Started
  <2>3. CASE ExecutionTimesOut \/ Tick
    BY <2>3 DEF ExecutionTimesOut, Tick
  <2>4. QED BY <2>1, <2>2, <2>3
<1>6. TypeOK'
  BY <1>1, <1>2, <1>3, <1>4, <1>5 DEF Over
<1>7. NothingDropped' /\ FirstIsEarly' /\ CorrelationTakesAll' /\ CorrelationBounded' /\ SomeAlertCorrelated'
  BY <1>1, <1>2 DEF NothingDropped, FirstIsEarly, CorrelationTakesAll, CorrelationBounded,
                    SomeAlertCorrelated, Correlating
<1>8. StrayIsOver'
  <2>1. CASE ExecutionTimesOut
    BY <2>1 DEF ExecutionTimesOut, Advance, StrayIsOver, Over
  <2>2. CASE StrayStore \/ OperatorActs \/ Tick
    BY <2>2 DEF StrayStore, OperatorActs, Tick, StrayIsOver
  <2>3. QED BY <2>1, <2>2
<1>9. QED BY <1>6, <1>7, <1>8

LEMMA IInvStep == ASSUME IInv, [Next]_vars PROVE IInv'
<1>1. CASE FirstTask \/ CorrelationTask
  BY <1>1, CorrelationStep
<1>2. CASE \E a \in Alerts : SignalAlert(a)
  BY <1>2, SignalStep
<1>3. CASE \/ Announce \/ AnnounceFails \/ Enriched \/ InvokeTriageAgent \/ Store \/ StoreFails
           \/ \E s \in Sources : Query(s)
  BY <1>3, ActivityStep
<1>4. CASE ExecutionTimesOut \/ StrayStore \/ OperatorActs \/ Tick
  BY <1>4, AroundStep
<1>5. CASE UNCHANGED vars
  BY <1>5 DEF vars, IInv, TypeOK, NothingDropped, FirstIsEarly, CorrelationTakesAll,
              CorrelationBounded, SomeAlertCorrelated, StrayIsOver
<1>6. QED BY <1>1, <1>2, <1>3, <1>4, <1>5 DEF Next

\* The inductive invariant holds of every reachable state.
THEOREM WorkflowIInv == Spec => []IInv
<1>1. Init => IInv
  BY InitIInv
<1>2. IInv /\ [Next]_vars => IInv'
  BY IInvStep
<1>3. QED BY <1>1, <1>2, PTL DEF Spec

\* Every variable of the execution and its row keeps to its type, whatever the alerts,
\* the enrichment sources, the attempts and the timeouts.
THEOREM WorkflowTypeOK == Spec => []TypeOK
<1>1. IInv => TypeOK
  BY DEF IInv
<1>2. QED BY <1>1, WorkflowIInv, PTL

\* Every alert signalled before the correlation ended is handed to the agent, for any
\* number of alerts, debounce and hard cap.
THEOREM WorkflowCorrelationTakesAll == Spec => []CorrelationTakesAll
<1>1. IInv => CorrelationTakesAll
  BY DEF IInv
<1>2. QED BY <1>1, WorkflowIInv, PTL

\* The correlation never waits past its hard cap, whatever the two durations are.
THEOREM WorkflowCorrelationBounded == Spec => []CorrelationBounded
<1>1. IInv => CorrelationBounded
  BY DEF IInv
<1>2. QED BY <1>1, WorkflowIInv, PTL

\* The return of TriageWorkflow for an empty correlation is never taken: the start call
\* delivers an alert, and the first task receives it.
THEOREM WorkflowSomeAlertCorrelated == Spec => []SomeAlertCorrelated
<1>1. IInv => SomeAlertCorrelated
  BY DEF IInv
<1>2. QED BY <1>1, WorkflowIInv, PTL

-----------------------------------------------------------------------------
(* The refinement: each step is one of TriageRuns' steps, an operator's, or      *)
(* changes neither the row nor the phase TriageRuns sees.                        *)

RunOrStutter == Runs!RunStep(1) \/ OperatorStep \/ UNCHANGED <<row, AsRun>>

\* Within the diagnosis AsRun does not change.
LEMMA DiagnosisGoesOn ==
    ASSUME phase \in Diagnosing, phase' \in Diagnosing, UNCHANGED stray
    PROVE  AsRun' = AsRun
BY DEF AsRun, Diagnosing, Correlating, Over

\* An execution that ends; s: an attempt of its store runs on.
LEMMA ClosedIs ==
    ASSUME NEW s, AsRun' = [phase |-> "closed", started |-> 0, stray |-> (stray \/ s)]
    PROVE  <<AsRun'>> = [<<AsRun>> EXCEPT ![1] = Runs!Closed(@, s)]
<1>1. AsRun.stray = stray
  BY Zenon DEF AsRun
<1>2. Runs!Closed(AsRun, s) = AsRun'
  BY <1>1, Zenon DEF Runs!Closed
<1>3. ASSUME NEW x, NEW y, Runs!Closed(x, s) = y
      PROVE  [<<x>> EXCEPT ![1] = Runs!Closed(@, s)] = <<y>>
  BY <1>3
<1>4. QED BY <1>2, <1>3

LEMMA ClosedWithoutStray ==
    ASSUME IInv, UNCHANGED stray, phase' \in Over
    PROVE  <<AsRun'>> = [<<AsRun>> EXCEPT ![1] = Runs!Closed(@, FALSE)]
<1>1. AsRun' = [phase |-> "closed", started |-> 0, stray |-> stray]
  BY DEF AsRun, Diagnosing, Correlating, Over
<1>2. (stray \/ FALSE) = stray
  BY Zenon DEF IInv, TypeOK
<1>3. AsRun' = [phase |-> "closed", started |-> 0, stray |-> (stray \/ FALSE)]
  BY <1>1, <1>2, Zenon
<1>4. QED BY <1>3, ClosedIs, Zenon

LEMMA AnnounceImplements == ASSUME IInv, Announce PROVE RunOrStutter
<1>1. phase \in {"enriching", "triaging"} /\ phase' \in Diagnosing /\ phase \in Diagnosing
      /\ UNCHANGED <<now, stray>>
  BY DEF Announce, AfterAnnounce, Advance, RetryOr, Untouched, Diagnosing, Correlating
<1>2. AsRun' = AsRun /\ AsRun.phase = "diagnosing"
  BY <1>1, DiagnosisGoesOn DEF AsRun
<1>3. <<row'>> = Runs!UpdateIncidentState(<<row>>, 1, phase)
  BY <1>1, AnnounceRow DEF Announce, IInv, TypeOK
<1>4. Runs!AnnouncePhase(1, phase)
  BY <1>1, <1>2, <1>3 DEF Runs!AnnouncePhase
<1>5. QED BY <1>1, <1>4 DEF RunOrStutter, Runs!RunStep

LEMMA AgentImplements == ASSUME IInv, InvokeTriageAgent PROVE RunOrStutter
<1>1. phase = "agent" /\ UNCHANGED <<now, stray, row>> /\ phase' \in {"agent", "storing", "failed"}
  BY DEF InvokeTriageAgent, Advance, RetryOr, Untouched
<1>2. AsRun = [phase |-> "diagnosing", started |-> Started, stray |-> stray]
  BY <1>1 DEF AsRun, Diagnosing, Over
<1>3. CASE phase' = "agent"
  BY <1>1, <1>3, DiagnosisGoesOn DEF RunOrStutter, Diagnosing
<1>4. CASE phase' = "storing"
  <2>1. AsRun' = [phase |-> "storing", started |-> Started, stray |-> stray]
    BY <1>1, <1>4 DEF AsRun, Diagnosing, Correlating, Over, Started
  <2>2. <<AsRun'>> = [<<AsRun>> EXCEPT ![1].phase = "storing"]
    BY <1>2, <2>1
  <2>3. Runs!DiagnosisReady(1)
    BY <1>1, <1>2, <2>2 DEF Runs!DiagnosisReady
  <2>4. QED BY <2>3 DEF RunOrStutter, Runs!RunStep
<1>5. CASE phase' = "failed"
  <2>1. <<AsRun'>> = [<<AsRun>> EXCEPT ![1] = Runs!Closed(@, FALSE)]
    BY <1>1, <1>5, ClosedWithoutStray DEF Over
  <2>2. Runs!DiagnosisFails(1)
    BY <1>1, <1>2, <2>1 DEF Runs!DiagnosisFails
  <2>3. QED BY <2>2 DEF RunOrStutter, Runs!RunStep
<1>6. QED BY <1>1, <1>3, <1>4, <1>5

LEMMA StoreImplements == ASSUME IInv, Store \/ StoreFails PROVE RunOrStutter
<1>1. phase = "storing" /\ UNCHANGED <<now, stray>> /\ phase' \in {"storing", "completed"}
  BY DEF Store, StoreFails, Advance, RetryOr, Untouched
<1>2. AsRun = [phase |-> "storing", started |-> Started, stray |-> stray]
  BY <1>1 DEF AsRun, Diagnosing, Correlating, Over
<1>3. AsRun' = AsRun \/ <<AsRun'>> = [<<AsRun>> EXCEPT ![1] = Runs!Closed(@, FALSE)]
  <2>1. CASE phase' = "storing"
    BY <1>1, <1>2, <2>1 DEF AsRun, Diagnosing, Correlating, Over, Started
  <2>2. CASE phase' = "completed"
    BY <1>1, <2>2, ClosedWithoutStray DEF Over
  <2>3. QED BY <1>1, <2>1, <2>2
<1>4. CASE Store
  <2>1. <<row'>> = Runs!StoreTriageReport(<<row>>, 1, now, 1)
    BY <1>4, StoreRow DEF Store, IInv, TypeOK, Started
  <2>2. Runs!StoreReport(1)
    BY <1>1, <1>2, <1>3, <2>1 DEF Runs!StoreReport
  <2>3. QED BY <2>2 DEF RunOrStutter, Runs!RunStep
<1>5. CASE StoreFails
  <2>1. UNCHANGED row
    BY <1>5 DEF StoreFails
  <2>2. AsRun' = AsRun \/ Runs!StoreGivesUp(1)
    BY <1>1, <1>2, <1>3, <2>1 DEF Runs!StoreGivesUp
  <2>3. QED BY <2>1, <2>2 DEF RunOrStutter, Runs!RunStep
<1>6. QED BY <1>4, <1>5

LEMMA TimeoutImplements == ASSUME IInv, ExecutionTimesOut PROVE RunOrStutter
<1>1. /\ phase \notin Over /\ phase' = "timedOut" /\ UNCHANGED <<now, row>>
      /\ now >= Started + ExecutionTimeout
  BY DEF ExecutionTimesOut, Advance
<1>2. AsRun = [phase |-> AsRun.phase, started |-> Started, stray |-> stray]
  BY <1>1 DEF AsRun
<1>3. AsRun.phase \in {"diagnosing", "storing"}
  BY <1>1 DEF AsRun, IInv, TypeOK
<1>4. AsRun' = [phase |-> "closed", started |-> 0, stray |-> stray']
  BY <1>1 DEF AsRun, Diagnosing, Correlating, Over
<1>5. PICK s \in BOOLEAN : /\ s \in {FALSE, AsRun.phase = "storing"}
                          /\ stray' = (stray \/ s)
  <2>1. stray = FALSE
    BY <1>1, Zenon DEF IInv, TypeOK, StrayIsOver
  <2>2. (AsRun.phase = "storing") = (phase = "storing")
    BY <1>1 DEF AsRun, Diagnosing, Correlating, Over
  <2>3. stray' \in {FALSE, AsRun.phase = "storing"}
    BY <2>2, Zenon DEF ExecutionTimesOut
  <2>4. stray' = (stray \/ stray') /\ stray' \in BOOLEAN
    BY <2>1, <2>3, Zenon
  <2>5. QED BY <2>3, <2>4, Zenon
<1>6. <<AsRun'>> = [<<AsRun>> EXCEPT ![1] = Runs!Closed(@, s)]
  BY <1>4, <1>5, ClosedIs
<1>7. Runs!ExecutionTimesOut(1)
  <2>1. <<AsRun>>[1] = AsRun /\ AsRun.started = Started
    BY <1>2
  <2>2. Runs!Live(1) /\ now >= <<AsRun>>[1].started + ExecutionTimeout
    BY <2>1, <1>1, <1>3 DEF Runs!Live, Runs!LivePhases
  <2>3. \E t \in {FALSE, <<AsRun>>[1].phase = "storing"} :
            <<AsRun'>> = [<<AsRun>> EXCEPT ![1] = Runs!Closed(@, t)]
    BY <2>1, <1>5, <1>6, Zenon
  <2>4. QED BY <2>2, <2>3, <1>1 DEF Runs!ExecutionTimesOut
<1>8. QED BY <1>7 DEF RunOrStutter, Runs!RunStep

LEMMA StrayImplements == ASSUME IInv, StrayStore PROVE RunOrStutter
<1>1. stray /\ stray' = FALSE /\ UNCHANGED <<now, phase>>
  BY DEF StrayStore
<1>2. \A r \in {<<row>>, Runs!StoreTriageReport(<<row>>, 1, now, 1)} : <<r[1]>> = r
  BY StoreRow DEF IInv, TypeOK, Started
<1>3. <<row'>> \in {<<row>>, Runs!StoreTriageReport(<<row>>, 1, now, 1)}
  BY <1>2 DEF StrayStore
<1>4. <<AsRun'>> = [<<AsRun>> EXCEPT ![1].stray = FALSE]
  <2>1. AsRun' = [AsRun EXCEPT !.stray = FALSE]
    <3>1. PICK p, at : /\ AsRun = [phase |-> p, started |-> at, stray |-> stray]
                       /\ AsRun' = [phase |-> p, started |-> at, stray |-> stray']
      BY <1>1 DEF AsRun
    <3>2. AsRun' = [phase |-> p, started |-> at, stray |-> FALSE]
      BY <3>1, <1>1
    <3>3. ASSUME NEW st, NEW v
          PROVE  [[phase |-> p, started |-> at, stray |-> st] EXCEPT !.stray = v] =
                     [phase |-> p, started |-> at, stray |-> v]
      OBVIOUS
    <3>4. QED BY <3>1, <3>2, <3>3, Zenon
  <2>2. ASSUME NEW r, NEW v PROVE [<<r>> EXCEPT ![1].stray = v] = <<[r EXCEPT !.stray = v]>>
    OBVIOUS
  <2>3. [<<AsRun>> EXCEPT ![1].stray = FALSE] = <<[AsRun EXCEPT !.stray = FALSE]>>
    BY <2>2, Zenon
  <2>4. QED BY <2>1, <2>3, Zenon
<1>5. <<AsRun>>[1].stray
  BY <1>1, Zenon DEF AsRun
<1>6. Runs!StrayStore(1)
  BY <1>1, <1>3, <1>4, <1>5 DEF Runs!StrayStore
<1>7. QED BY <1>6 DEF RunOrStutter, Runs!RunStep

LEMMA OtherStepsImplement ==
    ASSUME IInv, IInv',
           \/ FirstTask \/ CorrelationTask \/ AnnounceFails \/ Enriched \/ Tick \/ OperatorActs
           \/ \E a \in Alerts : SignalAlert(a)
           \/ \E s \in Sources : Query(s)
    PROVE  RunOrStutter
<1>1. CASE FirstTask \/ CorrelationTask
  <2>1. phase \in Correlating /\ phase' \in Correlating \cup {"enriching"} /\ UNCHANGED <<stray, row>>
    BY <1>1 DEF FirstTask, CorrelationTask, Drain, Wait, EndCorrelation, Advance, Correlating,
                IInv, SomeAlertCorrelated
  <2>2. QED BY <2>1, DiagnosisGoesOn DEF RunOrStutter, Diagnosing
<1>2. CASE AnnounceFails \/ Enriched \/ \E s \in Sources : Query(s)
  <2>1. phase \in Diagnosing /\ phase' \in Diagnosing /\ UNCHANGED <<stray, row>>
    BY <1>2 DEF AnnounceFails, Enriched, Query, RetryOr, Advance, AfterAnnounce, Untouched,
                Diagnosing
  <2>2. QED BY <2>1, DiagnosisGoesOn DEF RunOrStutter
<1>3. CASE Tick \/ OperatorActs \/ \E a \in Alerts : SignalAlert(a)
  <2>1. UNCHANGED <<phase, stray>>
    BY <1>3 DEF Tick, OperatorActs, SignalAlert
  <2>2. AsRun' = AsRun
    BY <2>1 DEF AsRun
  <2>3. UNCHANGED row \/ OperatorActs
    BY <1>3 DEF Tick, SignalAlert
  <2>4. QED BY <2>2, <2>3 DEF RunOrStutter, OperatorStep
<1>4. QED BY <1>1, <1>2, <1>3

\* For any limits: an execution does to its row, and with the phases the rest of the
\* system sees, only what TriageRuns lets the executions of an identity do.
THEOREM WorkflowImplementsRun == Spec => ImplementsRun
<1>1. IInv /\ IInv' /\ [Next]_vars => [Runs!RunStep(1) \/ OperatorStep]_<<row, AsRun>>
  <2> SUFFICES ASSUME IInv, IInv', [Next]_vars PROVE RunOrStutter
    BY DEF RunOrStutter
  <2>1. CASE UNCHANGED vars
    BY <2>1 DEF vars, RunOrStutter, AsRun
  <2>2. CASE Announce
    BY <2>2, AnnounceImplements
  <2>3. CASE InvokeTriageAgent
    BY <2>3, AgentImplements
  <2>4. CASE Store \/ StoreFails
    BY <2>4, StoreImplements
  <2>5. CASE ExecutionTimesOut
    BY <2>5, TimeoutImplements
  <2>6. CASE StrayStore
    BY <2>6, StrayImplements
  <2>7. CASE \/ FirstTask \/ CorrelationTask \/ AnnounceFails \/ Enriched \/ Tick \/ OperatorActs
             \/ \E a \in Alerts : SignalAlert(a)
             \/ \E s \in Sources : Query(s)
    BY <2>7, OtherStepsImplement
  <2>8. QED BY <2>1, <2>2, <2>3, <2>4, <2>5, <2>6, <2>7 DEF Next
<1>2. QED BY <1>1, WorkflowIInv, PTL DEF Spec, ImplementsRun
=============================================================================
