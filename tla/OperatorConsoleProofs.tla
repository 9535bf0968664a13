----------------------- MODULE OperatorConsoleProofs -----------------------
(***************************************************************************)
(* The properties of OperatorConsole for any number of operators.          *)
(***************************************************************************)
EXTENDS OperatorConsole, TLAPS

(***************************************************************************)
(* The strengthening.  Whoever acknowledged since the last stored report   *)
(* has it acknowledged still, or it is resolved; a resolve that waits for  *)
(* its answer has found or made the row resolved; an operator's note is    *)
(* there once for his request that succeeded, and once for each that lost  *)
(* its answer.                                                             *)
(***************************************************************************)
ClaimsHold     == claims # {} => row.state \in {"acknowledged", "resolved"}
ResolvesHold   == \A o \in Operators : request[o].kind = "resolve" => row.state = "resolved"
Settled(o)     == noteAnswer[o] = "saved" \/ request[o].kind = "note"
NotesCounted   == \A o \in Operators : notes[o] <= (IF Settled(o) THEN 1 ELSE 0) + lost

StartedHasRow  == started => row.state # "absent"

IInv ==
    /\ TypeOK
    /\ StartedHasRow
    /\ OneTakesIt /\ ClaimsHold
    /\ ToldResolvedIsResolved /\ ResolvesHold
    /\ NotesCounted

USE DEF OpenStates, Kinds, Effects, Idle

\* What each statement leaves in a row: a row, its state and its assignee.
LEMMA Statements ==
    ASSUME row \in Row, NEW o \in Operators
    PROVE  /\ Acknowledged(o) \in Row /\ Escalated(o) \in Row /\ Resolved(o) \in Row
           /\ Acknowledged(o).state = "acknowledged" /\ Acknowledged(o).assignedTo = o
           /\ Escalated(o).state = row.state /\ Escalated(o).assignedTo = row.assignedTo
           /\ Resolved(o).state = "resolved" /\ Resolved(o).assignedTo = row.assignedTo
  BY DEF Row, Acknowledged, Escalated, Resolved

\* What the webhook and the workflow leave in it.
LEMMA Surroundings ==
    ASSUME row \in Row, Mint \/ StoreTriageReport \/ WebhookResolves
    PROVE  /\ row' \in Row /\ row'.assignedTo = row.assignedTo
           /\ row.state # "resolved" /\ row'.state # "absent" /\ started' = started
           /\ \/ row'.state = "reported" /\ claims' = {}
              \/ row'.state = "resolved" /\ claims' = claims
              \/ row.state = "absent" /\ claims' = claims
           /\ UNCHANGED <<notes, request, noteAnswer, toldResolved, lost>>
<1>1. CASE Mint
  BY <1>1 DEF Row, Mint
<1>2. CASE StoreTriageReport
  BY <1>2 DEF Row, StoreTriageReport
<1>3. CASE WebhookResolves
  BY <1>3 DEF Row, WebhookResolves
<1>4. QED BY <1>1, <1>2, <1>3

\* IInv holds before the incident exists.
LEMMA InitIInv == ASSUME Init PROVE IInv
<1> USE ConsoleAssumption DEF Init
<1>1. TypeOK
  <2>1. row \in Row BY DEF Row
  <2>2. notes \in [Operators -> Nat] OBVIOUS
  <2>3. request \in [Operators -> [kind : Kinds, effect : Effects] \cup {Idle}] OBVIOUS
  <2>4. noteAnswer \in [Operators -> {"none", "saved", "failed"}] OBVIOUS
  <2>5. lost \in 0..MaxLost OBVIOUS
  <2>6. QED BY <2>1, <2>2, <2>3, <2>4, <2>5 DEF TypeOK
<1>2. OneTakesIt /\ ClaimsHold /\ ToldResolvedIsResolved
  BY DEF OneTakesIt, ClaimsHold, ToldResolvedIsResolved
<1>3. ResolvesHold /\ NotesCounted
  BY DEF ResolvesHold, NotesCounted, Settled
<1>4. StartedHasRow
  BY DEF StartedHasRow
<1>5. QED BY <1>1, <1>2, <1>3, <1>4 DEF IInv

\* Every step keeps the types.
LEMMA TypeStep == ASSUME TypeOK, [Next]_vars PROVE TypeOK'
<1> USE ConsoleAssumption
<1>1. CASE Mint \/ StoreTriageReport \/ WebhookResolves
  BY <1>1, Surroundings DEF TypeOK, Mint, StoreTriageReport, WebhookResolves
<1>0. CASE StartWorkflow
  BY <1>0 DEF TypeOK, StartWorkflow
<1>2. ASSUME NEW o \in Operators, HandleAcknowledge(o) \/ HandleEscalate(o) \/ HandleResolve(o)
      PROVE  TypeOK'
  <2>1. row' \in {row, Acknowledged(o), Escalated(o), Resolved(o)}
    BY <1>2 DEF HandleAcknowledge, HandleEscalate, HandleResolve
  <2>2. row' \in Row
    BY <2>1, Statements DEF TypeOK
  <2>3. claims' \subseteq Operators
    BY <1>2 DEF TypeOK, HandleAcknowledge, HandleEscalate, HandleResolve
  <2>4. \E kind \in Kinds, effect \in Effects : Runs(o, kind, effect)
    BY <1>2 DEF HandleAcknowledge, HandleEscalate, HandleResolve
  <2>5. request' \in [Operators -> [kind : Kinds, effect : Effects] \cup {Idle}]
    BY <2>4 DEF TypeOK, Runs
  <2>6. UNCHANGED <<started, notes, noteAnswer, toldResolved, lost>>
    BY <1>2 DEF HandleAcknowledge, HandleEscalate, HandleResolve
  <2>7. QED BY <2>2, <2>3, <2>5, <2>6 DEF TypeOK
<1>3. ASSUME NEW o \in Operators, HandleNotes(o) PROVE TypeOK'
  BY <1>3 DEF TypeOK, HandleNotes, Runs
<1>4. ASSUME NEW o \in Operators, UpdateFails(o) PROVE TypeOK'
  <2>1. row' \in {row, Acknowledged(o), Escalated(o), Resolved(o)}
    BY <1>4 DEF UpdateFails
  <2>2. QED BY <1>4, <2>1, Statements DEF TypeOK, UpdateFails
<1>5. ASSUME NEW o \in Operators, InsertFails(o) PROVE TypeOK'
  BY <1>5 DEF TypeOK, InsertFails
<1>6. ASSUME NEW o \in Operators, RespondActionBar(o) \/ RespondResolved(o) \/ RespondNotes(o)
      PROVE  TypeOK'
  BY <1>6 DEF TypeOK, RespondActionBar, RespondResolved, RespondNotes, Answers
<1>7. CASE UNCHANGED vars
  BY <1>7 DEF TypeOK, vars
<1>8. QED BY <1>0, <1>1, <1>2, <1>3, <1>4, <1>5, <1>6, <1>7 DEF Next

\* Every step keeps the strengthened invariant.
LEMMA IInvStep == ASSUME IInv, [Next]_vars PROVE IInv'
<1> USE ConsoleAssumption DEF IInv
<1>1. TypeOK'
  BY TypeStep
<1>2. (OneTakesIt /\ ClaimsHold)'
  <2> USE DEF OneTakesIt, ClaimsHold, TypeOK
  <2>1. CASE Mint \/ StoreTriageReport \/ WebhookResolves
    BY <2>1, Surroundings
  <2>2. ASSUME NEW o \in Operators, HandleAcknowledge(o) PROVE (OneTakesIt /\ ClaimsHold)'
    BY <2>2, Statements DEF HandleAcknowledge, CanAcknowledge
  <2>3. ASSUME NEW o \in Operators, HandleEscalate(o) \/ HandleResolve(o)
        PROVE  (OneTakesIt /\ ClaimsHold)'
    BY <2>3, Statements DEF HandleEscalate, HandleResolve
  <2>4. ASSUME NEW o \in Operators, UpdateFails(o) PROVE (OneTakesIt /\ ClaimsHold)'
    <3>1. /\ claims' = claims
          /\ \/ row' \in {row, Escalated(o), Resolved(o)}
             \/ CanAcknowledge /\ row' = Acknowledged(o)
      BY <2>4 DEF UpdateFails
    <3>2. QED BY <3>1, Statements DEF CanAcknowledge
  <2>5. CASE UNCHANGED <<row, claims>>
    BY <2>5
  <2>6. QED BY <2>1, <2>2, <2>3, <2>4, <2>5
    DEF Next, vars, StartWorkflow, HandleNotes, InsertFails, RespondActionBar, RespondResolved, RespondNotes, Answers
<1>3. (ToldResolvedIsResolved /\ ResolvesHold)'
  <2> USE DEF ToldResolvedIsResolved, ResolvesHold, TypeOK
  <2>1. CASE Mint \/ StoreTriageReport \/ WebhookResolves
    BY <2>1, Surroundings
  <2>2. ASSUME NEW o \in Operators, HandleAcknowledge(o) \/ HandleEscalate(o) \/ HandleResolve(o)
        PROVE  (ToldResolvedIsResolved /\ ResolvesHold)'
    BY <2>2, Statements DEF HandleAcknowledge, HandleEscalate, HandleResolve, Runs,
       CanAcknowledge, CanResolve
  <2>3. ASSUME NEW o \in Operators, UpdateFails(o)
        PROVE  (ToldResolvedIsResolved /\ ResolvesHold)'
    <3>1. /\ UNCHANGED <<request, toldResolved>>
          /\ \/ row' \in {row, Escalated(o), Resolved(o)}
             \/ CanAcknowledge /\ row' = Acknowledged(o)
      BY <2>3 DEF UpdateFails
    <3>2. QED BY <3>1, Statements DEF CanAcknowledge
  <2>4. ASSUME NEW o \in Operators, HandleNotes(o) \/ InsertFails(o)
        PROVE  (ToldResolvedIsResolved /\ ResolvesHold)'
    BY <2>4 DEF HandleNotes, InsertFails, Runs
  <2>5. ASSUME NEW o \in Operators, RespondActionBar(o) \/ RespondResolved(o) \/ RespondNotes(o)
        PROVE  (ToldResolvedIsResolved /\ ResolvesHold)'
    BY <2>5 DEF RespondActionBar, RespondResolved, RespondNotes, Answers
  <2>6. CASE UNCHANGED <<row, request, toldResolved>>
    BY <2>6
  <2>7. QED BY <2>1, <2>2, <2>3, <2>4, <2>5, <2>6 DEF Next, vars, StartWorkflow
<1>4. NotesCounted'
  <2> USE DEF NotesCounted, Settled, TypeOK
  <2>1. ASSUME NEW o \in Operators, HandleNotes(o) PROVE NotesCounted'
    BY <2>1 DEF HandleNotes, Acts, Runs
  <2>2. ASSUME NEW o \in Operators, InsertFails(o) PROVE NotesCounted'
    BY <2>2 DEF InsertFails, Acts
  <2>3. ASSUME NEW o \in Operators, HandleAcknowledge(o) \/ HandleEscalate(o) \/ HandleResolve(o)
        PROVE  NotesCounted'
    BY <2>3 DEF HandleAcknowledge, HandleEscalate, HandleResolve, Acts, Runs
  <2>4. ASSUME NEW o \in Operators, RespondActionBar(o) \/ RespondResolved(o) \/ RespondNotes(o)
        PROVE  NotesCounted'
    BY <2>4 DEF RespondActionBar, RespondResolved, RespondNotes, Answers
  <2>5. CASE UNCHANGED <<notes, noteAnswer, request, lost>>
    BY <2>5
  <2>6. QED BY <2>1, <2>2, <2>3, <2>4, <2>5
    DEF Next, vars, Mint, StartWorkflow, StoreTriageReport, WebhookResolves, UpdateFails
<1>5. StartedHasRow'
  <2> USE DEF StartedHasRow, TypeOK
  <2>1. CASE Mint \/ StoreTriageReport \/ WebhookResolves
    BY <2>1, Surroundings
  <2>2. CASE StartWorkflow
    BY <2>2 DEF StartWorkflow
  <2>3. ASSUME NEW o \in Operators,
               HandleAcknowledge(o) \/ HandleEscalate(o) \/ HandleResolve(o) \/ UpdateFails(o)
        PROVE  StartedHasRow'
    <3>1. row' \in {row, Acknowledged(o), Escalated(o), Resolved(o)} /\ row.state # "absent"
      BY <2>3 DEF HandleAcknowledge, HandleEscalate, HandleResolve, UpdateFails, Acts
    <3>2. QED BY <3>1, Statements
  <2>4. CASE UNCHANGED <<row, started>>
    BY <2>4
  <2>5. QED BY <2>1, <2>2, <2>3, <2>4
    DEF Next, vars, HandleNotes, InsertFails, RespondActionBar, RespondResolved, RespondNotes, Answers
<1>6. QED BY <1>1, <1>2, <1>3, <1>4, <1>5

\* IInv holds in every reachable state.
THEOREM ConsoleIInv == Spec => []IInv
<1>1. Init => IInv BY InitIInv
<1>2. IInv /\ [Next]_vars => IInv' BY IInvStep
<1>3. QED BY <1>1, <1>2, PTL DEF Spec

\* The console's variables keep their types.
THEOREM ConsoleTypeOK == Spec => []TypeOK
<1>1. IInv => TypeOK BY DEF IInv
<1>2. QED BY <1>1, ConsoleIInv, PTL

\* Operators who press Acknowledge at the same time: one of them takes the incident.
THEOREM ConsoleOneTakesIt == Spec => []OneTakesIt
<1>1. IInv => OneTakesIt BY DEF IInv
<1>2. QED BY <1>1, ConsoleIInv, PTL

\* The answer "Incident resolved" stays true.
THEOREM ConsoleToldResolved == Spec => []ToldResolvedIsResolved
<1>1. IInv => ToldResolvedIsResolved BY DEF IInv
<1>2. QED BY <1>1, ConsoleIInv, PTL

\* Repeating a note makes it twice only after a request that failed and committed.
THEOREM ConsoleNotesOnce == Spec => []NotesOnce
<1>1. IInv => NotesOnce
  BY ConsoleAssumption DEF IInv, NotesOnce, NotesCounted, TypeOK
<1>2. QED BY <1>1, ConsoleIInv, PTL

-----------------------------------------------------------------------------
\* A resolved row changes in no step: every statement's WHERE clause excludes it.
LEMMA FrozenStep ==
    ASSUME row \in Row, [Next]_vars, row.state = "resolved"
    PROVE  row' = row
<1>1. CASE Mint \/ StoreTriageReport \/ WebhookResolves
  BY <1>1, Surroundings
<1>2. ASSUME NEW o \in Operators,
             HandleAcknowledge(o) \/ HandleEscalate(o) \/ HandleResolve(o) \/ UpdateFails(o)
      PROVE  row' = row
  BY <1>2 DEF HandleAcknowledge, HandleEscalate, HandleResolve, UpdateFails,
     CanAcknowledge, CanEscalate, CanResolve
<1>3. CASE UNCHANGED row
  BY <1>3
<1>4. QED BY <1>1, <1>2, <1>3
  DEF Next, vars, StartWorkflow, HandleNotes, InsertFails, RespondActionBar, RespondResolved,
      RespondNotes, Answers

\* The record of a resolved incident is final.
THEOREM ConsoleResolvedFrozen == Spec => ResolvedRowFrozen
<1>1. TypeOK /\ [Next]_vars => [row.state = "resolved" => row' = row]_vars
  BY FrozenStep DEF TypeOK
<1>2. QED BY <1>1, ConsoleTypeOK, PTL DEF Spec, ResolvedRowFrozen

\* A step that changes the row's state is an opening, a report, an acknowledge or a
\* resolve of the ledger's one attempt.
LEMMA LedgerStep ==
    ASSUME TypeOK, StartedHasRow, [Next]_vars
    PROVE  [Ledger!LedgerNext]_(Ledger!ledgerVars)
<1> DEFINE
      status == <<row.state>>
      ran    == IF started THEN {1} ELSE {}
<1> USE DEF Ledger!Numbers, Ledger!OpenStates
<1>0. /\ 1..1 = {1} /\ 1..0 = {}
      /\ status[1] = row.state /\ status'[1] = row'.state
  OBVIOUS
<1>1. CASE row'.state = row.state /\ started' = started
  BY <1>1 DEF Ledger!ledgerVars
<1>2. CASE Mint
  <2>1. row.state = "absent" /\ row'.state = "processing" /\ started' = started
    BY <1>2 DEF Mint, TypeOK, Row
  <2>2. Ledger!Open(1)
    BY <2>1, <1>0 DEF Ledger!Open
  <2>3. QED BY <2>2, <1>0 DEF Ledger!LedgerNext
<1>3. CASE StartWorkflow
  <2>1. Ledger!Start(1)
    BY <1>3 DEF StartWorkflow, Ledger!Start
  <2>2. QED BY <2>1, <1>0 DEF Ledger!LedgerNext
<1>4. CASE StoreTriageReport
  <2>1. started /\ row.state \in OpenStates /\ row'.state = "reported" /\ started' = started
    BY <1>4 DEF StoreTriageReport, StartedHasRow, TypeOK, Row
  <2>2. Ledger!Report(1)
    BY <2>1, <1>0 DEF Ledger!Report
  <2>3. QED BY <2>2, <1>0 DEF Ledger!LedgerNext
<1>5. ASSUME row.state \in {"processing", "reported"}, row'.state = "acknowledged",
             started' = started
      PROVE  Ledger!LedgerNext
  <2>1. Ledger!Acknowledge(1)
    BY <1>5, <1>0 DEF Ledger!Acknowledge
  <2>2. QED BY <2>1, <1>0 DEF Ledger!LedgerNext
<1>6. ASSUME row.state \in OpenStates, row'.state = "resolved", started' = started
      PROVE  Ledger!LedgerNext
  <2>1. Ledger!Resolve({1})
    BY <1>6, <1>0 DEF Ledger!Resolve
  <2>2. {1} \in SUBSET (1..1)
    BY <1>0
  <2>3. QED BY <2>1, <2>2 DEF Ledger!LedgerNext
<1>7. CASE WebhookResolves
  BY <1>7, <1>6 DEF WebhookResolves, TypeOK, Row
<1>8. ASSUME NEW o \in Operators,
             HandleAcknowledge(o) \/ HandleEscalate(o) \/ HandleResolve(o) \/ UpdateFails(o)
      PROVE  Ledger!LedgerNext \/ (row'.state = row.state /\ started' = started)
  <2>1. /\ row.state # "absent" /\ started' = started
        /\ \/ row' = row \/ row' = Escalated(o)
           \/ CanAcknowledge /\ row' = Acknowledged(o)
           \/ CanResolve /\ row' = Resolved(o)
    BY <1>8 DEF HandleAcknowledge, HandleEscalate, HandleResolve, UpdateFails, Acts
  <2>2. CASE row' = row \/ row' = Escalated(o)
    BY <2>1, <2>2, Statements DEF TypeOK
  <2>3. CASE CanAcknowledge /\ row' = Acknowledged(o)
    BY <2>1, <2>3, <1>5, Statements DEF TypeOK, CanAcknowledge
  <2>4. CASE CanResolve /\ row' = Resolved(o)
    <3>1. row.state \in OpenStates
      BY <2>1, <2>4 DEF CanResolve, TypeOK, Row
    <3>2. QED BY <2>1, <2>4, <3>1, <1>6, Statements DEF TypeOK
  <2>5. QED BY <2>1, <2>2, <2>3, <2>4
<1>9. CASE UNCHANGED <<row, started>>
  BY <1>9, <1>1
<1>10. QED BY <1>1, <1>2, <1>3, <1>4, <1>7, <1>8, <1>9
  DEF Next, vars, HandleNotes, InsertFails, RespondActionBar, RespondResolved, RespondNotes, Answers

\* The page's actions, whatever they race with, keep to the lifecycle.
THEOREM ConsoleImplementsLedger == Spec => ImplementsLedger
<1>1. Init => Ledger!LedgerInit
  <2>1. 1..1 = {1}
    OBVIOUS
  <2>2. QED BY <2>1 DEF Init, Ledger!LedgerInit, Ledger!Numbers
<1>2. IInv /\ [Next]_vars => [Ledger!LedgerNext]_(Ledger!ledgerVars)
  BY LedgerStep DEF IInv
<1>3. QED BY <1>1, <1>2, ConsoleIInv, PTL DEF Spec, ImplementsLedger, Ledger!LedgerSpec
=============================================================================
