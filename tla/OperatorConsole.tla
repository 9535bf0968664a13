-------------------------- MODULE OperatorConsole --------------------------
(***************************************************************************)
(* The actions of the incident page: acknowledge, escalate, resolve and    *)
(* add a note.  Each writes one statement and then, in another statement,  *)
(* reads the incident again for its answer, while other operators, the     *)
(* webhook and the triage workflow change the row.  Of these two, the      *)
(* module has what they write to the one row.                              *)
(***************************************************************************)
EXTENDS Integers, FiniteSets

CONSTANTS
    Operators,
    NoOne,      \* NULL in a column that names an operator
    Webhook,    \* a resolve that came from Alertmanager
    MaxLost     \* bound: notes committed by a request that fails

ASSUME ConsoleAssumption ==
    /\ NoOne \notin Operators /\ Webhook \notin Operators \cup {NoOne}
    /\ MaxLost \in Nat

VARIABLES
    row,        \* the incident's columns that the actions write
    started,    \* the incident's workflow was started
    notes,      \* how many of each operator's notes incident_notes has
    request,    \* the actions that ran their statement and have not answered
    noteAnswer, \* the last answer to each operator's note
    toldResolved, \* operators who were told "Incident resolved"
    claims,     \* operators whose acknowledge took effect since the last stored report
    lost        \* notes committed by a request that failed

vars == <<row, started, notes, request, noteAnswer, toldResolved, claims, lost>>

OpenStates == {"processing", "reported", "acknowledged"}

Row == [state : OpenStates \cup {"absent", "resolved"},
        assignedTo : Operators \cup {NoOne}, escalatedBy : Operators \cup {NoOne},
        resolvedBy : Operators \cup {NoOne, Webhook}]

Kinds    == {"acknowledge", "escalate", "resolve", "note"}
Effects  == {"done", "nothing"}
Idle     == [kind |-> "none", effect |-> "nothing"]

TypeOK ==
    /\ row \in Row
    /\ started \in BOOLEAN
    /\ notes \in [Operators -> Nat]
    /\ request \in [Operators -> [kind : Kinds, effect : Effects] \cup {Idle}]
    /\ noteAnswer \in [Operators -> {"none", "saved", "failed"}]
    /\ toldResolved \subseteq Operators /\ claims \subseteq Operators
    /\ lost \in 0..MaxLost

-----------------------------------------------------------------------------
(* What the webhook and the workflow do to the row.                         *)

Mint ==
    /\ row.state = "absent"
    /\ row' = [row EXCEPT !.state = "processing"]
    /\ UNCHANGED <<started, notes, request, noteAnswer, toldResolved, claims, lost>>

StartWorkflow ==
    /\ row.state # "absent" /\ ~started
    /\ started' = TRUE
    /\ UNCHANGED <<row, notes, request, noteAnswer, toldResolved, claims, lost>>

StoreTriageReport_NoGuard ==
    /\ started
    /\ row' = [row EXCEPT !.state = "reported"]
    /\ claims' = {}
    /\ UNCHANGED <<started, notes, request, noteAnswer, toldResolved, lost>>

\* An acknowledged row is reported again, and keeps its assignee.
StoreTriageReport ==
    /\ started /\ row.state # "resolved"
    /\ row' = [row EXCEPT !.state = "reported"]
    /\ claims' = {}
    /\ UNCHANGED <<started, notes, request, noteAnswer, toldResolved, lost>>

WebhookResolves ==
    /\ row.state \in OpenStates
    /\ row' = [row EXCEPT !.state = "resolved", !.resolvedBy = Webhook]
    /\ UNCHANGED <<started, notes, request, noteAnswer, toldResolved, claims, lost>>

-----------------------------------------------------------------------------
(* The statements: what the UPDATE leaves in the row, and whether its WHERE   *)
(* clause lets it.                                                          *)

CanAcknowledge_UnlessResolved == row.state # "resolved"

CanAcknowledge == row.state \in {"processing", "reported"}

Acknowledged(o) == [row EXCEPT !.state = "acknowledged", !.assignedTo = o]

CanEscalate_Always == TRUE

CanEscalate == row.state \in {"processing", "reported", "acknowledged"}

\* Escalation does not change the state.
Escalated(o) == [row EXCEPT !.escalatedBy = o]

CanResolve == row.state # "resolved"

Resolved(o) == [row EXCEPT !.state = "resolved", !.resolvedBy = o]

-----------------------------------------------------------------------------
(* The handlers, up to their first statement.                               *)

\* The operator has the incident on a page, and no other action under way.
Acts(o) == row.state # "absent" /\ request[o] = Idle

Runs(o, kind, effect) == request' = [request EXCEPT ![o] = [kind |-> kind, effect |-> effect]]

HandleAcknowledge(o) ==
    /\ Acts(o)
    /\ \/ CanAcknowledge /\ row' = Acknowledged(o) /\ claims' = claims \cup {o}
          /\ Runs(o, "acknowledge", "done")
       \/ ~CanAcknowledge /\ Runs(o, "acknowledge", "nothing") /\ UNCHANGED <<row, claims>>
    /\ UNCHANGED <<started, notes, noteAnswer, toldResolved, lost>>

HandleEscalate(o) ==
    /\ Acts(o)
    /\ \/ CanEscalate /\ row' = Escalated(o) /\ Runs(o, "escalate", "done")
       \/ ~CanEscalate /\ Runs(o, "escalate", "nothing") /\ UNCHANGED row
    /\ UNCHANGED <<started, notes, noteAnswer, toldResolved, claims, lost>>

HandleResolve(o) ==
    /\ Acts(o)
    /\ \/ CanResolve /\ row' = Resolved(o) /\ Runs(o, "resolve", "done")
       \/ ~CanResolve /\ Runs(o, "resolve", "nothing") /\ UNCHANGED row
    /\ UNCHANGED <<started, notes, noteAnswer, toldResolved, claims, lost>>

\* Each operator has one note to add, and sends it again only when told it failed.
HandleNotes(o) ==
    /\ Acts(o) /\ noteAnswer[o] # "saved"
    /\ notes' = [notes EXCEPT ![o] = @ + 1]
    /\ Runs(o, "note", "done")
    /\ UNCHANGED <<row, started, noteAnswer, toldResolved, claims, lost>>

\* The statement returns an error; it may have committed all the same.
UpdateFails(o) ==
    /\ Acts(o)
    /\ \/ UNCHANGED row
       \/ CanAcknowledge /\ row' = Acknowledged(o)
       \/ CanEscalate /\ row' = Escalated(o)
       \/ CanResolve /\ row' = Resolved(o)
    /\ UNCHANGED <<started, notes, request, noteAnswer, toldResolved, claims, lost>>

InsertFails(o) ==
    /\ Acts(o) /\ noteAnswer[o] # "saved"
    /\ noteAnswer' = [noteAnswer EXCEPT ![o] = "failed"]
    /\ \/ lost < MaxLost /\ lost' = lost + 1 /\ notes' = [notes EXCEPT ![o] = @ + 1]
       \/ UNCHANGED <<lost, notes>>
    /\ UNCHANGED <<row, started, request, toldResolved, claims>>

-----------------------------------------------------------------------------
(* The answers.                                                             *)

Answers(o, kind) ==
    /\ request[o].kind = kind
    /\ request' = [request EXCEPT ![o] = Idle]
    /\ UNCHANGED <<row, started, notes, claims, lost>>

\* respondActionBar after an acknowledge or an escalate that took effect, hxStateConflict
\* after one that did not: the bar as it is by now, or a toast when it cannot be read.
RespondActionBar(o) ==
    /\ \E kind \in {"acknowledge", "escalate"} : Answers(o, kind)
    /\ UNCHANGED <<noteAnswer, toldResolved>>

\* An incident that someone else resolved is reported as resolved, too.
RespondResolved(o) ==
    /\ Answers(o, "resolve")
    /\ toldResolved' \in {toldResolved \cup {o}, toldResolved}
    /\ UNCHANGED noteAnswer

RespondNotes_FailsWithRead(o) ==
    /\ Answers(o, "note")
    /\ \E answer \in {"saved", "failed"} : noteAnswer' = [noteAnswer EXCEPT ![o] = answer]
    /\ UNCHANGED toldResolved

\* The note counts as saved, whether or not the panel can be rendered.
RespondNotes(o) ==
    /\ Answers(o, "note")
    /\ noteAnswer' = [noteAnswer EXCEPT ![o] = "saved"]
    /\ UNCHANGED toldResolved

-----------------------------------------------------------------------------
Init ==
    /\ row = [state |-> "absent", assignedTo |-> NoOne, escalatedBy |-> NoOne,
              resolvedBy |-> NoOne]
    /\ started = FALSE
    /\ notes = [o \in Operators |-> 0]
    /\ request = [o \in Operators |-> Idle]
    /\ noteAnswer = [o \in Operators |-> "none"]
    /\ toldResolved = {} /\ claims = {} /\ lost = 0

Next ==
    \/ Mint \/ StartWorkflow \/ StoreTriageReport \/ WebhookResolves
    \/ \E o \in Operators :
          \/ HandleAcknowledge(o) \/ HandleEscalate(o) \/ HandleResolve(o) \/ HandleNotes(o)
          \/ UpdateFails(o) \/ InsertFails(o)
          \/ RespondActionBar(o) \/ RespondResolved(o) \/ RespondNotes(o)

Spec == Init /\ [][Next]_vars

-----------------------------------------------------------------------------
\* Of the operators who acknowledged since the last stored report there is one at most,
\* and the incident is assigned to that one, however the incident went on.
OneTakesIt == claims \subseteq {row.assignedTo}

\* Who resolved an incident first, who had it and where it was escalated to stay on
\* record: no operator, webhook or late report changes a resolved row.
ResolvedRowFrozen == [][row.state = "resolved" => row' = row]_vars

\* Whoever was told that the incident is resolved, also by somebody else, can rely on it.
ToldResolvedIsResolved == toldResolved # {} => row.state = "resolved"

\* An operator who repeats what failed has the note twice only when a failed request
\* had committed it; a panel that cannot be rendered is no such failure.
NotesOnce == \A o \in Operators : notes[o] <= 1 + lost

\* The page's actions are steps of the lifecycle that IncidentLedger allows, or none.
Ledger == INSTANCE IncidentLedger WITH
    MaxAttempt <- 1,
    status     <- <<row.state>>,
    started    <- IF started THEN {1} ELSE {}

ImplementsLedger == Ledger!LedgerSpec
=============================================================================
