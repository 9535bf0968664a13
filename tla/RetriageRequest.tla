-------------------------- MODULE RetriageRequest --------------------------
(***************************************************************************)
(* An operator's re-triage: handleRetriage checks the incident and the cap *)
(* on active versions, RetriageStarter reserves the first free attempt     *)
(* number above the incident's and starts a workflow for it.  No           *)
(* transaction and no stem lock spans these statements.                    *)
(***************************************************************************)
EXTENDS IncidentState

OpAt(o, pc) == op[o].pc = pc

ReadIncident_SkipsOne(o, n) ==
    /\ OpAt(o, "idle")
    /\ stamp < MaxStamp
    /\ rows[n].state \in States \ {"processing"}
    /\ op' = [op EXCEPT ![o] = [pc |-> "cap", at |-> now, from |-> n, next |-> n + 2]]
    /\ UNCHANGED <<now, stamp, rows, lock, hook, runs, enabled>>

\* SELECT ... state FROM triage.reports WHERE id = $1.  A processing incident is
\* refused, which leaves no trace.
ReadIncident(o, n) ==
    /\ OpAt(o, "idle")
    /\ stamp < MaxStamp
    /\ rows[n].state \in States \ {"processing"}
    /\ op' = [op EXCEPT ![o] = [pc |-> "cap", at |-> now, from |-> n, next |-> n + 1]]
    /\ UNCHANGED <<now, stamp, rows, lock, hook, runs, enabled>>

\* SELECT COUNT(*) ... state != 'resolved', then 429 at MaxActive.
CheckCap(o) ==
    /\ OpAt(o, "cap")
    /\ op' = [op EXCEPT ![o] =
                IF Cardinality(Unresolved(rows)) >= MaxActive
                THEN IdleOp ELSE [@ EXCEPT !.pc = "probe"]]
    /\ UNCHANGED <<now, stamp, rows, lock, hook, runs, enabled>>

\* One round of allocateAttemptID: an auto-committed INSERT ... ON CONFLICT DO
\* NOTHING.  (next \in Attempts is the bound MaxAttempt.)
Reserve(o) ==
    /\ OpAt(o, "probe")
    /\ op[o].next <= op[o].from + MaxAttemptProbe
    /\ op[o].next \in Attempts
    /\ rows[op[o].next].state = "absent"
    /\ stamp' = stamp + 1
    /\ rows' = InsertProcessing(rows, op[o].next, now, stamp + 1)
    /\ op' = [op EXCEPT ![o].pc = "start"]
    /\ UNCHANGED <<now, lock, hook, runs, enabled>>

ProbeNext(o) ==
    /\ OpAt(o, "probe")
    /\ op[o].next <= op[o].from + MaxAttemptProbe
    /\ op[o].next \in Attempts
    /\ rows[op[o].next].state # "absent"
    /\ op' = [op EXCEPT ![o].next = @ + 1]
    /\ UNCHANGED <<now, stamp, rows, lock, hook, runs, enabled>>

StartRetriage(o) ==
    /\ OpAt(o, "start")
    /\ runs' = SignalWithStart(runs, op[o].next, now)
    /\ op' = [op EXCEPT ![o] = IdleOp]
    /\ UNCHANGED <<now, stamp, rows, lock, hook, enabled>>

\* No free attempt number within the probe limit, or any call fails; a row already
\* reserved stays behind.
RetriageFails(o) ==
    /\ ~OpAt(o, "idle")
    /\ op' = [op EXCEPT ![o] = IdleOp]
    /\ UNCHANGED <<now, stamp, rows, lock, hook, runs, enabled>>

HandleRetriage(o) ==
    \/ \E n \in Attempts : ReadIncident(o, n)
    \/ CheckCap(o)
    \/ Reserve(o)
    \/ ProbeNext(o)
    \/ StartRetriage(o)
    \/ RetriageFails(o)
=============================================================================
