--------------------------- MODULE IncidentLedger ---------------------------
(***************************************************************************)
(* What the incident lifecycle promises, without locks, requests, clocks   *)
(* or retries: the attempts of one identity are opened in number order,    *)
(* a diagnosis is reported only for an attempt whose workflow was started, *)
(* and a resolved attempt stays resolved.                                  *)
(***************************************************************************)
EXTENDS Integers

CONSTANT MaxAttempt

VARIABLES
    status,    \* the lifecycle state of each attempt
    started    \* the attempts whose workflow was ever started

ledgerVars == <<status, started>>

Numbers == 1..MaxAttempt
OpenStates == {"processing", "reported", "acknowledged"}

LedgerInit ==
    /\ status = [n \in Numbers |-> "absent"]
    /\ started = {}

Open(n) ==
    /\ status[n] = "absent"
    /\ \A m \in 1..(n - 1) : status[m] # "absent"
    /\ status' = [status EXCEPT ![n] = "processing"]
    /\ UNCHANGED started

Start(n) ==
    /\ status[n] # "absent"
    /\ started' = started \cup {n}
    /\ UNCHANGED status

Report(n) ==
    /\ n \in started
    /\ status[n] \in OpenStates
    /\ status' = [status EXCEPT ![n] = "reported"]
    /\ UNCHANGED started

Acknowledge(n) ==
    /\ status[n] \in {"processing", "reported"}
    /\ status' = [status EXCEPT ![n] = "acknowledged"]
    /\ UNCHANGED started

Resolve(S) ==
    /\ \A n \in S : status[n] \in OpenStates
    /\ status' = [n \in Numbers |-> IF n \in S THEN "resolved" ELSE status[n]]
    /\ UNCHANGED started

LedgerNext ==
    \/ \E n \in Numbers : Open(n) \/ Start(n) \/ Report(n) \/ Acknowledge(n)
    \/ \E S \in SUBSET Numbers : Resolve(S)

LedgerSpec == LedgerInit /\ [][LedgerNext]_ledgerVars
=============================================================================
