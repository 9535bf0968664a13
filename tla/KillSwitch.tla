----------------------------- MODULE KillSwitch -----------------------------
(***************************************************************************)
(* The workflow kill-switch of settings.Store: a row of triage.settings,   *)
(* the process's cached copy of it, the dashboard requests that change     *)
(* both in two steps, the webhook requests that read the cache, and the    *)
(* process that crashes and reloads the cache.                             *)
(***************************************************************************)
CONSTANTS
    Toggles,    \* dashboard toggle requests that can be in flight at once
    Hooks       \* webhook requests that can be in flight at once

VARIABLES
    row,        \* triage.settings: the value of workflows_enabled
    cache,      \* Store.workflowsEnabled
    serving,    \* the worker process is up
    toggle,     \* the toggle requests
    hook,       \* the webhook requests
    failed,     \* why row and cache may differ: "loadFails" since the process started,
                \* "lostAck" and "crossed" since a toggle that nobody opposed was answered
    promise     \* what an operator was last told, until another asks for the opposite

switchVars == <<row, cache, serving, toggle, hook, failed, promise>>

IdleToggle == [pc |-> "idle", value |-> FALSE, opposed |-> FALSE]
IdleHook   == [pc |-> "idle", promise |-> "nothing"]

Promises == {"nothing", "paused", "resumed"}
Promised(value) == IF value THEN "resumed" ELSE "paused"

\* A toggle is opposed once somebody asks for the other value while it is under way.  A
\* firing carries the promise that stood when it arrived.
SwitchTypeOK ==
    /\ row \in {"none", "true", "false"}
    /\ cache \in BOOLEAN
    /\ serving \in BOOLEAN
    /\ toggle \in [Toggles -> [pc : {"idle", "persist", "cache"}, value : BOOLEAN,
                               opposed : BOOLEAN]]
    /\ hook \in [Hooks -> [pc : {"idle", "gate", "start"}, promise : Promises]]
    /\ failed \subseteq {"loadFails", "lostAck", "crossed"}
    /\ promise \in Promises

-----------------------------------------------------------------------------
(* The process.  It loads the cache before it serves; a missing row leaves    *)
(* the default, enabled, and so does a failed read.                           *)

Boot_NoLoad ==
    /\ ~serving
    /\ serving' = TRUE
    /\ cache' = TRUE
    /\ failed' = {}
    /\ UNCHANGED <<row, toggle, hook, promise>>

Boot ==
    /\ ~serving
    /\ serving' = TRUE
    /\ \/ cache' = (row \in {"none", "true"}) /\ failed' = {}
       \/ cache' = TRUE /\ failed' = {"loadFails"}
    /\ UNCHANGED <<row, toggle, hook, promise>>

Crash ==
    /\ serving
    /\ serving' = FALSE
    /\ cache' = TRUE
    /\ toggle' = [t \in Toggles |-> IdleToggle]
    /\ hook' = [h \in Hooks |-> IdleHook]
    /\ UNCHANGED <<row, failed, promise>>

-----------------------------------------------------------------------------
(* SetWorkflowsEnabled: persist, then cache.                                  *)

\* Asking for one value withdraws every earlier promise of the other.
Withdraw(p, value) == IF p = Promised(~value) THEN "nothing" ELSE p

\* The toggles under way that ask for the other value.
Against(value) == {u \in Toggles : toggle[u].pc # "idle" /\ toggle[u].value # value}

Ask(t, value) ==
    /\ serving
    /\ toggle[t].pc = "idle"
    /\ toggle' = [u \in Toggles |->
                     IF u = t
                     THEN [pc |-> "persist", value |-> value, opposed |-> Against(value) # {}]
                     ELSE [toggle[u] EXCEPT !.opposed = @ \/ u \in Against(value)]]
    /\ promise' = Withdraw(promise, value)
    /\ hook' = [h \in Hooks |-> [hook[h] EXCEPT !.promise = Withdraw(@, value)]]
    /\ UNCHANGED <<row, cache, serving, failed>>

\* The row has the new value, whether or not the answer to the write arrives; another
\* toggle may be about to cache the other value.
Crossing(t) ==
    IF \E u \in Against(toggle[t].value) : toggle[u].pc = "cache" THEN {"crossed"} ELSE {}

Persist(t) ==
    /\ toggle[t].pc = "persist"
    /\ row' = IF toggle[t].value THEN "true" ELSE "false"
    /\ \/ toggle' = [toggle EXCEPT ![t].pc = "cache"] /\ failed' = failed \cup Crossing(t)
       \/ toggle' = [toggle EXCEPT ![t] = IdleToggle]
          /\ failed' = failed \cup Crossing(t) \cup {"lostAck"}
    /\ UNCHANGED <<cache, serving, hook, promise>>

PersistFails_CachesAnyway(t) ==
    /\ toggle[t].pc = "persist"
    /\ cache' = toggle[t].value
    /\ toggle' = [toggle EXCEPT ![t] = IdleToggle]
    /\ UNCHANGED <<row, serving, hook, failed, promise>>

PersistFails(t) ==
    /\ toggle[t].pc = "persist"
    /\ toggle' = [toggle EXCEPT ![t] = IdleToggle]
    /\ UNCHANGED <<row, cache, serving, hook, failed, promise>>

\* The operator is told, unless somebody asked for the opposite in the meantime.  An
\* unopposed toggle leaves its value in the row and in the cache, whatever differed before.
Answer(t) ==
    /\ toggle' = [toggle EXCEPT ![t] = IdleToggle]
    /\ IF toggle[t].opposed
       THEN UNCHANGED <<promise, failed>>
       ELSE promise' = Promised(toggle[t].value) /\ failed' = failed \cap {"loadFails"}

Cache_Forgotten(t) ==
    /\ toggle[t].pc = "cache"
    /\ Answer(t)
    /\ UNCHANGED <<row, cache, serving, hook>>

Cache(t) ==
    /\ toggle[t].pc = "cache"
    /\ cache' = toggle[t].value
    /\ Answer(t)
    /\ UNCHANGED <<row, serving, hook>>

SetWorkflowsEnabled(t) ==
    \/ \E value \in BOOLEAN : Ask(t, value)
    \/ Persist(t)
    \/ PersistFails(t)
    \/ Cache(t)

-----------------------------------------------------------------------------
(* A firing webhook: WorkflowsEnabled reads the cache, the start comes later. *)

Arrive(h) ==
    /\ serving
    /\ hook[h].pc = "idle"
    /\ hook' = [hook EXCEPT ![h] = [pc |-> "gate", promise |-> promise]]
    /\ UNCHANGED <<row, cache, serving, toggle, failed, promise>>

WorkflowsEnabled(h) ==
    /\ hook[h].pc = "gate"
    /\ hook' = [hook EXCEPT ![h] = IF cache THEN [@ EXCEPT !.pc = "start"] ELSE IdleHook]
    /\ UNCHANGED <<row, cache, serving, toggle, failed, promise>>

StartRun(h) ==
    /\ hook[h].pc = "start"
    /\ hook' = [hook EXCEPT ![h] = IdleHook]
    /\ UNCHANGED <<row, cache, serving, toggle, failed, promise>>

HandleFiring(h) == Arrive(h) \/ WorkflowsEnabled(h) \/ StartRun(h)

-----------------------------------------------------------------------------
SwitchInit ==
    /\ row = "none"
    /\ cache = TRUE
    /\ serving = FALSE
    /\ toggle = [t \in Toggles |-> IdleToggle]
    /\ hook = [h \in Hooks |-> IdleHook]
    /\ failed = {}
    /\ promise = "nothing"

SwitchNext ==
    \/ Boot
    \/ Crash
    \/ \E t \in Toggles : SetWorkflowsEnabled(t)
    \/ \E h \in Hooks : HandleFiring(h)

SwitchSpec == SwitchInit /\ [][SwitchNext]_switchVars

-----------------------------------------------------------------------------
\* A firing that arrives after an operator was told "paused" starts no run until
\* somebody asks to resume, whatever crashes, restarts and writes fail; unless the
\* process could not read the row when it started.
PauseHonoured ==
    \A h \in Hooks :
        (hook[h].pc = "start" /\ hook[h].promise = "paused") => "loadFails" \in failed

\* A firing that arrives after an operator was told "resumed" is not dropped until
\* somebody asks to pause, whatever crashes, restarts, writes and reads fail.
ResumeHonoured ==
    \A h \in Hooks : (hook[h].pc = "gate" /\ hook[h].promise = "resumed") => cache

\* With no toggle under way, a serving process works with the persisted value, so that a
\* restart changes nothing.  They differ only after a lost answer, after a toggle that
\* wrote the row while another was about to cache the other value, or when the row could
\* not be read at the start; the next toggle that nobody opposes mends the first two.
CacheMatchesRow ==
    (serving /\ failed = {} /\ \A t \in Toggles : toggle[t].pc = "idle")
        => cache = (row # "false")
=============================================================================
