--------------------------- MODULE WorkerProcess ---------------------------
(***************************************************************************)
(* cmd/worker's run(): what it opens before it serves, the goroutines it   *)
(* starts, the signal that several of them wait for, the graceful shutdown *)
(* and the deferred closes, under requests, event streams and failures.    *)
(***************************************************************************)
EXTENDS Naturals, Sequences

CONSTANTS
    Requests,   \* webhook and dashboard requests that can be in flight at once
    Streams,    \* /events streams that can be open at once
    Activities  \* activities that the Temporal worker can run at once

Servers == {"http", "metrics"}

VARIABLES
    main,       \* where run() stands
    failing,    \* run() returns an error
    signal,     \* the signal: "none", or sent "before" or "after" the worker listens for it
    ctxDone,    \* NotifyContext's context is done
    errCh,      \* errCh: "nil" or "error"
    db,         \* "none" without DATABASE_URL, "closed", "open"
    migLock,    \* who holds the migration's session lock
    temporal,   \* the Temporal client
    broker,     \* the SSE broker: "none", "running", "stopped"
    server,     \* the two HTTP servers
    worker,     \* the Temporal worker
    grace,      \* the 15 seconds of shutdownCtx are not over
    request,    \* the requests in flight
    stream,     \* the open streams
    activity,   \* the activities that run
    reachable,  \* Temporal answers health checks
    healthy,    \* Handler.healthy, what /readyz answers
    probe       \* the health check loop

resources == <<db, migLock, temporal, broker>>
clients   == <<request, stream, activity>>
health    == <<reachable, healthy, probe>>
vars      == <<main, failing, signal, ctxDone, errCh, resources, server, worker, grace,
               clients, health>>

Migration == {"migrate", "ddl", "dml", "unlock"}
Startup  == Migration \cup {"dial", "settings", "broker", "start"}
Shutdown == {"unready", "drain", "stopWorker"}
Defers   == {"stopBroker", "closeTemporal", "closeDB"}

\* conn: MigrateSchema's connection; pooled: that session, back in the pool; other: the
\* session of another replica.
LockHolders == {"free", "conn", "pooled", "other"}

TypeOK ==
    /\ main \in Startup \cup {"wait"} \cup Shutdown \cup Defers \cup {"exited"}
    /\ failing \in BOOLEAN /\ ctxDone \in BOOLEAN /\ grace \in BOOLEAN
    /\ signal \in {"none", "before", "after"}
    /\ errCh \in Seq({"nil", "error"}) /\ Len(errCh) <= 3
    /\ db \in {"none", "closed", "open"} /\ migLock \in LockHolders /\ temporal \in {"closed", "open"}
    /\ broker \in {"none", "running", "stopped"}
    /\ server \in [Servers -> {"down", "serving", "failed", "closing", "closed"}]
    /\ worker \in {"down", "running", "stopped"}
    /\ request \in [Requests -> BOOLEAN] /\ stream \in [Streams -> BOOLEAN]
    /\ activity \in [Activities -> BOOLEAN]
    /\ reachable \in BOOLEAN /\ healthy \in BOOLEAN
    /\ probe \in {"down", "idle", "asked", "ok", "failed", "ended"}

-----------------------------------------------------------------------------
(* run(), up to the three goroutines it starts.                               *)

At(from, to) == main = from /\ main' = to

\* An error returned: the defers registered so far run.
Fail(from, to) == At(from, to) /\ failing' = TRUE

\* sql.Open connects to nothing yet.
SkipMigration ==
    /\ db = "none" /\ At("migrate", "dial")
    /\ UNCHANGED <<failing, signal, ctxDone, errCh, resources, server, worker, grace, clients, health>>

\* pg_try_advisory_lock, its answer unread.
LockMigration_Tries ==
    /\ db # "none" /\ At("migrate", "ddl")
    /\ db' = "open" /\ migLock' = IF migLock = "free" THEN "conn" ELSE migLock
    /\ UNCHANGED <<failing, signal, ctxDone, errCh, temporal, broker, server, worker, grace, clients, health>>

LockMigration ==
    /\ db # "none" /\ At("migrate", "ddl")
    /\ migLock = "free"
    /\ db' = "open" /\ migLock' = "conn"
    /\ UNCHANGED <<failing, signal, ctxDone, errCh, temporal, broker, server, worker, grace, clients, health>>

LockMigrationFails_NoTimeout ==
    /\ db # "none" /\ Fail("migrate", "closeDB")
    /\ ctxDone /\ db' = "open"
    /\ UNCHANGED <<signal, ctxDone, errCh, migLock, temporal, broker, server, worker, grace, clients, health>>

\* No connection, no lock within the 30 seconds, or a signal.
LockMigrationFails ==
    /\ db # "none" /\ Fail("migrate", "closeDB")
    /\ db' = "open"
    /\ UNCHANGED <<signal, ctxDone, errCh, migLock, temporal, broker, server, worker, grace, clients, health>>

\* Each phase is one multi-statement query: all of it commits, or nothing.
Migrate ==
    /\ \/ At("ddl", "dml") /\ UNCHANGED failing
       \/ At("dml", "unlock") /\ UNCHANGED failing
       \/ Fail("ddl", "unlock") \/ Fail("dml", "unlock")
    /\ UNCHANGED <<signal, ctxDone, errCh, resources, server, worker, grace, clients, health>>

\* Under a context of its own; when it fails, conn.Close gives the session that has
\* the lock back to the pool.
UnlockMigration ==
    /\ At("unlock", IF failing THEN "closeDB" ELSE "dial")
    /\ migLock' \in {"free", "pooled"}
    /\ UNCHANGED <<failing, signal, ctxDone, errCh, db, temporal, broker, server, worker, grace, clients, health>>

MigrateSchema ==
    SkipMigration \/ LockMigration \/ LockMigrationFails \/ Migrate \/ UnlockMigration

RecycleSession_Never == FALSE /\ UNCHANGED vars

\* SetConnMaxLifetime: the pool closes a session after five minutes.
RecycleSession ==
    /\ migLock = "pooled" /\ db = "open"
    /\ migLock' = "free"
    /\ UNCHANGED <<main, failing, signal, ctxDone, errCh, db, temporal, broker, server, worker, grace, clients, health>>

\* Another replica migrates; it may not give the lock back for long.
OtherReplicaMigrates ==
    /\ main = "migrate"
    /\ \/ migLock = "free" /\ migLock' = "other"
       \/ migLock = "other" /\ migLock' = "free"
    /\ UNCHANGED <<main, failing, signal, ctxDone, errCh, db, temporal, broker, server, worker, grace, clients, health>>

Dial ==
    /\ \/ At("dial", "settings") /\ temporal' = "open" /\ UNCHANGED failing
       \/ Fail("dial", "closeDB") /\ UNCHANGED temporal
    /\ UNCHANGED <<signal, ctxDone, errCh, db, migLock, broker, server, worker, grace, clients, health>>

\* Settings that cannot be read are a warning.
LoadSettings ==
    /\ At("settings", IF db = "none" THEN "start" ELSE "broker")
    /\ UNCHANGED <<failing, signal, ctxDone, errCh, resources, server, worker, grace, clients, health>>

\* So is a broker that cannot listen.
StartBroker ==
    /\ At("broker", "start")
    /\ broker' \in {"none", "running"}
    /\ UNCHANGED <<failing, signal, ctxDone, errCh, db, migLock, temporal, server, worker, grace, clients, health>>

Start ==
    /\ At("start", "wait")
    /\ server' = [s \in Servers |-> "serving"]
    /\ worker' = "running"
    /\ probe' = "idle"
    /\ UNCHANGED <<failing, signal, ctxDone, errCh, resources, grace, clients, reachable, healthy>>

-----------------------------------------------------------------------------
(* The signal, and what the goroutines report.                                *)

Signal ==
    /\ signal = "none" /\ main # "exited"
    /\ signal' = IF main \in Startup THEN "before" ELSE "after"
    /\ UNCHANGED <<main, failing, ctxDone, errCh, resources, server, worker, grace, clients, health>>

CancelContext ==
    /\ signal # "none" /\ ~ctxDone
    /\ ctxDone' = TRUE
    /\ UNCHANGED <<main, failing, signal, errCh, resources, server, worker, grace, clients, health>>

\* w.Run returns: the interrupt stopped the worker, or it could not start.  Without a
\* WorkerStopTimeout it waits for no activity.
WorkerReturns ==
    /\ worker = "running" /\ main # "exited"
    /\ worker' = "stopped"
    /\ \/ signal = "after" /\ errCh' = Append(errCh, "nil")
       \/ errCh' = Append(errCh, "error")
    /\ UNCHANGED <<main, failing, signal, ctxDone, resources, server, grace, clients, health>>

\* A listener that fails; the requests it accepted go on.
ServerFails(s) ==
    /\ server[s] = "serving" /\ main # "exited"
    /\ server' = [server EXCEPT ![s] = "failed"]
    /\ errCh' = Append(errCh, "error")
    /\ UNCHANGED <<main, failing, signal, ctxDone, resources, worker, grace, clients, health>>

-----------------------------------------------------------------------------
(* run(), from the select on.                                                 *)

Wait ==
    /\ \/ ctxDone /\ At("wait", "unready") /\ UNCHANGED <<failing, errCh>>
       \/ /\ errCh # <<>> /\ errCh' = Tail(errCh)
          /\ \/ Head(errCh) = "nil" /\ At("wait", "unready") /\ UNCHANGED failing
             \/ Head(errCh) = "error" /\ Fail("wait", "stopBroker")
    /\ UNCHANGED <<signal, ctxDone, resources, server, worker, grace, clients, health>>

\* SetHealthy(false); then both servers shut down side by side.
SetUnready ==
    /\ At("unready", "drain")
    /\ healthy' = FALSE
    /\ server' = [s \in Servers |-> "closing"]
    /\ UNCHANGED <<failing, signal, ctxDone, errCh, resources, worker, grace, clients, reachable, probe>>

Idle(s) == s = "http" => (\A r \in Requests : ~request[r]) /\ (\A c \in Streams : ~stream[c])

ServerCloses(s) ==
    /\ server[s] = "closing" /\ Idle(s)
    /\ server' = [server EXCEPT ![s] = "closed"]
    /\ UNCHANGED <<main, failing, signal, ctxDone, errCh, resources, worker, grace, clients, health>>

GraceExpires ==
    /\ main = "drain" /\ grace
    /\ grace' = FALSE
    /\ UNCHANGED <<main, failing, signal, ctxDone, errCh, resources, server, worker, clients, health>>

Drained_AnyServer ==
    /\ At("drain", "stopWorker")
    /\ ~grace \/ \E s \in Servers : server[s] = "closed"
    /\ UNCHANGED <<failing, signal, ctxDone, errCh, resources, server, worker, grace, clients, health>>

Drained_NoGrace ==
    /\ At("drain", "stopWorker")
    /\ \A s \in Servers : server[s] = "closed"
    /\ UNCHANGED <<failing, signal, ctxDone, errCh, resources, server, worker, grace, clients, health>>

\* shutdownWG.Wait
Drained ==
    /\ At("drain", "stopWorker")
    /\ ~grace \/ \A s \in Servers : server[s] = "closed"
    /\ UNCHANGED <<failing, signal, ctxDone, errCh, resources, server, worker, grace, clients, health>>

\* Nor does w.Stop.
StopWorker ==
    /\ At("stopWorker", "stopBroker")
    /\ worker' = "stopped"
    /\ UNCHANGED <<failing, signal, ctxDone, errCh, resources, server, grace, clients, health>>

StopBroker ==
    /\ At("stopBroker", "closeTemporal")
    /\ broker' = IF broker = "running" THEN "stopped" ELSE broker
    /\ UNCHANGED <<failing, signal, ctxDone, errCh, db, migLock, temporal, server, worker, grace, clients, health>>

CloseTemporal ==
    /\ At("closeTemporal", "closeDB")
    /\ temporal' = "closed"
    /\ UNCHANGED <<failing, signal, ctxDone, errCh, db, migLock, broker, server, worker, grace, clients, health>>

\* The last defer; the process is gone, and everything in it.
Exit ==
    /\ At("closeDB", "exited")
    /\ db' = IF db = "open" THEN "closed" ELSE db
    /\ migLock' = IF migLock = "pooled" THEN "free" ELSE migLock
    /\ server' = [s \in Servers |-> "closed"]
    /\ worker' = "stopped"
    /\ request' = [r \in Requests |-> FALSE]
    /\ stream' = [c \in Streams |-> FALSE]
    /\ activity' = [a \in Activities |-> FALSE]
    /\ probe' = "ended"
    /\ UNCHANGED <<failing, signal, ctxDone, errCh, temporal, broker, grace, reachable, healthy>>

-----------------------------------------------------------------------------
(* Clients, activities and the health check loop.                             *)

RequestBegins(r) ==
    /\ server["http"] = "serving" /\ ~request[r]
    /\ request' = [request EXCEPT ![r] = TRUE]
    /\ UNCHANGED <<main, failing, signal, ctxDone, errCh, resources, server, worker, grace, stream, activity, health>>

RequestEnds(r) ==
    /\ request[r]
    /\ request' = [request EXCEPT ![r] = FALSE]
    /\ UNCHANGED <<main, failing, signal, ctxDone, errCh, resources, server, worker, grace, stream, activity, health>>

StreamBegins(c) ==
    /\ server["http"] = "serving" /\ broker = "running" /\ ~stream[c]
    /\ stream' = [stream EXCEPT ![c] = TRUE]
    /\ UNCHANGED <<main, failing, signal, ctxDone, errCh, resources, server, worker, grace, request, activity, health>>

\* The page goes, or the broker closed the stream's channel.
StreamEnds(c) ==
    /\ stream[c]
    /\ stream' = [stream EXCEPT ![c] = FALSE]
    /\ UNCHANGED <<main, failing, signal, ctxDone, errCh, resources, server, worker, grace, request, activity, health>>

ActivityBegins(a) ==
    /\ worker = "running" /\ ~activity[a]
    /\ activity' = [activity EXCEPT ![a] = TRUE]
    /\ UNCHANGED <<main, failing, signal, ctxDone, errCh, resources, server, worker, grace, request, stream, health>>

ActivityEnds(a) ==
    /\ activity[a]
    /\ activity' = [activity EXCEPT ![a] = FALSE]
    /\ UNCHANGED <<main, failing, signal, ctxDone, errCh, resources, server, worker, grace, request, stream, health>>

TemporalComesOrGoes ==
    /\ main = "wait"
    /\ reachable' = ~reachable
    /\ UNCHANGED <<main, failing, signal, ctxDone, errCh, resources, server, worker, grace, clients, healthy, probe>>

\* A check under a context that is done fails.
Check ==
    /\ probe = "idle"
    /\ \/ probe' = IF ctxDone THEN "failed" ELSE "asked"
       \/ ctxDone /\ probe' = "ended"
    /\ UNCHANGED <<main, failing, signal, ctxDone, errCh, resources, server, worker, grace, clients,
                   reachable, healthy>>

Checked ==
    /\ probe = "asked"
    /\ \/ probe' = IF reachable THEN "ok" ELSE "failed"
       \/ ctxDone /\ probe' = "failed"
    /\ UNCHANGED <<main, failing, signal, ctxDone, errCh, resources, server, worker, grace, clients,
                   reachable, healthy>>

SetHealthy_OnlyDown ==
    /\ probe \in {"ok", "failed"}
    /\ healthy' = (healthy /\ probe = "ok")
    /\ probe' = "idle"
    /\ UNCHANGED <<main, failing, signal, ctxDone, errCh, resources, server, worker, grace, clients, reachable>>

SetHealthy ==
    /\ probe \in {"ok", "failed"}
    /\ healthy' = (probe = "ok")
    /\ probe' = "idle"
    /\ UNCHANGED <<main, failing, signal, ctxDone, errCh, resources, server, worker, grace, clients, reachable>>

-----------------------------------------------------------------------------
Init ==
    /\ main = "migrate" /\ failing = FALSE
    /\ signal = "none" /\ ctxDone = FALSE /\ errCh = <<>>
    /\ db \in {"none", "closed"} /\ migLock \in {"free", "other"} /\ temporal = "closed" /\ broker = "none"
    /\ server = [s \in Servers |-> "down"] /\ worker = "down" /\ grace = TRUE
    /\ request = [r \in Requests |-> FALSE] /\ stream = [c \in Streams |-> FALSE]
    /\ activity = [a \in Activities |-> FALSE]
    /\ reachable = TRUE /\ healthy = TRUE /\ probe = "down"

Run ==
    \/ MigrateSchema \/ Dial \/ LoadSettings \/ StartBroker \/ Start
    \/ Wait \/ SetUnready \/ Drained \/ StopWorker \/ StopBroker \/ CloseTemporal \/ Exit

Next ==
    \/ Run
    \/ RecycleSession \/ OtherReplicaMigrates
    \/ Signal \/ CancelContext \/ WorkerReturns \/ GraceExpires
    \/ \E s \in Servers : ServerFails(s) \/ ServerCloses(s)
    \/ \E r \in Requests : RequestBegins(r) \/ RequestEnds(r)
    \/ \E c \in Streams : StreamBegins(c) \/ StreamEnds(c)
    \/ \E a \in Activities : ActivityBegins(a) \/ ActivityEnds(a)
    \/ TemporalComesOrGoes \/ Check \/ Checked \/ SetHealthy

(* Fairness: run() goes on (its calls to Postgres and Temporal return, or their *)
(* contexts end), the pool recycles its sessions, the signal reaches the        *)
(* context, the grace expires, the health loop ticks.  Nothing makes requests,  *)
(* streams and activities end, or another replica give the migration lock back. *)
Fairness ==
    /\ WF_vars(Run) /\ WF_vars(RecycleSession) /\ WF_vars(CancelContext) /\ WF_vars(GraceExpires)
    /\ WF_vars(Check) /\ WF_vars(Checked) /\ WF_vars(SetHealthy)

Spec == Init /\ [][Next]_vars
FairSpec == Spec /\ Fairness

-----------------------------------------------------------------------------
\* A shutdown without an error stops the broker and closes the Temporal client, and then
\* the database, behind the requests and the streams, unless the grace period was not
\* enough for them.  Activities it does not wait for.
RequestsDrained ==
    (/\ ~failing /\ grace /\ main # "exited"
     /\ broker = "stopped" \/ (main \notin Startup /\ temporal = "closed"))
      => /\ \A r \in Requests : ~request[r]
         /\ \A c \in Streams : ~stream[c]

\* The two phases of the migration run in one replica at a time.
MigratesAlone == main \in {"ddl", "dml"} => migLock = "conn"

\* A lock that a failed unlock left on a pooled session is given back while the process
\* goes on serving, so that another replica can migrate.
LockGivenBack == (migLock = "pooled") ~> (migLock = "free")

\* A start comes to an end, although another replica may hold the lock for ever.
StartEnds == main \in Startup ~> main \notin Startup

\* A signal ends the process, whenever it comes and whatever requests and streams stay
\* open and activities go on.
ShutdownEnds == (signal # "none") ~> (main = "exited")

\* A process that serves gets ready again, as long as Temporal is reachable again.
ReadyAgain ==
    (main = "wait" /\ reachable /\ ~healthy) ~> (healthy \/ ~reachable \/ main # "wait")
=============================================================================
