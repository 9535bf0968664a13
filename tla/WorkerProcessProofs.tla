------------------------- MODULE WorkerProcessProofs -------------------------
(***************************************************************************)
(* The types of WorkerProcess, that replicas migrate one at a time, and    *)
(* that a shutdown without an error stops and closes nothing under the     *)
(* requests and the streams it had the time to wait for, for any number of *)
(* them and of activities; and what the kill-switch, which the process     *)
(* loads when it starts, promises for any number of webhook requests and   *)
(* of toggles, however they overlap.                                       *)
(***************************************************************************)
EXTENDS WorkerProcess, KillSwitch, TLAPS

\* Whether a goroutine that reports to errCh at most once may still do so.
Serving(s) == IF server[s] = "serving" THEN 1 ELSE 0
Working    == IF worker = "running" THEN 1 ELSE 0

\* errCh has a place for every goroutine that may still report.
ErrChRoom == Len(errCh) + Serving("http") + Serving("metrics") + Working <= 3

\* Nothing runs, and so nothing reports, before run() has started it.
NothingYet ==
    main \in Startup =>
        errCh = <<>> /\ worker = "down" /\ \A s \in Servers : server[s] = "down"

\* The client and the database are open from the end of their start to their own defer.
TemporalOpen ==
    ~failing => temporal = "open" \/ main \in Migration \cup {"dial", "closeDB", "exited"}
DatabaseOpen == db # "closed" \/ main \in {"migrate", "exited"}

\* A closed server has no requests and no streams.
ClosedIsIdle ==
    server["http"] = "closed" => /\ \A r \in Requests : ~request[r]
                                 /\ \A c \in Streams : ~stream[c]

\* Without an error the worker's stop and the defers run behind the drain.
DrainedFirst ==
    ~failing /\ main \in {"stopWorker"} \cup Defers => (grace => server["http"] = "closed")

\* The broker is stopped by a defer.
BrokerUp == broker = "stopped" => main \in {"closeTemporal", "closeDB", "exited"}

IInv ==
    /\ TypeOK /\ ErrChRoom /\ NothingYet /\ TemporalOpen /\ DatabaseOpen
    /\ ClosedIsIdle /\ DrainedFirst /\ BrokerUp /\ MigratesAlone

-----------------------------------------------------------------------------
LEMMA InitIInv == ASSUME Init PROVE IInv
<1> USE DEF Init, Servers, Startup, Migration, Defers, LockHolders
<1>0. <<>> \in Seq({"nil", "error"}) /\ Len(<<>>) = 0
  OBVIOUS
<1>a. /\ failing \in BOOLEAN /\ ctxDone \in BOOLEAN /\ grace \in BOOLEAN
      /\ reachable \in BOOLEAN /\ healthy \in BOOLEAN
      /\ request \in [Requests -> BOOLEAN] /\ stream \in [Streams -> BOOLEAN]
      /\ activity \in [Activities -> BOOLEAN]
  OBVIOUS
<1>1. TypeOK
  BY <1>0, <1>a DEF TypeOK
<1>2. ErrChRoom
  BY DEF ErrChRoom, Serving, Working
<1>3. NothingYet /\ TemporalOpen /\ DatabaseOpen
  BY DEF NothingYet, TemporalOpen, DatabaseOpen
<1>4. ClosedIsIdle /\ DrainedFirst /\ BrokerUp /\ MigratesAlone
  BY DEF ClosedIsIdle, DrainedFirst, BrokerUp, MigratesAlone
<1>5. QED BY <1>1, <1>2, <1>3, <1>4 DEF IInv

-----------------------------------------------------------------------------
(* The steps of run() up to Start.  They touch neither servers nor errCh.     *)

LEMMA MigrationStep ==
    ASSUME IInv, MigrateSchema
    PROVE  IInv'
<1> USE DEF At, Fail, resources, clients, health
<1>1. /\ main \in Migration
      /\ main' \in Migration \cup {"dial", "closeDB"}
      /\ failing' \in BOOLEAN
      /\ ~failing' => ~failing /\ main' # "closeDB"
      /\ UNCHANGED <<signal, ctxDone, errCh, temporal, broker, server, worker, grace, clients, health>>
  BY DEF MigrateSchema, SkipMigration, LockMigration, LockMigrationFails, Migrate,
         UnlockMigration, Migration, IInv, TypeOK
<1>2. /\ db' \in {"none", "closed", "open"} /\ migLock' \in LockHolders
      /\ db' # "closed"
      /\ main' \in {"ddl", "dml"} => migLock' = "conn"
  BY DEF MigrateSchema, SkipMigration, LockMigration, LockMigrationFails, Migrate,
         UnlockMigration, Migration, LockHolders, IInv, TypeOK, DatabaseOpen, MigratesAlone
<1>3. TypeOK'
  BY <1>1, <1>2 DEF IInv, TypeOK, Startup, Defers, Migration
<1>4. ErrChRoom' /\ ClosedIsIdle'
  BY <1>1 DEF IInv, ErrChRoom, Serving, Working, ClosedIsIdle
<1>5. NothingYet'
  BY <1>1 DEF IInv, NothingYet, Startup
<1>6. TemporalOpen' /\ DatabaseOpen' /\ MigratesAlone'
  BY <1>1, <1>2 DEF TemporalOpen, DatabaseOpen, MigratesAlone
<1>7. DrainedFirst' /\ BrokerUp'
  BY <1>1 DEF IInv, DrainedFirst, BrokerUp, Migration, Defers
<1>8. QED BY <1>3, <1>4, <1>5, <1>6, <1>7 DEF IInv

LEMMA OpeningStep ==
    ASSUME IInv, Dial \/ LoadSettings \/ StartBroker
    PROVE  IInv'
<1> USE DEF At, Fail, resources, clients, health
<1>1. /\ main \in {"dial", "settings", "broker"}
      /\ main' \in {"settings", "broker", "start", "closeDB"}
      /\ failing' \in BOOLEAN
      /\ ~failing' => ~failing /\ main' # "closeDB" /\ temporal' = "open"
      /\ temporal' \in {"closed", "open"} /\ broker' \in {broker, "none", "running"}
      /\ UNCHANGED <<signal, ctxDone, errCh, db, migLock, server, worker, grace, clients, health>>
  BY DEF Dial, LoadSettings, StartBroker, IInv, TypeOK, TemporalOpen, Migration
<1>2. TypeOK'
  BY <1>1 DEF IInv, TypeOK, Startup, Defers
<1>3. ErrChRoom' /\ ClosedIsIdle'
  BY <1>1 DEF IInv, ErrChRoom, Serving, Working, ClosedIsIdle
<1>4. NothingYet'
  BY <1>1 DEF IInv, NothingYet, Startup
<1>5. TemporalOpen' /\ DatabaseOpen' /\ MigratesAlone'
  BY <1>1 DEF IInv, TemporalOpen, DatabaseOpen, MigratesAlone
<1>6. DrainedFirst' /\ BrokerUp'
  BY <1>1 DEF IInv, DrainedFirst, BrokerUp, Defers
<1>7. QED BY <1>2, <1>3, <1>4, <1>5, <1>6 DEF IInv

LEMMA StartStep == ASSUME IInv, Start PROVE IInv'
<1>1. /\ main = "start" /\ main' = "wait" /\ errCh = <<>>
      /\ server' = [s \in Servers |-> "serving"] /\ worker' = "running" /\ probe' = "idle"
      /\ UNCHANGED <<failing, signal, ctxDone, errCh, db, migLock, temporal, broker, grace,
                     request, stream, activity, reachable, healthy>>
  BY DEF Start, At, resources, clients, IInv, NothingYet, Startup
<1>2. TypeOK'
  BY <1>1 DEF IInv, TypeOK
<1>3. ErrChRoom'
  BY <1>1 DEF ErrChRoom, Serving, Working, Servers
<1>4. NothingYet' /\ TemporalOpen' /\ DatabaseOpen' /\ MigratesAlone'
  BY <1>1 DEF IInv, NothingYet, TemporalOpen, DatabaseOpen, MigratesAlone, Startup, Migration
<1>5. ClosedIsIdle' /\ DrainedFirst' /\ BrokerUp'
  BY <1>1 DEF IInv, ClosedIsIdle, DrainedFirst, BrokerUp, Servers, Defers
<1>6. QED BY <1>2, <1>3, <1>4, <1>5 DEF IInv

-----------------------------------------------------------------------------
(* The steps of run() from the select on.                                     *)

LEMMA WaitStep == ASSUME IInv, Wait PROVE IInv'
<1>1. /\ main = "wait" /\ main' \in {"unready", "stopBroker"} /\ failing' \in BOOLEAN
      /\ ~failing' => ~failing /\ main' = "unready"
      /\ UNCHANGED <<signal, ctxDone, db, migLock, temporal, broker, server, worker, grace,
                     request, stream, activity, reachable, healthy, probe>>
  BY DEF Wait, At, Fail, resources, clients, health, IInv, TypeOK
<1>2. errCh' \in Seq({"nil", "error"}) /\ Len(errCh') <= Len(errCh)
  BY DEF Wait, IInv, TypeOK
<1>3. TypeOK'
  BY <1>1, <1>2 DEF IInv, TypeOK, Shutdown, Defers
<1>4. ErrChRoom'
  <2>1. Len(errCh) \in Nat /\ Len(errCh') \in Nat
    BY <1>2 DEF IInv, TypeOK
  <2>2. /\ Serving("http")' = Serving("http") /\ Serving("metrics")' = Serving("metrics")
        /\ Working' = Working
        /\ Serving("http") \in Nat /\ Serving("metrics") \in Nat /\ Working \in Nat
    BY <1>1 DEF Serving, Working
  <2>3. QED BY <1>2, <2>1, <2>2 DEF IInv, ErrChRoom
<1>5. NothingYet' /\ TemporalOpen' /\ DatabaseOpen' /\ MigratesAlone'
  BY <1>1 DEF IInv, NothingYet, TemporalOpen, DatabaseOpen, MigratesAlone, Startup, Migration
<1>6. ClosedIsIdle' /\ DrainedFirst' /\ BrokerUp'
  BY <1>1 DEF IInv, ClosedIsIdle, DrainedFirst, BrokerUp, Defers
<1>7. QED BY <1>3, <1>4, <1>5, <1>6 DEF IInv

LEMMA UnreadyStep == ASSUME IInv, SetUnready PROVE IInv'
<1>1. /\ main = "unready" /\ main' = "drain" /\ healthy' = FALSE
      /\ server' = [s \in Servers |-> "closing"]
      /\ UNCHANGED <<failing, signal, ctxDone, errCh, db, migLock, temporal, broker, worker, grace,
                     request, stream, activity, reachable, probe>>
  BY DEF SetUnready, At, resources, clients
<1>a. healthy' \in BOOLEAN
  BY <1>1
<1>2. TypeOK'
  BY <1>1, <1>a DEF IInv, TypeOK, Shutdown
<1>3. ErrChRoom'
  <2>1. Len(errCh) \in Nat /\ errCh' = errCh
    BY <1>1 DEF IInv, TypeOK
  <2>2. /\ Serving("http")' = 0 /\ Serving("metrics")' = 0 /\ Working' = Working
        /\ Serving("http") \in Nat /\ Serving("metrics") \in Nat /\ Working \in Nat
    BY <1>1 DEF Serving, Working, Servers
  <2>3. QED BY <2>1, <2>2 DEF IInv, ErrChRoom
<1>4. NothingYet' /\ TemporalOpen' /\ DatabaseOpen' /\ MigratesAlone'
  BY <1>1 DEF IInv, NothingYet, TemporalOpen, DatabaseOpen, MigratesAlone, Startup, Migration
<1>5. ClosedIsIdle' /\ DrainedFirst' /\ BrokerUp'
  BY <1>1 DEF IInv, ClosedIsIdle, DrainedFirst, BrokerUp, Servers, Defers
<1>6. QED BY <1>2, <1>3, <1>4, <1>5 DEF IInv

LEMMA ClosingStep ==
    ASSUME IInv, Drained \/ StopWorker \/ StopBroker \/ CloseTemporal
    PROVE  IInv'
<1> USE DEF At, resources, clients, health
<1>1. /\ main \in {"drain", "stopWorker", "stopBroker", "closeTemporal"}
      /\ main' \in {"stopWorker"} \cup Defers
      /\ temporal' \in {"closed", "open"} /\ broker' \in {"none", "running", "stopped"}
      /\ worker' \in {worker, "stopped"}
      /\ UNCHANGED <<failing, signal, ctxDone, errCh, db, migLock, server, grace, request, stream, activity,
                     reachable, healthy, probe>>
  BY DEF Drained, StopWorker, StopBroker, CloseTemporal, Defers, IInv, TypeOK
<1>2. TypeOK'
  BY <1>1 DEF IInv, TypeOK, Shutdown
<1>3. ErrChRoom'
  <2>1. Len(errCh) \in Nat /\ errCh' = errCh
    BY <1>1 DEF IInv, TypeOK
  <2>2. Working' <= Working /\ Working \in Nat /\ Working' \in Nat
    BY <1>1 DEF Working
  <2>3. /\ Serving("http")' = Serving("http") /\ Serving("metrics")' = Serving("metrics")
        /\ Serving("http") \in Nat /\ Serving("metrics") \in Nat
    BY <1>1 DEF Serving
  <2>4. QED BY <2>1, <2>2, <2>3 DEF IInv, ErrChRoom
<1>4. NothingYet' /\ DatabaseOpen' /\ MigratesAlone' /\ ClosedIsIdle'
  BY <1>1 DEF IInv, NothingYet, DatabaseOpen, MigratesAlone, ClosedIsIdle, Startup, Migration, Defers
<1>5. TemporalOpen'
  BY DEF Drained, StopWorker, StopBroker, CloseTemporal, IInv, TemporalOpen, Migration
<1>6. DrainedFirst' /\ BrokerUp'
  BY DEF Drained, StopWorker, StopBroker, CloseTemporal, IInv, DrainedFirst, BrokerUp, Defers, Servers
<1>7. QED BY <1>2, <1>3, <1>4, <1>5, <1>6 DEF IInv

LEMMA ExitStep == ASSUME IInv, Exit PROVE IInv'
<1>1. /\ main' = "exited" /\ db' \in {"none", "closed", "open"} /\ migLock' \in LockHolders
      /\ server' = [s \in Servers |-> "closed"] /\ worker' = "stopped" /\ probe' = "ended"
      /\ request' = [r \in Requests |-> FALSE] /\ stream' = [c \in Streams |-> FALSE]
      /\ activity' = [a \in Activities |-> FALSE]
      /\ UNCHANGED <<failing, signal, ctxDone, errCh, temporal, broker, grace, reachable, healthy>>
  BY DEF Exit, At, IInv, TypeOK, LockHolders
<1>2. TypeOK'
  BY <1>1 DEF IInv, TypeOK
<1>3. ErrChRoom'
  BY <1>1 DEF IInv, TypeOK, ErrChRoom, Serving, Working, Servers
<1>4. NothingYet' /\ TemporalOpen' /\ DatabaseOpen' /\ MigratesAlone' /\ ClosedIsIdle' /\ DrainedFirst' /\ BrokerUp'
  BY <1>1 DEF NothingYet, TemporalOpen, DatabaseOpen, MigratesAlone, ClosedIsIdle, DrainedFirst, BrokerUp,
              Startup, Migration, Defers
<1>5. QED BY <1>2, <1>3, <1>4 DEF IInv

-----------------------------------------------------------------------------
(* What the others do.                                                        *)

\* Neither a step of an activity, nor of the health check, nor of the signal, nor of the
\* migration lock's other holders.
LEMMA SurroundingStep ==
    ASSUME IInv,
           \/ RecycleSession \/ OtherReplicaMigrates \/ Signal \/ CancelContext
           \/ TemporalComesOrGoes \/ Check \/ Checked \/ SetHealthy \/ GraceExpires
           \/ \E a \in Activities : ActivityBegins(a) \/ ActivityEnds(a)
    PROVE  IInv'
<1> USE DEF resources, clients, health
<1>1. /\ signal' \in {"none", "before", "after"}
      /\ migLock' \in LockHolders /\ (main \in {"ddl", "dml"} => migLock' = migLock)
      /\ probe' \in {"down", "idle", "asked", "ok", "failed", "ended"}
      /\ UNCHANGED <<main, failing, errCh, db, temporal, broker, server, worker, request, stream>>
  BY DEF RecycleSession, OtherReplicaMigrates, Signal, CancelContext, TemporalComesOrGoes, Check,
         Checked, SetHealthy, GraceExpires, ActivityBegins, ActivityEnds, IInv, TypeOK, LockHolders,
         MigratesAlone
<1>2. /\ ctxDone' \in BOOLEAN /\ reachable' \in BOOLEAN /\ healthy' \in BOOLEAN
      /\ grace' \in BOOLEAN /\ (grace' => grace)
      /\ activity' \in [Activities -> BOOLEAN]
  <2>1. CASE \E a \in Activities : ActivityBegins(a) \/ ActivityEnds(a)
    <3>1. activity' \in [Activities -> BOOLEAN]
      BY <2>1 DEF ActivityBegins, ActivityEnds, IInv, TypeOK
    <3>2. UNCHANGED <<ctxDone, reachable, healthy, grace>>
      BY <2>1 DEF ActivityBegins, ActivityEnds
    <3>3. QED BY <3>1, <3>2, Zenon DEF IInv, TypeOK
  <2>2. CASE RecycleSession \/ OtherReplicaMigrates \/ Signal \/ Check \/ Checked
    BY <2>2 DEF RecycleSession, OtherReplicaMigrates, Signal, Check, Checked, IInv, TypeOK
  <2>3. CASE CancelContext \/ TemporalComesOrGoes \/ SetHealthy \/ GraceExpires
    <3>1. ctxDone' = ctxDone \/ ctxDone' = TRUE
      BY <2>3, Zenon DEF CancelContext, TemporalComesOrGoes, SetHealthy, GraceExpires
    <3>2. reachable' = reachable \/ reachable' = ~reachable
      BY <2>3, Zenon DEF CancelContext, TemporalComesOrGoes, SetHealthy, GraceExpires
    <3>3. healthy' = healthy \/ healthy' = (probe = "ok")
      BY <2>3, Zenon DEF CancelContext, TemporalComesOrGoes, SetHealthy, GraceExpires
    <3>4. grace' = grace \/ grace' = FALSE
      BY <2>3, Zenon DEF CancelContext, TemporalComesOrGoes, SetHealthy, GraceExpires
    <3>5. activity' = activity
      BY <2>3, Zenon DEF CancelContext, TemporalComesOrGoes, SetHealthy, GraceExpires
    <3>6. ctxDone' \in BOOLEAN
      BY <3>1, Zenon DEF IInv, TypeOK
    <3>7. reachable' \in BOOLEAN
      BY <3>2, Zenon DEF IInv, TypeOK
    <3>8. healthy' \in BOOLEAN
      BY <3>3, Zenon DEF IInv, TypeOK
    <3>9. grace' \in BOOLEAN /\ (grace' => grace)
      <4>1. grace \in BOOLEAN BY DEF IInv, TypeOK
      <4>2. CASE grace' = grace BY <4>1, <4>2
      <4>3. CASE grace' = FALSE BY <4>3
      <4>4. QED BY <3>4, <4>2, <4>3
    <3>10. QED BY <3>5, <3>6, <3>7, <3>8, <3>9 DEF IInv, TypeOK
  <2>4. QED BY <2>1, <2>2, <2>3
<1>3. TypeOK'
  BY <1>1, <1>2 DEF IInv, TypeOK
<1>4. ErrChRoom'
  BY <1>1 DEF IInv, ErrChRoom, Serving, Working
<1>5. NothingYet' /\ TemporalOpen' /\ DatabaseOpen' /\ ClosedIsIdle'
  BY <1>1 DEF IInv, NothingYet, TemporalOpen, DatabaseOpen, ClosedIsIdle
<1>6. DrainedFirst' /\ BrokerUp' /\ MigratesAlone'
  BY <1>1, <1>2 DEF IInv, DrainedFirst, BrokerUp, MigratesAlone
<1>7. QED BY <1>3, <1>4, <1>5, <1>6 DEF IInv

LEMMA ClientStep ==
    ASSUME IInv,
           \/ \E r \in Requests : RequestBegins(r) \/ RequestEnds(r)
           \/ \E c \in Streams : StreamBegins(c) \/ StreamEnds(c)
    PROVE  IInv'
<1> USE DEF resources, clients, health
<1>1. UNCHANGED <<main, failing, signal, ctxDone, errCh, db, migLock, temporal, broker, server,
                  worker, grace, activity, reachable, healthy, probe>>
  BY DEF RequestBegins, RequestEnds, StreamBegins, StreamEnds
<1>2. request' \in [Requests -> BOOLEAN] /\ stream' \in [Streams -> BOOLEAN]
  BY DEF RequestBegins, RequestEnds, StreamBegins, StreamEnds, IInv, TypeOK
<1>3. TypeOK'
  BY <1>1, <1>2 DEF IInv, TypeOK
<1>4. ClosedIsIdle'
  BY <1>1 DEF RequestBegins, RequestEnds, StreamBegins, StreamEnds, IInv, TypeOK, ClosedIsIdle
<1>5. ErrChRoom'
  BY <1>1 DEF IInv, ErrChRoom, Serving, Working
<1>6. NothingYet' /\ TemporalOpen' /\ DatabaseOpen' /\ DrainedFirst' /\ BrokerUp' /\ MigratesAlone'
  BY <1>1 DEF IInv, NothingYet, TemporalOpen, DatabaseOpen, DrainedFirst, BrokerUp, MigratesAlone
<1>7. QED BY <1>3, <1>4, <1>5, <1>6 DEF IInv

\* A goroutine that reports gives up its place in errCh.
LEMMA Reported ==
    ASSUME errCh \in Seq({"nil", "error"}), NEW e \in {"nil", "error"}, errCh' = Append(errCh, e)
    PROVE  errCh' \in Seq({"nil", "error"}) /\ Len(errCh') = Len(errCh) + 1 /\ Len(errCh) \in Nat
OBVIOUS

LEMMA WorkerStep == ASSUME IInv, WorkerReturns PROVE IInv'
<1>1. /\ worker = "running" /\ worker' = "stopped"
      /\ \E e \in {"nil", "error"} : errCh' = Append(errCh, e)
      /\ UNCHANGED <<main, failing, signal, ctxDone, db, migLock, temporal, broker, server, grace,
                     request, stream, activity, reachable, healthy, probe>>
  BY DEF WorkerReturns, resources, clients, health
<1>2. errCh' \in Seq({"nil", "error"}) /\ Len(errCh') = Len(errCh) + 1 /\ Len(errCh) \in Nat
  BY <1>1, Reported DEF IInv, TypeOK
<1>3. ErrChRoom' /\ Len(errCh') <= 3
  <2>1. /\ Serving("http")' = Serving("http") /\ Serving("metrics")' = Serving("metrics")
        /\ Working' = 0 /\ Working = 1
        /\ Serving("http") \in Nat /\ Serving("metrics") \in Nat
    BY <1>1 DEF Serving, Working
  <2>2. QED BY <1>2, <2>1 DEF IInv, ErrChRoom
<1>4. TypeOK'
  BY <1>1, <1>2, <1>3 DEF IInv, TypeOK
<1>5. NothingYet'
  BY <1>1 DEF IInv, NothingYet
<1>6. TemporalOpen' /\ DatabaseOpen' /\ ClosedIsIdle' /\ DrainedFirst' /\ BrokerUp' /\ MigratesAlone'
  BY <1>1 DEF IInv, TemporalOpen, DatabaseOpen, ClosedIsIdle, DrainedFirst, BrokerUp, MigratesAlone
<1>7. QED BY <1>3, <1>4, <1>5, <1>6 DEF IInv

LEMMA ServerStep ==
    ASSUME IInv, NEW s \in Servers, ServerFails(s) \/ ServerCloses(s)
    PROVE  IInv'
<1> USE DEF resources, clients, health
<1>1. /\ server' \in [Servers -> {"down", "serving", "failed", "closing", "closed"}]
      /\ server[s] \in {"serving", "closing"} /\ server'[s] \in {"failed", "closed"}
      /\ \A t \in Servers : t # s => server'[t] = server[t]
      /\ UNCHANGED <<main, failing, signal, ctxDone, db, migLock, temporal, broker, worker, grace,
                     request, stream, activity, reachable, healthy, probe>>
  BY DEF ServerFails, ServerCloses, IInv, TypeOK
<1>2. /\ errCh' \in Seq({"nil", "error"})
      /\ Len(errCh) \in Nat /\ Len(errCh') \in Nat
      /\ Len(errCh') + Serving(s)' = Len(errCh) + Serving(s)
  <2>1. CASE ServerFails(s)
    <3>1. errCh' = Append(errCh, "error") /\ Serving(s) = 1 /\ Serving(s)' = 0
      BY <2>1, <1>1 DEF ServerFails, Serving
    <3>2. QED BY <3>1, Reported DEF IInv, TypeOK
  <2>2. CASE ServerCloses(s)
    BY <2>2, <1>1 DEF ServerCloses, Serving, IInv, TypeOK
  <2>3. QED BY <2>1, <2>2
<1>3. ErrChRoom' /\ Len(errCh') <= 3
  <2>1. Working' = Working /\ Working \in Nat
    BY <1>1 DEF Working
  <2>2. \A t \in Servers : Serving(t) \in Nat /\ Serving(t)' \in Nat
    BY DEF Serving
  <2>3. \A t \in Servers : t # s => Serving(t)' = Serving(t)
    BY <1>1 DEF Serving
  <2>4. CASE s = "http"
    BY <1>2, <2>1, <2>2, <2>3, <2>4 DEF IInv, ErrChRoom, Servers
  <2>5. CASE s = "metrics"
    BY <1>2, <2>1, <2>2, <2>3, <2>5 DEF IInv, ErrChRoom, Servers
  <2>6. QED BY <2>4, <2>5 DEF Servers
<1>4. TypeOK'
  BY <1>1, <1>2, <1>3 DEF IInv, TypeOK
<1>5. NothingYet'
  BY <1>1 DEF IInv, NothingYet
<1>6. ClosedIsIdle'
  BY <1>1 DEF IInv, ClosedIsIdle, ServerFails, ServerCloses, Idle, Servers, TypeOK
<1>7. DrainedFirst' /\ BrokerUp'
  BY <1>1 DEF IInv, DrainedFirst, BrokerUp, ServerFails, ServerCloses, Servers
<1>8. TemporalOpen' /\ DatabaseOpen' /\ MigratesAlone'
  BY <1>1 DEF IInv, TemporalOpen, DatabaseOpen, MigratesAlone
<1>9. QED BY <1>3, <1>4, <1>5, <1>6, <1>7, <1>8 DEF IInv

-----------------------------------------------------------------------------
LEMMA IInvStep == ASSUME IInv, [Next]_vars PROVE IInv'
<1>1. CASE Run
  BY <1>1, MigrationStep, OpeningStep, StartStep, WaitStep, UnreadyStep, ClosingStep, ExitStep DEF Run
<1>2. CASE \/ RecycleSession \/ OtherReplicaMigrates \/ Signal \/ CancelContext
           \/ TemporalComesOrGoes \/ Check \/ Checked \/ SetHealthy \/ GraceExpires
           \/ \E a \in Activities : ActivityBegins(a) \/ ActivityEnds(a)
  BY <1>2, SurroundingStep
<1>3. CASE WorkerReturns
  BY <1>3, WorkerStep
<1>4. CASE \E s \in Servers : ServerFails(s) \/ ServerCloses(s)
  BY <1>4, ServerStep
<1>5. CASE \/ \E r \in Requests : RequestBegins(r) \/ RequestEnds(r)
           \/ \E c \in Streams : StreamBegins(c) \/ StreamEnds(c)
  BY <1>5, ClientStep
<1>6. CASE UNCHANGED vars
  <2> USE <1>6 DEF vars, resources, clients, health, IInv
  <2>1. TypeOK'
    BY DEF TypeOK
  <2>2. ErrChRoom' /\ NothingYet' /\ TemporalOpen'
    BY DEF ErrChRoom, Serving, Working, NothingYet, TemporalOpen
  <2>3. DatabaseOpen' /\ ClosedIsIdle' /\ DrainedFirst' /\ BrokerUp' /\ MigratesAlone'
    BY DEF DatabaseOpen, ClosedIsIdle, DrainedFirst, BrokerUp, MigratesAlone
  <2>4. QED BY <2>1, <2>2, <2>3
<1>7. QED BY <1>1, <1>2, <1>3, <1>4, <1>5, <1>6 DEF Next

\* What the shutdown, the migration and errCh rely on, in every reachable state.
THEOREM ProcessIInv == Spec => []IInv
<1>1. Init => IInv BY InitIInv
<1>2. IInv /\ [Next]_vars => IInv' BY IInvStep
<1>3. QED BY <1>1, <1>2, PTL DEF Spec

\* The process keeps its types; errCh never holds more than its three reporters sent.
THEOREM ProcessTypeOK == Spec => []TypeOK
<1>1. IInv => TypeOK BY DEF IInv
<1>2. QED BY <1>1, ProcessIInv, PTL

\* The DDL and the DML of MigrateSchema run in one replica at a time.
THEOREM ProcessMigratesAlone == Spec => []MigratesAlone
<1>1. IInv => MigratesAlone BY DEF IInv
<1>2. QED BY <1>1, ProcessIInv, PTL

\* A shutdown without an error stops the broker and closes the Temporal client with no
\* request and no stream open, unless the grace period was over first; activities may run.
THEOREM ProcessRequestsDrained == Spec => []RequestsDrained
<1>1. IInv => RequestsDrained
  <2> SUFFICES ASSUME IInv, ~failing, grace, main # "exited",
                      broker = "stopped" \/ (main \notin Startup /\ temporal = "closed")
               PROVE  /\ \A r \in Requests : ~request[r]
                      /\ \A c \in Streams : ~stream[c]
    BY DEF RequestsDrained
  <2>1. main \in {"closeTemporal", "closeDB"}
    BY DEF IInv, BrokerUp, TemporalOpen, Startup, Migration
  <2>2. server["http"] = "closed"
    BY <2>1 DEF IInv, DrainedFirst, Defers
  <2>3. QED BY <2>2 DEF IInv, ClosedIsIdle
<1>2. QED BY <1>1, ProcessIInv, PTL

-----------------------------------------------------------------------------
(***************************************************************************)
(* The kill-switch.                                                        *)
(***************************************************************************)
\* Requests live in a serving process only.
OnlyWhenServing ==
    ~serving => /\ \A t \in Toggles : toggle[t].pc = "idle"
                /\ \A h \in Hooks : hook[h].pc = "idle"

Toggle  == [pc : {"idle", "persist", "cache"}, value : BOOLEAN, opposed : BOOLEAN]
Written(value) == IF value THEN "true" ELSE "false"

\* All toggles under way next to one that is unopposed ask for what it asks for.
OpposedSeen ==
    \A t, u \in Toggles :
        (toggle[t].pc # "idle" /\ toggle[u].pc # "idle" /\ ~toggle[t].opposed)
            => toggle[u].value = toggle[t].value

\* Between the two steps of an unopposed toggle the row holds its value.
PersistedFirst ==
    \A t \in Toggles :
        (toggle[t].pc = "cache" /\ ~toggle[t].opposed) => row = Written(toggle[t].value)

\* What a request was promised still stands; nobody is asking for the opposite.
PromisesStand ==
    /\ \A h \in Hooks : hook[h].promise \in {"nothing", promise}
    /\ \A t \in Toggles : toggle[t].pc # "idle" => promise # Promised(~toggle[t].value)

\* A promise is kept in the row, so a restart finds it.
PromiseInRow ==
    /\ promise = "paused" => row = "false"
    /\ promise = "resumed" => row = "true"

\* Holds whatever writes and reads fail.
SwitchInv ==
    /\ SwitchTypeOK
    /\ OnlyWhenServing
    /\ OpposedSeen
    /\ PersistedFirst
    /\ PromisesStand
    /\ PromiseInRow
    /\ serving /\ promise = "resumed" => cache

\* The cache follows the row except between the two steps and after a fault: whoever is
\* about to write the cache is about to write what the row holds.
CacheFollows ==
    /\ serving /\ failed = {} =>
          /\ \A t \in Toggles : toggle[t].pc = "cache" => row = Written(toggle[t].value)
          /\ (\A t \in Toggles : toggle[t].pc # "cache") => cache = (row # "false")
    /\ serving /\ "loadFails" \notin failed /\ promise = "paused" => ~cache

\* The two promises differ, and both differ from none.
LEMMA PromiseValues ==
    \A value \in BOOLEAN :
        /\ Promised(value) \in Promises
        /\ Promised(value) # "nothing"
        /\ Promised(value) # Promised(~value)
        /\ \A p \in Promises : Withdraw(p, value) \in Promises \ {Promised(~value)}
        /\ \A p \in Promises : Withdraw(p, value) \in {"nothing", p}
BY DEF Promised, Promises, Withdraw

\* The migrated table, before the process starts, satisfies the invariants.
LEMMA InitSwitch == SwitchInit => SwitchInv /\ CacheFollows /\ PauseHonoured
<1> SUFFICES ASSUME SwitchInit PROVE SwitchInv /\ CacheFollows /\ PauseHonoured
  OBVIOUS
<1>1. SwitchTypeOK
  BY DEF SwitchInit, SwitchTypeOK, Promises, IdleToggle, IdleHook
<1>2. /\ \A t \in Toggles : toggle[t].pc = "idle"
      /\ \A h \in Hooks : hook[h].pc = "idle" /\ hook[h].promise = "nothing"
      /\ row = "none" /\ cache = TRUE /\ serving = FALSE /\ promise = "nothing"
  BY DEF SwitchInit, IdleToggle, IdleHook
<1>3. OnlyWhenServing /\ PersistedFirst /\ PromisesStand /\ PromiseInRow
  BY <1>2 DEF OnlyWhenServing, PersistedFirst, PromisesStand, PromiseInRow
<1>4. OpposedSeen
  BY <1>2 DEF OpposedSeen
<1>5. QED
  BY <1>1, <1>2, <1>3, <1>4 DEF SwitchInv, CacheFollows, PauseHonoured

\* Asking starts one toggle, and opposes it and those under way for the other value.
LEMMA Asked ==
    ASSUME SwitchTypeOK, NEW t \in Toggles, NEW value \in BOOLEAN, Ask(t, value)
    PROVE  /\ toggle' \in [Toggles -> Toggle]
           /\ toggle[t].pc = "idle" /\ toggle'[t].pc = "persist" /\ toggle'[t].value = value
           /\ \A u \in Toggles \ {t} : /\ toggle'[u].pc = toggle[u].pc
                                       /\ toggle'[u].value = toggle[u].value
                                       /\ ~toggle'[u].opposed => ~toggle[u].opposed
           /\ \A u \in Toggles \ {t} :
                 (toggle[u].pc # "idle" /\ toggle[u].value # value)
                     => toggle'[t].opposed /\ toggle'[u].opposed
<1>0. \A u \in Toggles : toggle[u] \in Toggle
  BY DEF SwitchTypeOK, Toggle
<1>1. toggle' = [u \in Toggles |->
                    IF u = t
                    THEN [pc |-> "persist", value |-> value, opposed |-> Against(value) # {}]
                    ELSE [toggle[u] EXCEPT !.opposed = toggle[u].opposed \/ u \in Against(value)]]
  BY DEF Ask
<1>2. toggle'[t] = [pc |-> "persist", value |-> value, opposed |-> Against(value) # {}]
  BY <1>1
<1>3. (Against(value) # {}) \in BOOLEAN
  OBVIOUS
<1>4. toggle'[t] \in Toggle /\ toggle'[t].pc = "persist" /\ toggle'[t].value = value
      /\ toggle'[t].opposed = (Against(value) # {})
  BY <1>2, <1>3 DEF Toggle
<1>5. ASSUME NEW u \in Toggles \ {t}
      PROVE  /\ toggle'[u] \in Toggle
             /\ toggle'[u].pc = toggle[u].pc /\ toggle'[u].value = toggle[u].value
             /\ toggle'[u].opposed = (toggle[u].opposed \/ u \in Against(value))
  <2>1. toggle'[u] = [toggle[u] EXCEPT !.opposed = toggle[u].opposed \/ u \in Against(value)]
    BY <1>1
  <2>2. (toggle[u].opposed \/ u \in Against(value)) \in BOOLEAN
    OBVIOUS
  <2>3. QED BY <1>0, <2>1, <2>2 DEF Toggle
<1>6. toggle' \in [Toggles -> Toggle]
  <2>1. \A u \in Toggles : toggle'[u] \in Toggle
    BY <1>4, <1>5
  <2>2. toggle' = [u \in Toggles |-> toggle'[u]]
    BY <1>1
  <2>3. QED BY <2>1, <2>2
<1>7. ASSUME NEW u \in Toggles \ {t}, toggle[u].pc # "idle", toggle[u].value # value
      PROVE  toggle'[t].opposed /\ toggle'[u].opposed
  <2>1. u \in Against(value)
    BY <1>7 DEF Against
  <2>2. QED BY <1>4, <1>5, <2>1
<1>8. \A u \in Toggles \ {t} : ~toggle'[u].opposed => ~toggle[u].opposed
  BY <1>5
<1>9. QED BY <1>4, <1>5, <1>6, <1>7, <1>8 DEF Ask

\* A toggle's request withdraws the opposite promise from the process and from the
\* requests in flight.
LEMMA AskSwitch ==
    ASSUME SwitchInv, NEW t \in Toggles, NEW value \in BOOLEAN, Ask(t, value)
    PROVE  SwitchInv'
<1>0. /\ promise \in Promises
      /\ \A h \in Hooks : hook[h] \in [pc : {"idle", "gate", "start"}, promise : Promises]
  BY DEF SwitchInv, SwitchTypeOK
<1>1. /\ promise' = Withdraw(promise, value)
      /\ hook' = [h \in Hooks |-> [hook[h] EXCEPT !.promise = Withdraw(hook[h].promise, value)]]
      /\ serving /\ UNCHANGED <<row, cache, serving, failed>>
  BY DEF Ask
<1>2. promise' \in Promises \ {Promised(~value)} /\ promise' \in {"nothing", promise}
  BY <1>0, <1>1, PromiseValues
<1>3. \A h \in Hooks : /\ hook'[h].pc = hook[h].pc
                       /\ hook'[h].promise = Withdraw(hook[h].promise, value)
                       /\ hook'[h] \in [pc : {"idle", "gate", "start"}, promise : Promises]
  BY <1>0, <1>1, PromiseValues
<1>a. /\ toggle' \in [Toggles -> Toggle]
      /\ toggle[t].pc = "idle" /\ toggle'[t].pc = "persist" /\ toggle'[t].value = value
      /\ \A u \in Toggles \ {t} : /\ toggle'[u].pc = toggle[u].pc
                                  /\ toggle'[u].value = toggle[u].value
                                  /\ ~toggle'[u].opposed => ~toggle[u].opposed
  BY Asked DEF SwitchInv
<1>4. SwitchTypeOK'
  BY <1>1, <1>2, <1>3, <1>a DEF SwitchInv, SwitchTypeOK, Toggle
<1>6. \A h \in Hooks : hook'[h].promise \in {"nothing", promise'}
  BY <1>0, <1>1, <1>3 DEF SwitchInv, PromisesStand, Withdraw
<1>7. \A u \in Toggles : toggle'[u].pc # "idle" => promise' # Promised(~toggle'[u].value)
  <2>1. \A u \in Toggles : Promised(~toggle[u].value) # "nothing"
    BY DEF Promised
  <2>2. QED BY <1>2, <1>a, <2>1 DEF SwitchInv, PromisesStand
<1>8. OnlyWhenServing'
  BY <1>1 DEF OnlyWhenServing
<1>9. PersistedFirst'
  BY <1>1, <1>a DEF SwitchInv, PersistedFirst
<1>10. OpposedSeen'
  <2> SUFFICES ASSUME NEW u \in Toggles, NEW w \in Toggles, toggle'[u].pc # "idle",
                      toggle'[w].pc # "idle", ~toggle'[u].opposed
               PROVE  toggle'[w].value = toggle'[u].value
    BY DEF OpposedSeen
  <2>1. CASE u = t /\ w = t
    BY <2>1
  <2>2. CASE u = t /\ w # t
    BY <2>2, <1>a, Asked DEF SwitchInv
  <2>3. CASE u # t /\ w = t
    BY <2>3, <1>a, Asked DEF SwitchInv
  <2>4. CASE u # t /\ w # t
    BY <2>4, <1>a DEF SwitchInv, OpposedSeen
  <2>5. QED BY <2>1, <2>2, <2>3, <2>4
<1>11. PromiseInRow' /\ (serving' /\ promise' = "resumed" => cache')
  BY <1>1, <1>2 DEF SwitchInv, PromiseInRow
<1>12. QED
  BY <1>4, <1>6, <1>7, <1>8, <1>9, <1>10, <1>11 DEF SwitchInv, PromisesStand

\* The other steps of a toggle change nothing of the others; it goes on with its value or
\* is over.
LEMMA Toggled ==
    ASSUME SwitchTypeOK, NEW t \in Toggles, Persist(t) \/ PersistFails(t) \/ Cache(t)
    PROVE  /\ toggle' \in [Toggles -> Toggle]
           /\ \A u \in Toggles \ {t} : toggle'[u] = toggle[u]
           /\ toggle[t].pc # "idle"
           /\ \/ toggle'[t].pc = "idle"
              \/ /\ Persist(t) /\ toggle'[t].pc = "cache"
                 /\ toggle'[t].value = toggle[t].value /\ toggle'[t].opposed = toggle[t].opposed
<1>1. toggle \in [Toggles -> Toggle] /\ IdleToggle \in Toggle /\ IdleToggle.pc = "idle"
  BY DEF SwitchTypeOK, Toggle, IdleToggle
<1>2. CASE toggle' = [toggle EXCEPT ![t] = IdleToggle]
  <2>1. toggle' \in [Toggles -> Toggle] /\ toggle'[t].pc = "idle"
        /\ \A u \in Toggles \ {t} : toggle'[u] = toggle[u]
    BY <1>1, <1>2
  <2>2. toggle[t].pc # "idle"
    BY DEF Persist, PersistFails, Cache
  <2>3. QED BY <2>1, <2>2
<1>3. CASE Persist(t) /\ toggle' = [toggle EXCEPT ![t].pc = "cache"]
  <2>1. [toggle[t] EXCEPT !.pc = "cache"] \in Toggle
    BY <1>1 DEF Toggle
  <2>2. toggle' = [toggle EXCEPT ![t] = [toggle[t] EXCEPT !.pc = "cache"]]
    BY <1>3
  <2>3. toggle' \in [Toggles -> Toggle]
    BY <1>1, <2>1, <2>2
  <2>4. /\ toggle'[t].pc = "cache"
        /\ toggle'[t].value = toggle[t].value /\ toggle'[t].opposed = toggle[t].opposed
        /\ \A u \in Toggles \ {t} : toggle'[u] = toggle[u]
    BY <1>1, <2>2 DEF Toggle
  <2>5. QED BY <1>3, <2>3, <2>4 DEF Persist
<1>4. QED BY <1>2, <1>3 DEF Persist, PersistFails, Cache, Answer

\* Persisting, failing and answering keep the invariant.
LEMMA ToggleSwitch ==
    ASSUME SwitchInv, NEW t \in Toggles, Persist(t) \/ PersistFails(t) \/ Cache(t)
    PROVE  SwitchInv'
<1>0. /\ \A u \in Toggles : toggle[u].value \in BOOLEAN
      /\ promise \in Promises /\ serving
      /\ toggle[t].pc # "idle"
  BY Toggled DEF SwitchInv, SwitchTypeOK, OnlyWhenServing
<1>1. /\ toggle' \in [Toggles -> Toggle]
      /\ \A u \in Toggles \ {t} : toggle'[u] = toggle[u]
      /\ \/ toggle'[t].pc = "idle"
         \/ /\ Persist(t) /\ toggle'[t].pc = "cache"
            /\ toggle'[t].value = toggle[t].value /\ toggle'[t].opposed = toggle[t].opposed
  BY Toggled DEF SwitchInv
<1>2. UNCHANGED <<serving, hook>>
  BY DEF Persist, PersistFails, Cache
<1>3. OnlyWhenServing'
  BY <1>0, <1>2 DEF OnlyWhenServing
<1>4. OpposedSeen'
  BY <1>0, <1>1 DEF SwitchInv, OpposedSeen
<1>5. CASE Persist(t)
  <2>1. row' = Written(toggle[t].value) /\ UNCHANGED <<cache, promise>>
        /\ failed' \subseteq failed \cup {"lostAck", "crossed"}
    BY <1>5 DEF Persist, Written, Crossing
  <2>2. SwitchTypeOK'
    BY <1>1, <1>2, <2>1 DEF SwitchInv, SwitchTypeOK, Written, Toggle
  <2>3. PersistedFirst'
    BY <1>0, <1>1, <2>1 DEF SwitchInv, OpposedSeen, PersistedFirst
  <2>4. PromisesStand'
    BY <1>0, <1>1, <1>2, <2>1 DEF SwitchInv, PromisesStand
  <2>5. promise # Promised(~toggle[t].value)
    BY <1>0 DEF SwitchInv, PromisesStand
  <2>6. PromiseInRow'
    BY <1>0, <2>1, <2>5 DEF PromiseInRow, Promised, Written
  <2>7. QED
    BY <1>2, <1>3, <1>4, <2>1, <2>2, <2>3, <2>4, <2>6 DEF SwitchInv
<1>6. CASE PersistFails(t)
  <2>1. UNCHANGED <<row, cache, failed, promise>>
    BY <1>6 DEF PersistFails
  <2>2. SwitchTypeOK'
    BY <1>1, <1>2, <2>1 DEF SwitchInv, SwitchTypeOK, Toggle
  <2>a. toggle'[t].pc = "idle"
    BY <1>6 DEF PersistFails, SwitchInv, SwitchTypeOK, IdleToggle
  <2>3. PersistedFirst' /\ PromisesStand' /\ PromiseInRow'
    BY <1>1, <1>2, <2>1, <2>a DEF SwitchInv, PersistedFirst, PromisesStand, PromiseInRow
  <2>4. QED
    BY <1>2, <1>3, <1>4, <2>1, <2>2, <2>3 DEF SwitchInv
<1>7. CASE Cache(t)
  <2>1. cache' = toggle[t].value /\ row' = row /\ toggle'[t].pc = "idle"
        /\ failed' \subseteq failed
    BY <1>1, <1>7 DEF Cache, Answer, Persist
  <2>2. \/ toggle[t].opposed /\ promise' = promise
        \/ ~toggle[t].opposed /\ promise' = Promised(toggle[t].value)
    BY <1>7 DEF Cache, Answer
  <2>3. promise # Promised(~toggle[t].value)
    BY <1>0 DEF SwitchInv, PromisesStand
  <2>4. promise' \in Promises /\ promise \in {"nothing", promise'}
    BY <1>0, <2>2, <2>3 DEF Promises, Promised
  <2>5. SwitchTypeOK'
    BY <1>0, <1>1, <1>2, <2>1, <2>4 DEF SwitchInv, SwitchTypeOK, Toggle
  <2>6. PersistedFirst'
    BY <1>1, <2>1 DEF SwitchInv, PersistedFirst
  <2>7. PromisesStand'
    <3>1. \A h \in Hooks : hook'[h].promise \in {"nothing", promise'}
      BY <1>2, <2>4 DEF SwitchInv, PromisesStand
    <3>2. ASSUME NEW u \in Toggles, toggle'[u].pc # "idle"
          PROVE  promise' # Promised(~toggle'[u].value)
      <4>1. u # t /\ toggle'[u] = toggle[u]
        BY <1>1, <2>1, <3>2
      <4>2. CASE promise' = promise
        BY <4>1, <4>2, <3>2 DEF SwitchInv, PromisesStand
      <4>3. CASE ~toggle[t].opposed /\ promise' = Promised(toggle[t].value)
        <5>1. toggle[u].value = toggle[t].value
          BY <1>0, <3>2, <4>1, <4>3 DEF SwitchInv, OpposedSeen
        <5>2. QED BY <1>0, <4>1, <4>3, <5>1, PromiseValues
      <4>4. QED BY <2>2, <4>2, <4>3
    <3>3. QED BY <3>1, <3>2 DEF PromisesStand
  <2>8. PromiseInRow'
    <3>1. CASE promise' = promise
      BY <2>1, <3>1 DEF SwitchInv, PromiseInRow
    <3>2. CASE ~toggle[t].opposed /\ promise' = Promised(toggle[t].value)
      <4>1. row' = Written(toggle[t].value)
        BY <1>7, <2>1, <3>2 DEF Cache, SwitchInv, PersistedFirst
      <4>2. QED BY <1>0, <3>2, <4>1 DEF PromiseInRow, Promised, Written
    <3>3. QED BY <2>2, <3>1, <3>2
  <2>9. promise' = "resumed" => cache'
    BY <1>0, <2>1, <2>2, <2>3 DEF Promised
  <2>10. QED
    BY <1>2, <1>3, <1>4, <2>5, <2>6, <2>7, <2>8, <2>9 DEF SwitchInv
<1>8. QED
  BY <1>5, <1>6, <1>7

\* A start takes the row's value, where a missing row means enabled, or the default.
LEMMA BootReads ==
    ASSUME SwitchTypeOK, Boot
    PROVE  /\ ~serving /\ serving' = TRUE /\ UNCHANGED <<row, toggle, hook, promise>>
           /\ \/ (row = "false" => cache' = FALSE) /\ (row # "false" => cache' = TRUE) /\ failed' = {}
              \/ cache' = TRUE /\ failed' = {"loadFails"}
<1>1. row \in {"none", "true", "false"}
  BY DEF SwitchTypeOK
<1>2. (row \in {"none", "true"}) = (row # "false")
  BY <1>1
<1>3. CASE cache' = (row \in {"none", "true"}) /\ failed' = {}
  BY <1>2, <1>3 DEF Boot
<1>4. CASE cache' = TRUE /\ failed' = {"loadFails"}
  BY <1>4 DEF Boot
<1>5. QED
  BY <1>3, <1>4 DEF Boot

\* So do a start, a crash and the webhook's steps.
LEMMA OtherSwitch ==
    ASSUME SwitchInv, Boot \/ Crash \/ (\E h \in Hooks : HandleFiring(h)) \/ UNCHANGED switchVars
    PROVE  SwitchInv'
<1> USE DEF SwitchInv, SwitchTypeOK, OnlyWhenServing, OpposedSeen, PersistedFirst, PromisesStand,
            PromiseInRow
<1>1. CASE Boot
  <2>1. SwitchTypeOK'
    BY <1>1, BootReads
  <2>2. (OnlyWhenServing /\ OpposedSeen /\ PersistedFirst /\ PromisesStand /\ PromiseInRow)'
    BY <1>1, BootReads
  <2>3. promise' = "resumed" => cache' = TRUE
    BY <1>1, BootReads
  <2>4. QED
    BY <2>1, <2>2, <2>3
<1>2. CASE Crash
  BY <1>2 DEF Crash, IdleToggle, IdleHook, Promises
<1>3. ASSUME NEW h \in Hooks, HandleFiring(h) PROVE SwitchInv'
  <2>1. hook[h] \in [pc : {"idle", "gate", "start"}, promise : Promises]
    OBVIOUS
  <2>2. /\ serving /\ UNCHANGED <<row, cache, serving, toggle, failed, promise>>
        /\ \A g \in Hooks \ {h} : hook'[g] = hook[g]
    BY <1>3 DEF HandleFiring, Arrive, WorkflowsEnabled, StartRun
  <2>3. /\ hook' \in [Hooks -> [pc : {"idle", "gate", "start"}, promise : Promises]]
        /\ hook'[h].promise \in {"nothing", promise, hook[h].promise}
    BY <1>3, <2>1 DEF HandleFiring, Arrive, WorkflowsEnabled, StartRun, IdleHook, Promises
  <2>4. QED
    BY <2>2, <2>3
<1>4. CASE UNCHANGED switchVars
  BY <1>4 DEF switchVars
<1>5. QED
  BY <1>1, <1>2, <1>3, <1>4

\* The invariant is inductive, however toggles overlap.
LEMMA NextSwitch == SwitchInv /\ [SwitchNext]_switchVars => SwitchInv'
BY AskSwitch, ToggleSwitch, OtherSwitch DEF SwitchNext, SetWorkflowsEnabled

\* Steps keep the cache at the row's value, and a pause closed, until a fault.
LEMMA NextFollows ==
    ASSUME SwitchInv, CacheFollows, PauseHonoured, [SwitchNext]_switchVars
    PROVE  CacheFollows' /\ PauseHonoured'
<1>0. /\ \A t \in Toggles : toggle[t].value \in BOOLEAN
      /\ hook \in [Hooks -> [pc : {"idle", "gate", "start"}, promise : Promises]]
      /\ promise \in Promises
      /\ \A h \in Hooks : hook[h].promise \in {"nothing", promise}
      /\ row \in {"none", "true", "false"}
  BY DEF SwitchInv, SwitchTypeOK, PromisesStand
<1>1. CASE Boot
  <2>1. /\ SwitchTypeOK /\ (promise = "paused" => row = "false")
        /\ \A h \in Hooks : hook[h].pc = "idle"
        /\ \A t \in Toggles : toggle[t].pc = "idle"
    BY <1>1 DEF Boot, SwitchInv, OnlyWhenServing, PromiseInRow
  <2>2. PauseHonoured'
    BY <1>1, <2>1, BootReads DEF PauseHonoured
  <2>3. CASE cache' = TRUE /\ failed' = {"loadFails"}
    <3>1. failed' # {} /\ "loadFails" \in failed'
      BY <2>3
    <3>2. QED
      BY <2>2, <3>1 DEF CacheFollows
  <2>4. CASE (row = "false" => cache' = FALSE) /\ (row # "false" => cache' = TRUE) /\ failed' = {}
    <3>1. row' = row /\ promise' = promise
      BY <1>1, <2>1, BootReads
    <3>2. cache' = (row' # "false")
      BY <2>4, <3>1
    <3>3. promise' = "paused" => ~cache'
      BY <2>1, <2>4, <3>1
    <3>4. \A t \in Toggles : toggle'[t].pc = "idle"
      BY <1>1, <2>1, BootReads
    <3>5. CacheFollows'
      BY <3>2, <3>3, <3>4 DEF CacheFollows
    <3>6. QED
      BY <2>2, <3>5
  <2>5. QED
    BY <1>1, <2>1, <2>2, <2>3, <2>4, BootReads
<1>2. CASE Crash
  BY <1>2 DEF Crash, CacheFollows, PauseHonoured, IdleHook
<1>3. ASSUME NEW t \in Toggles, NEW value \in BOOLEAN, Ask(t, value)
      PROVE  CacheFollows' /\ PauseHonoured'
  <2>1. promise' \in {"nothing", promise} /\ UNCHANGED <<row, cache, serving, failed>>
    BY <1>0, <1>3, PromiseValues DEF Ask
  <2>2. \A h \in Hooks : hook'[h].pc = hook[h].pc /\ hook'[h].promise \in {"nothing", hook[h].promise}
    BY <1>0, <1>3, PromiseValues DEF Ask
  <2>3. /\ toggle[t].pc = "idle" /\ toggle'[t].pc = "persist"
        /\ \A u \in Toggles \ {t} : toggle'[u].pc = toggle[u].pc /\ toggle'[u].value = toggle[u].value
    BY <1>3, Asked DEF SwitchInv
  <2>4. ASSUME NEW u \in Toggles
        PROVE  /\ (toggle'[u].pc = "cache") <=> (toggle[u].pc = "cache")
               /\ toggle'[u].pc = "cache" => toggle'[u].value = toggle[u].value
    BY <2>3
  <2>5. serving' /\ failed' = {} =>
           /\ \A u \in Toggles : toggle'[u].pc = "cache" => row' = Written(toggle'[u].value)
           /\ (\A u \in Toggles : toggle'[u].pc # "cache") => cache' = (row' # "false")
    <3>1. SUFFICES ASSUME serving, failed = {}
                   PROVE  /\ \A u \in Toggles : toggle'[u].pc = "cache" => row = Written(toggle'[u].value)
                          /\ (\A u \in Toggles : toggle'[u].pc # "cache") => cache = (row # "false")
      BY <2>1
    <3>2. \A u \in Toggles : toggle'[u].pc = "cache" => row = Written(toggle'[u].value)
      BY <2>4, <3>1 DEF CacheFollows
    <3>3. (\A u \in Toggles : toggle[u].pc # "cache") => cache = (row # "false")
      BY <3>1 DEF CacheFollows
    <3>4. (\A u \in Toggles : toggle'[u].pc # "cache") => (\A u \in Toggles : toggle[u].pc # "cache")
      BY <2>4
    <3>5. QED BY <3>2, <3>3, <3>4, Zenon
  <2>6. serving' /\ "loadFails" \notin failed' /\ promise' = "paused" => ~cache'
    BY <2>1 DEF CacheFollows
  <2>7. QED
    BY <2>1, <2>2, <2>5, <2>6 DEF PauseHonoured, CacheFollows
<1>4. ASSUME NEW t \in Toggles, Persist(t) PROVE CacheFollows' /\ PauseHonoured'
  <2>1. row' = Written(toggle[t].value) /\ UNCHANGED <<cache, serving, hook, promise>>
        /\ ("loadFails" \in failed' <=> "loadFails" \in failed) /\ failed \subseteq failed'
    BY <1>4 DEF Persist, Written, Crossing
  <2>2. ASSUME failed' = {}, serving
        PROVE  /\ toggle'[t].pc = "cache" /\ toggle'[t].value = toggle[t].value
               /\ \A u \in Toggles : toggle'[u].pc = "cache" => toggle'[u].value = toggle[t].value
    <3>1. Crossing(t) = {} /\ toggle' = [toggle EXCEPT ![t].pc = "cache"]
      BY <1>4, <2>2 DEF Persist
    <3>2. \A u \in Toggles : toggle[u].pc = "cache" => toggle[u].value = toggle[t].value
      BY <3>1 DEF Crossing, Against
    <3>3. toggle'[t].pc = "cache"
      BY <3>1 DEF SwitchInv, SwitchTypeOK
    <3>4. /\ toggle'[t].value = toggle[t].value
          /\ \A u \in Toggles \ {t} : toggle'[u] = toggle[u]
      BY <1>4, <3>3, Toggled DEF SwitchInv
    <3>5. QED BY <3>2, <3>3, <3>4
  <2>3. CacheFollows'
    BY <2>1, <2>2 DEF CacheFollows
  <2>4. QED BY <2>1, <2>3 DEF PauseHonoured
<1>5. ASSUME NEW t \in Toggles, PersistFails(t) PROVE CacheFollows' /\ PauseHonoured'
  <2>1. UNCHANGED <<row, cache, serving, hook, failed, promise>> /\ toggle[t].pc = "persist"
    BY <1>5 DEF PersistFails
  <2>2. toggle'[t].pc = "idle" /\ \A u \in Toggles \ {t} : toggle'[u] = toggle[u]
    BY <1>5, Toggled DEF SwitchInv, SwitchTypeOK, PersistFails, IdleToggle
  <2>3. CacheFollows'
    BY <2>1, <2>2 DEF CacheFollows
  <2>4. QED BY <2>1, <2>3 DEF PauseHonoured
<1>6. ASSUME NEW t \in Toggles, Cache(t) PROVE CacheFollows' /\ PauseHonoured'
  <2>1. /\ cache' = toggle[t].value /\ UNCHANGED <<row, serving, hook>>
        /\ toggle[t].pc = "cache"
        /\ "loadFails" \in failed' <=> "loadFails" \in failed
    BY <1>6 DEF Cache, Answer
  <2>2. toggle'[t].pc = "idle" /\ \A u \in Toggles \ {t} : toggle'[u] = toggle[u]
    BY <1>6, Toggled DEF SwitchInv, SwitchTypeOK, Cache, Answer, IdleToggle
  <2>3. promise' = "paused" => ~cache'
    <3>1. promise # Promised(~toggle[t].value)
      BY <2>1 DEF SwitchInv, PromisesStand
    <3>2. promise' = promise \/ promise' = Promised(toggle[t].value)
      BY <1>6 DEF Cache, Answer
    <3>3. QED BY <1>0, <2>1, <3>1, <3>2 DEF Promised
  <2>4. ASSUME failed' = {}, serving
        PROVE  /\ row = Written(toggle[t].value)
               /\ \A u \in Toggles : toggle'[u].pc = "cache" => row = Written(toggle[u].value)
    <3>1. CASE toggle[t].opposed
      <4>1. failed = {}
        BY <1>6, <2>4, <3>1 DEF Cache, Answer
      <4>2. QED BY <2>1, <2>2, <2>4, <4>1 DEF CacheFollows
    <3>2. CASE ~toggle[t].opposed
      <4>1. row = Written(toggle[t].value)
        BY <2>1, <3>2 DEF SwitchInv, PersistedFirst
      <4>2. \A u \in Toggles : toggle[u].pc = "cache" => toggle[u].value = toggle[t].value
        BY <2>1, <3>2 DEF SwitchInv, OpposedSeen
      <4>3. QED BY <2>2, <4>1, <4>2
    <3>3. QED BY <3>1, <3>2
  <2>5. failed' = {} /\ serving => cache' = (row # "false")
    BY <1>0, <2>1, <2>4 DEF Written
  <2>6. CacheFollows'
    BY <2>1, <2>2, <2>3, <2>4, <2>5 DEF CacheFollows
  <2>7. QED BY <2>1, <2>6 DEF PauseHonoured
<1>7. ASSUME NEW h \in Hooks, HandleFiring(h) PROVE CacheFollows' /\ PauseHonoured'
  <2>1. UNCHANGED <<row, cache, serving, toggle, failed, promise>> /\ serving
    BY <1>7 DEF HandleFiring, Arrive, WorkflowsEnabled, StartRun, SwitchInv, OnlyWhenServing
  <2>2. CacheFollows'
    BY <2>1 DEF CacheFollows
  <2>3. CASE WorkflowsEnabled(h)
    <3>1. cache /\ hook[h].promise = "paused" => "loadFails" \in failed
      BY <1>0, <2>1 DEF CacheFollows
    <3>2. \A g \in Hooks : \/ hook'[g] = hook[g] \/ hook'[g].pc # "start"
                           \/ hook'[g].promise # "paused" \/ "loadFails" \in failed
      BY <1>0, <2>3, <3>1 DEF WorkflowsEnabled, IdleHook
    <3>3. QED
      BY <2>1, <2>2, <3>2 DEF PauseHonoured
  <2>4. CASE Arrive(h) \/ StartRun(h)
    BY <1>0, <2>2, <2>4 DEF Arrive, StartRun, IdleHook, PauseHonoured
  <2>5. QED
    BY <1>7, <2>3, <2>4 DEF HandleFiring
<1>8. CASE UNCHANGED switchVars
  BY <1>8 DEF switchVars, CacheFollows, PauseHonoured
<1>9. QED
  BY <1>1, <1>2, <1>3, <1>4, <1>5, <1>6, <1>7, <1>8 DEF SwitchNext, SetWorkflowsEnabled

\* A firing that arrives after a confirmed pause starts no run, whatever crashes, in
\* a process that could read the row when it started: for any number of firings, and of
\* toggles that overlap as they like.
THEOREM KillSwitchPauseHonoured == SwitchSpec => []PauseHonoured
<1>1. SwitchInv /\ CacheFollows /\ PauseHonoured /\ [SwitchNext]_switchVars
         => (SwitchInv /\ CacheFollows /\ PauseHonoured)'
  BY NextSwitch, NextFollows
<1>2. QED
  BY <1>1, InitSwitch, PTL DEF SwitchSpec

\* The cache agrees with the row whenever no toggle is under way, except for the reasons
\* named in failed, and again once a toggle that nobody opposed was answered.
THEOREM KillSwitchCacheMatchesRow == SwitchSpec => []CacheMatchesRow
<1>1. SwitchInv /\ CacheFollows /\ PauseHonoured /\ [SwitchNext]_switchVars
         => (SwitchInv /\ CacheFollows /\ PauseHonoured)'
  BY NextSwitch, NextFollows
<1>2. CacheFollows => CacheMatchesRow
  BY DEF CacheFollows, CacheMatchesRow
<1>3. QED
  BY <1>1, <1>2, InitSwitch, PTL DEF SwitchSpec

\* A confirmed "resumed" holds even with those faults: reads that fail, fail open.
THEOREM KillSwitchResumeHonoured == SwitchSpec => []ResumeHonoured
<1>1. SwitchInv /\ [SwitchNext]_switchVars => SwitchInv'
  BY NextSwitch
<1>2. SwitchInv => ResumeHonoured
  BY DEF SwitchInv, SwitchTypeOK, OnlyWhenServing, PromisesStand, ResumeHonoured
<1>3. QED
  BY <1>1, <1>2, InitSwitch, PTL DEF SwitchSpec
=============================================================================
