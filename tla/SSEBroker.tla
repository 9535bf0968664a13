----------------------------- MODULE SSEBroker -----------------------------
(***************************************************************************)
(* How a committed change of an incident reaches the pages operators have  *)
(* open: the NOTIFY trigger, the broker's LISTEN connection, its dispatch  *)
(* loop, the debounced flush, one channel per /events client, and the      *)
(* page that fetches again; and how Stop takes the broker down.            *)
(* Every payload carries a state that chk_state allows, so every           *)
(* notification is dispatched as "incident-update".                        *)
(***************************************************************************)
EXTENDS Naturals, Sequences, FiniteSets

CONSTANTS
    Dashboards,     \* dashboard pages
    Details,        \* detail pages of incidents that await their diagnosis
    ChannelSize,    \* capacity of a client's channel
    MaxClients,     \* maxSSEClients
    NotifySize,     \* capacity of listener.Notify, on which the listener blocks
    MaxChanges      \* bound: changes committed

ASSUME BrokerAssumption ==
    /\ ChannelSize \in Nat \ {0}
    /\ MaxClients \in Nat
    /\ NotifySize \in Nat \ {0}
    /\ MaxChanges \in Nat

Clients == Dashboards \cup Details

VARIABLES
    version,    \* changes committed so far
    connected,  \* the LISTEN connection is up
    notify,     \* listener.Notify: changes, and nil for a reconnect
    pending,    \* pendingEvents holds an event
    armed,      \* debounceTimer runs
    fired,      \* timer callbacks that have not looked at pendingEvents yet
    sending,    \* flushes that took an event and have not broadcast it yet
    broker,     \* where Start, dispatchLoop and Stop stand
    page,       \* where each page stands
    chan,       \* the channel of each client
    seen,       \* the version each page shows
    owed        \* the last version committed while the page was subscribed

vars == <<version, connected, notify, pending, armed, fired, sending, broker,
          page, chan, seen, owed>>

Subscribed == {c \in Clients : page[c] = "subscribed"}

\* The templates' hx-trigger: which events make a page fetch again.
Reacts(c, event) == event = "incident-update" \/ (event = "refresh" /\ c \in Dashboards)

TypeOK ==
    /\ version \in 0..MaxChanges
    /\ connected \in BOOLEAN
    /\ notify \in Seq({"change", "nil"})
    /\ pending \in BOOLEAN /\ armed \in BOOLEAN
    /\ fired \in Nat /\ sending \in Nat
    /\ broker \in {"running", "cancelled", "flushing", "flushed", "stopped"}
    /\ page \in [Clients -> {"away", "loaded", "subscribed"}]
    /\ chan \in [Clients -> Seq({"incident-update", "refresh"})]
    /\ \A c \in Clients : Len(chan[c]) <= ChannelSize
    /\ seen \in [Clients -> Nat] /\ owed \in [Clients -> Nat]

-----------------------------------------------------------------------------
(* Postgres and the LISTEN connection.                                        *)

\* A row changes; the trigger notifies whoever listens at that moment.
Commit ==
    /\ version < MaxChanges
    /\ version' = version + 1
    /\ notify' = IF connected /\ broker # "stopped" THEN Append(notify, "change") ELSE notify
    /\ owed' = [c \in Clients |-> IF c \in Subscribed THEN version' ELSE owed[c]]
    /\ UNCHANGED <<connected, pending, armed, fired, sending, broker, page, chan, seen>>

Disconnect ==
    /\ connected
    /\ connected' = FALSE
    /\ UNCHANGED <<version, notify, pending, armed, fired, sending, broker, page, chan, seen,
                   owed>>

\* pq listens again before it sends nil.
Reconnect ==
    /\ ~connected
    /\ broker # "stopped"
    /\ Len(notify) < NotifySize
    /\ connected' = TRUE
    /\ notify' = Append(notify, "nil")
    /\ UNCHANGED <<version, pending, armed, fired, sending, broker, page, chan, seen, owed>>

-----------------------------------------------------------------------------
(* Broadcast and debounce.                                                    *)

Broadcast_Unbounded(event) ==
    chan' = [c \in Clients |->
                IF c \in Subscribed /\ broker # "stopped" THEN Append(chan[c], event) ELSE chan[c]]

\* Every client with room in its channel gets the event; after Stop there is none.
Broadcast(event) ==
    chan' = [c \in Clients |->
                IF c \in Subscribed /\ broker # "stopped" /\ Len(chan[c]) < ChannelSize
                THEN Append(chan[c], event) ELSE chan[c]]

DispatchLoop_IgnoresReconnect ==
    /\ broker \in {"running", "cancelled"}
    /\ notify # <<>>
    /\ notify' = Tail(notify)
    /\ IF Head(notify) = "nil" THEN UNCHANGED <<pending, armed>>
                               ELSE pending' = TRUE /\ armed' = TRUE
    /\ UNCHANGED <<version, connected, fired, sending, broker, page, chan, seen, owed>>

\* A reconnect is broadcast at once; a change is kept, and the timer starts anew.
DispatchLoop ==
    /\ broker \in {"running", "cancelled"}
    /\ notify # <<>>
    /\ notify' = Tail(notify)
    /\ \/ /\ Head(notify) = "nil"
          /\ Broadcast("refresh")
          /\ UNCHANGED <<pending, armed>>
       \/ /\ Head(notify) = "change"
          /\ pending' = TRUE
          /\ armed' = TRUE
          /\ UNCHANGED chan
    /\ UNCHANGED <<version, connected, fired, sending, broker, page, seen, owed>>

\* The debounce window is over: the callback gets a goroutine of its own.
TimerFires ==
    /\ armed
    /\ armed' = FALSE
    /\ fired' = fired + 1
    /\ UNCHANGED <<version, connected, notify, pending, sending, broker, page, chan, seen, owed>>

\* flushPendingEvents takes the events under debounceMu ...
FlushTakes ==
    /\ fired > 0
    /\ fired' = fired - 1
    /\ pending' = FALSE
    /\ sending' = IF pending THEN sending + 1 ELSE sending
    /\ UNCHANGED <<version, connected, notify, armed, broker, page, chan, seen, owed>>

FlushSends_NilUnchecked ==
    /\ sending > 0
    /\ sending' = sending - 1
    /\ chan' = [c \in Clients |-> IF Len(chan[c]) < ChannelSize
                                  THEN Append(chan[c], "incident-update") ELSE chan[c]]
    /\ UNCHANGED <<version, connected, notify, pending, armed, fired, broker, page, seen, owed>>

\* ... and broadcasts them after it let go of it.
FlushSends ==
    /\ sending > 0
    /\ sending' = sending - 1
    /\ Broadcast("incident-update")
    /\ UNCHANGED <<version, connected, notify, pending, armed, fired, broker, page, seen, owed>>

-----------------------------------------------------------------------------
(* Stop.                                                                      *)

Stop ==
    /\ broker = "running"
    /\ broker' = "cancelled"
    /\ UNCHANGED <<version, connected, notify, pending, armed, fired, sending, page, chan, seen,
                   owed>>

\* dispatchLoop sees the cancellation: it stops the timer and flushes what is pending.
LoopEnds ==
    /\ broker = "cancelled"
    /\ armed' = FALSE
    /\ pending' = FALSE
    /\ broker' = IF pending THEN "flushing" ELSE "flushed"
    /\ UNCHANGED <<version, connected, notify, fired, sending, page, chan, seen, owed>>

LoopFlushes ==
    /\ broker = "flushing"
    /\ broker' = "flushed"
    /\ Broadcast("incident-update")
    /\ UNCHANGED <<version, connected, notify, pending, armed, fired, sending, page, seen, owed>>

\* Stop closes the listener and every channel; a client reads what its channel still
\* holds before it finds it closed.
CloseClients ==
    /\ broker = "flushed"
    /\ broker' = "stopped"
    /\ connected' = FALSE
    /\ notify' = <<>>
    /\ UNCHANGED <<version, pending, armed, fired, sending, page, chan, seen, owed>>

-----------------------------------------------------------------------------
(* Pages.                                                                     *)

\* The server renders the page.
Load(c) ==
    /\ page[c] = "away"
    /\ page' = [page EXCEPT ![c] = "loaded"]
    /\ seen' = [seen EXCEPT ![c] = version]
    /\ UNCHANGED <<version, connected, notify, pending, armed, fired, sending, broker, chan, owed>>

\* GET /events.  The client is counted under the broker's mutex.
Subscribe(c) ==
    /\ page[c] = "loaded"
    /\ broker # "stopped"
    /\ Cardinality(Subscribed) < MaxClients
    /\ page' = [page EXCEPT ![c] = "subscribed"]
    /\ chan' = [chan EXCEPT ![c] = <<>>]
    /\ owed' = [owed EXCEPT ![c] = 0]
    /\ UNCHANGED <<version, connected, notify, pending, armed, fired, sending, broker, seen>>

\* An event reaches the page, which fetches what it shows if the event triggers it.
Receive(c) ==
    /\ c \in Subscribed
    /\ chan[c] # <<>>
    /\ chan' = [chan EXCEPT ![c] = Tail(@)]
    /\ seen' = IF Reacts(c, Head(chan[c])) THEN [seen EXCEPT ![c] = version] ELSE seen
    /\ UNCHANGED <<version, connected, notify, pending, armed, fired, sending, broker, page, owed>>

\* The page goes, or finds its channel closed.
Leave(c) ==
    /\ c \in Subscribed
    /\ page' = [page EXCEPT ![c] = "away"]
    /\ chan' = [chan EXCEPT ![c] = <<>>]
    /\ UNCHANGED <<version, connected, notify, pending, armed, fired, sending, broker, seen, owed>>

Init ==
    /\ version = 0 /\ connected = TRUE /\ notify = <<>>
    /\ pending = FALSE /\ armed = FALSE /\ fired = 0 /\ sending = 0
    /\ broker = "running"
    /\ page = [c \in Clients |-> "away"]
    /\ chan = [c \in Clients |-> <<>>]
    /\ seen = [c \in Clients |-> 0] /\ owed = [c \in Clients |-> 0]

Next ==
    \/ Commit \/ Disconnect \/ Reconnect
    \/ DispatchLoop \/ TimerFires \/ FlushTakes \/ FlushSends
    \/ Stop \/ LoopEnds \/ LoopFlushes \/ CloseClients
    \/ \E c \in Clients : Load(c) \/ Subscribe(c) \/ Receive(c) \/ Leave(c)

(* Fairness: pq reconnects, the goroutines and timers run, a subscribed page   *)
(* reads its stream.  Nothing makes pages come or go, rows change, connections *)
(* drop or the broker stop.                                                    *)
Fairness ==
    /\ WF_vars(Reconnect)
    /\ WF_vars(DispatchLoop)
    /\ WF_vars(TimerFires)
    /\ WF_vars(FlushTakes)
    /\ WF_vars(FlushSends)
    /\ \A c \in Clients : WF_vars(Receive(c))

Spec == Init /\ [][Next]_vars
FairSpec == Spec /\ Fairness

-----------------------------------------------------------------------------
\* No client channel is sent to once Stop has closed it, though a timer callback may
\* still be on its way when Stop returns.
NoSendAfterClose ==
    [][broker = "stopped" => \A c \in Clients : Len(chan'[c]) <= Len(chan[c])]_vars

\* A change committed while a page is subscribed is shown on it in the end, although
\* notifications are coalesced, dropped on a full channel, or lost with the
\* connection; unless the page goes or the broker stops.
Shown(c) ==
    (c \in Subscribed /\ seen[c] < owed[c])
        ~> (seen[c] >= owed[c] \/ c \notin Subscribed \/ broker # "running")

DashboardsShowChanges == \A c \in Dashboards : Shown(c)

-----------------------------------------------------------------------------
\* "Broadcast refresh immediately so frontends refetch": the same of detail pages.
DetailsShowChanges == \A c \in Details : Shown(c)
=============================================================================
