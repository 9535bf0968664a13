-------------------------- MODULE SSEBrokerProofs --------------------------
(***************************************************************************)
(* For any pages, channel sizes and number of changes: the types of the    *)
(* broker, that nothing is sent to a channel that Stop has closed, and     *)
(* that no change of an open dashboard is forgotten.                       *)
(***************************************************************************)
EXTENDS SSEBroker, TLAPS

Events == {"incident-update", "refresh"}

\* What a broadcast leaves in the channels: no more than they hold, and none after Stop.
LEMMA BroadcastKeeps ==
    ASSUME TypeOK, NEW e \in Events, Broadcast(e)
    PROVE  /\ chan' \in [Clients -> Seq(Events)]
           /\ \A c \in Clients : Len(chan'[c]) <= ChannelSize
           /\ broker = "stopped" => chan' = chan
<1> USE DEF TypeOK
<1>1. ASSUME NEW c \in Clients
      PROVE  chan'[c] \in Seq(Events) /\ Len(chan'[c]) <= ChannelSize
  <2>1. chan[c] \in Seq(Events) /\ Len(chan[c]) <= ChannelSize
    BY DEF Events
  <2>2. CASE chan'[c] = chan[c]
    BY <2>1, <2>2
  <2>3. CASE chan'[c] = Append(chan[c], e) /\ Len(chan[c]) < ChannelSize
    BY <2>1, <2>3, BrokerAssumption
  <2>4. QED BY <2>2, <2>3 DEF Broadcast
<1>2. chan' = [c \in Clients |-> chan'[c]]
  BY DEF Broadcast
<1>3. broker = "stopped" => chan' = chan
  BY DEF Broadcast
<1>4. QED BY <1>1, <1>2, <1>3

LEMMA ReceiveKeeps ==
    ASSUME TypeOK, NEW c \in Clients, Receive(c)
    PROVE  /\ chan' \in [Clients -> Seq(Events)]
           /\ \A d \in Clients : Len(chan'[d]) <= Len(chan[d])
<1>1. chan[c] \in Seq(Events) /\ chan[c] # <<>>
  BY DEF TypeOK, Receive, Events
<1>2. Tail(chan[c]) \in Seq(Events) /\ Len(Tail(chan[c])) <= Len(chan[c])
  BY <1>1
<1>3. chan' = [chan EXCEPT ![c] = Tail(chan[c])]
  BY DEF Receive
<1>4. \A d \in Clients : chan[d] \in Seq(Events)
  BY DEF TypeOK, Events
<1>5. QED BY <1>2, <1>3, <1>4 DEF TypeOK, Events

\* The steps that touch only the database, the connection and the broker's own state.
Inner == Commit \/ Disconnect \/ Reconnect \/ TimerFires \/ FlushTakes \/ Stop \/ LoopEnds \/ CloseClients

LEMMA InnerType == ASSUME TypeOK, Inner PROVE TypeOK' /\ chan' = chan
<1> USE DEF Inner
<1>1. chan' = chan
  BY DEF Commit, Disconnect, Reconnect, TimerFires, FlushTakes, Stop, LoopEnds, CloseClients
<1>2. version' \in 0..MaxChanges
  BY BrokerAssumption
     DEF TypeOK, Commit, Disconnect, Reconnect, TimerFires, FlushTakes, Stop, LoopEnds, CloseClients
<1>3. connected' \in BOOLEAN
  BY Zenon
     DEF TypeOK, Commit, Disconnect, Reconnect, TimerFires, FlushTakes, Stop, LoopEnds, CloseClients
<1>4. notify' \in Seq({"change", "nil"})
  <2>1. notify' \in {notify, Append(notify, "change"), Append(notify, "nil"), <<>>}
    BY DEF Commit, Disconnect, Reconnect, TimerFires, FlushTakes, Stop, LoopEnds, CloseClients
  <2>2. notify \in Seq({"change", "nil"})
    BY DEF TypeOK
  <2>3. \A e \in {"change", "nil"} : Append(notify, e) \in Seq({"change", "nil"})
    BY <2>2
  <2>4. <<>> \in Seq({"change", "nil"})
    OBVIOUS
  <2>5. QED BY <2>1, <2>2, <2>3, <2>4, Zenon
<1>5. pending' \in BOOLEAN
  BY Zenon
     DEF TypeOK, Commit, Disconnect, Reconnect, TimerFires, FlushTakes, Stop, LoopEnds, CloseClients
<1>6. armed' \in BOOLEAN
  BY Zenon
     DEF TypeOK, Commit, Disconnect, Reconnect, TimerFires, FlushTakes, Stop, LoopEnds, CloseClients
<1>7. fired' \in Nat /\ sending' \in Nat
  BY DEF TypeOK, Commit, Disconnect, Reconnect, TimerFires, FlushTakes, Stop, LoopEnds, CloseClients
<1>8. broker' \in {"running", "cancelled", "flushing", "flushed", "stopped"}
  BY DEF TypeOK, Commit, Disconnect, Reconnect, TimerFires, FlushTakes, Stop, LoopEnds, CloseClients
<1>9. UNCHANGED <<page, seen>> /\ owed' \in [Clients -> Nat]
  <2>1. UNCHANGED <<page, seen>>
    BY DEF Commit, Disconnect, Reconnect, TimerFires, FlushTakes, Stop, LoopEnds, CloseClients
  <2>2. owed' = owed \/ owed' = [c \in Clients |-> IF c \in Subscribed THEN version' ELSE owed[c]]
    BY DEF Commit, Disconnect, Reconnect, TimerFires, FlushTakes, Stop, LoopEnds, CloseClients
  <2>3. owed \in [Clients -> Nat] /\ version' \in Nat
    BY <1>2, BrokerAssumption DEF TypeOK
  <2>4. owed' \in [Clients -> Nat]
    BY <2>2, <2>3
  <2>5. QED BY <2>1, <2>4
<1>10. QED BY <1>1, <1>2, <1>3, <1>4, <1>5, <1>6, <1>7, <1>8, <1>9 DEF TypeOK

\* The steps that broadcast.
LEMMA SendType ==
    ASSUME TypeOK, DispatchLoop \/ FlushSends \/ LoopFlushes
    PROVE  TypeOK' /\ (broker = "stopped" => chan' = chan)
<1>1. \/ \E e \in Events : Broadcast(e)
      \/ chan' = chan
  BY DEF DispatchLoop, FlushSends, LoopFlushes, Events
<1>2. /\ chan' \in [Clients -> Seq(Events)]
      /\ \A c \in Clients : Len(chan'[c]) <= ChannelSize
      /\ broker = "stopped" => chan' = chan
  BY <1>1, BroadcastKeeps DEF TypeOK, Events
<1>3. notify' \in Seq({"change", "nil"})
  <2>1. notify' = notify \/ (notify # <<>> /\ notify' = Tail(notify))
    BY DEF DispatchLoop, FlushSends, LoopFlushes
  <2>2. notify \in Seq({"change", "nil"})
    BY DEF TypeOK
  <2>3. QED BY <2>1, <2>2
<1>4. pending' \in BOOLEAN
  BY Zenon DEF TypeOK, DispatchLoop, FlushSends, LoopFlushes
<1>5. armed' \in BOOLEAN
  BY Zenon DEF TypeOK, DispatchLoop, FlushSends, LoopFlushes
<1>6. UNCHANGED <<version, connected, fired, page, seen, owed>> /\ sending' \in Nat
  BY DEF TypeOK, DispatchLoop, FlushSends, LoopFlushes
<1>7. broker' \in {"running", "cancelled", "flushing", "flushed", "stopped"}
  BY DEF TypeOK, DispatchLoop, FlushSends, LoopFlushes
<1>8. connected' \in BOOLEAN
  BY <1>6, Zenon DEF TypeOK
<1>9. QED BY <1>2, <1>3, <1>4, <1>5, <1>6, <1>7, <1>8 DEF TypeOK, Events

LEMMA PageType ==
    ASSUME TypeOK, NEW c \in Clients, Load(c) \/ Subscribe(c) \/ Receive(c) \/ Leave(c)
    PROVE  TypeOK' /\ (broker = "stopped" => \A d \in Clients : Len(chan'[d]) <= Len(chan[d]))
<1>1. UNCHANGED <<version, connected, notify, pending, armed, fired, sending, broker>>
  BY DEF Load, Subscribe, Receive, Leave
<1>2. /\ chan' \in [Clients -> Seq(Events)]
      /\ \A d \in Clients : Len(chan'[d]) <= Len(chan[d])
  <2>1. CASE Load(c)
    BY <2>1 DEF Load, TypeOK, Events
  <2>2. CASE Subscribe(c) \/ Leave(c)
    <3>1. chan' = [chan EXCEPT ![c] = <<>>]
      BY <2>2 DEF Subscribe, Leave
    <3>2. \A d \in Clients : chan[d] \in Seq(Events) /\ Len(chan[d]) \in Nat
      BY DEF TypeOK, Events
    <3>3. QED BY <3>1, <3>2 DEF TypeOK, Events
  <2>3. CASE Receive(c)
    BY <2>3, ReceiveKeeps
  <2>4. QED BY <2>1, <2>2, <2>3
<1>3. page' \in [Clients -> {"away", "loaded", "subscribed"}]
  BY DEF TypeOK, Load, Subscribe, Receive, Leave
<1>4. seen' \in [Clients -> Nat] /\ owed' \in [Clients -> Nat]
  <2>1. seen' \in {seen, [seen EXCEPT ![c] = version]}
    BY DEF Load, Subscribe, Receive, Leave
  <2>2. owed' \in {owed, [owed EXCEPT ![c] = 0]}
    BY DEF Load, Subscribe, Receive, Leave
  <2>3. version \in Nat /\ seen \in [Clients -> Nat] /\ owed \in [Clients -> Nat]
    BY BrokerAssumption DEF TypeOK
  <2>4. QED BY <2>1, <2>2, <2>3
<1>5. connected' \in BOOLEAN /\ pending' \in BOOLEAN /\ armed' \in BOOLEAN
  BY <1>1, Zenon DEF TypeOK
<1>6. \A d \in Clients : Len(chan'[d]) <= ChannelSize
  <2> TAKE d \in Clients
  <2>1. Len(chan'[d]) \in Nat /\ Len(chan[d]) \in Nat
    BY <1>2 DEF TypeOK
  <2>2. QED BY <2>1, <1>2, BrokerAssumption DEF TypeOK
<1>7. QED BY <1>1, <1>2, <1>3, <1>4, <1>5, <1>6 DEF TypeOK, Events

LEMMA TypeStep == ASSUME TypeOK, [Next]_vars PROVE TypeOK'
<1>1. CASE UNCHANGED vars
  BY <1>1 DEF vars, TypeOK
<1>2. CASE Inner
  BY <1>2, InnerType
<1>3. CASE DispatchLoop \/ FlushSends \/ LoopFlushes
  BY <1>3, SendType
<1>4. CASE \E c \in Clients : Load(c) \/ Subscribe(c) \/ Receive(c) \/ Leave(c)
  BY <1>4, PageType
<1>5. QED BY <1>1, <1>2, <1>3, <1>4 DEF Next, Inner

LEMMA InitType == Init => TypeOK
<1> SUFFICES ASSUME Init PROVE TypeOK
  OBVIOUS
<1>1. connected \in BOOLEAN /\ pending \in BOOLEAN /\ armed \in BOOLEAN
  BY Zenon DEF Init
<1>2. /\ version \in 0..MaxChanges /\ notify \in Seq({"change", "nil"})
      /\ fired \in Nat /\ sending \in Nat /\ broker = "running"
  BY BrokerAssumption DEF Init
<1>3. /\ page \in [Clients -> {"away", "loaded", "subscribed"}]
      /\ seen \in [Clients -> Nat] /\ owed \in [Clients -> Nat]
  BY DEF Init
<1>4. /\ chan \in [Clients -> Seq({"incident-update", "refresh"})]
      /\ \A c \in Clients : Len(chan[c]) <= ChannelSize
  BY BrokerAssumption DEF Init
<1>5. QED BY <1>1, <1>2, <1>3, <1>4 DEF TypeOK

\* The broker keeps its types, and no channel ever holds more than its capacity.
THEOREM BrokerTypeOK == Spec => []TypeOK
<1>1. Init => TypeOK
  BY InitType
<1>2. TypeOK /\ [Next]_vars => TypeOK'
  BY TypeStep
<1>3. QED BY <1>1, <1>2, PTL DEF Spec

\* For any number of pages and of callbacks on their way, no step sends to a channel that
\* Stop has closed.
THEOREM BrokerNoSendAfterClose == Spec => NoSendAfterClose
<1>1. TypeOK /\ [Next]_vars =>
          [broker = "stopped" => \A c \in Clients : Len(chan'[c]) <= Len(chan[c])]_vars
  <2> SUFFICES ASSUME TypeOK, Next, broker = "stopped"
               PROVE  \A c \in Clients : Len(chan'[c]) <= Len(chan[c])
    OBVIOUS
  <2>1. \A c \in Clients : Len(chan[c]) \in Nat
    BY DEF TypeOK
  <2>2. CASE Inner
    BY <2>1, <2>2, InnerType
  <2>3. CASE DispatchLoop \/ FlushSends \/ LoopFlushes
    BY <2>1, <2>3, SendType
  <2>4. CASE \E c \in Clients : Load(c) \/ Subscribe(c) \/ Receive(c) \/ Leave(c)
    BY <2>4, PageType
  <2>5. QED BY <2>2, <2>3, <2>4 DEF Next, Inner
<1>2. QED BY <1>1, BrokerTypeOK, PTL DEF Spec, NoSendAfterClose

-----------------------------------------------------------------------------
(* What DashboardsShowChanges rests on.                                       *)

\* Something is still to come that makes a dashboard fetch again.
OnItsWay(c) ==
    \/ chan[c] # <<>>
    \/ notify # <<>>
    \/ pending /\ (armed \/ fired > 0)
    \/ sending > 0
    \/ ~connected

Owing(c) == c \in Subscribed /\ seen[c] < owed[c]

NothingForgotten ==
    broker = "running" => \A c \in Dashboards : Owing(c) => OnItsWay(c)

WayInv ==
    /\ TypeOK
    /\ broker = "running" /\ pending => armed \/ fired > 0
    /\ \A c \in Clients : owed[c] <= version
    /\ NothingForgotten

\* The debounce timer never leaves an event behind.
LEMMA PendingIsTimed ==
    ASSUME WayInv, [Next]_vars, broker' = "running"
    PROVE  pending' => armed' \/ fired' > 0
<1> USE DEF WayInv, TypeOK
<1>1. CASE UNCHANGED vars
  BY <1>1 DEF vars
<1>2. broker = "running"
  BY DEF Next, vars, Commit, Disconnect, Reconnect, DispatchLoop, TimerFires, FlushTakes,
         FlushSends, Stop, LoopEnds, LoopFlushes, CloseClients, Load, Subscribe, Receive, Leave
<1>3. CASE DispatchLoop
  <2>1. UNCHANGED <<pending, armed, fired>> \/ armed'
    BY <1>3, Zenon DEF DispatchLoop
  <2>2. QED BY <1>2, <2>1, Zenon
<1>4. CASE TimerFires
  <2>1. fired' > 0
    BY <1>4 DEF TimerFires
  <2>2. QED BY <2>1
<1>5. CASE FlushTakes
  BY <1>5, Zenon DEF FlushTakes
<1>6. CASE Commit \/ Disconnect \/ Reconnect \/ FlushSends \/ Stop \/ LoopEnds \/ LoopFlushes \/ CloseClients
  BY <1>6 DEF Commit, Disconnect, Reconnect, FlushSends, Stop, LoopEnds, LoopFlushes, CloseClients
<1>7. CASE \E c \in Clients : Load(c) \/ Subscribe(c) \/ Receive(c) \/ Leave(c)
  <2>1. UNCHANGED <<pending, armed, fired>>
    BY <1>7, Zenon DEF Load, Subscribe, Receive, Leave
  <2>2. QED BY <1>2, <2>1
<1>8. QED BY <1>1, <1>3, <1>4, <1>5, <1>6, <1>7 DEF Next

LEMMA OwedIsCommitted ==
    ASSUME WayInv, [Next]_vars
    PROVE  \A c \in Clients : owed'[c] <= version'
<1> USE BrokerAssumption DEF WayInv, TypeOK
<1>1. CASE UNCHANGED vars
  BY <1>1 DEF vars
<1>2. CASE Commit
  BY <1>2 DEF Commit
<1>3. CASE \E c \in Clients : Subscribe(c)
  BY <1>3 DEF Subscribe
<1>4. CASE UNCHANGED <<version, owed>>
  BY <1>4
<1>5. QED BY <1>1, <1>2, <1>3, <1>4
     DEF Next, Disconnect, Reconnect, DispatchLoop, TimerFires, FlushTakes, FlushSends, Stop,
         LoopEnds, LoopFlushes, CloseClients, Load, Receive, Leave

\* After a broadcast every subscribed client has an event to read: the new one or, where
\* its channel was full, an older one.
LEMMA BroadcastReaches ==
    ASSUME TypeOK, NEW e \in Events, Broadcast(e), broker # "stopped", NEW c \in Clients, c \in Subscribed
    PROVE  chan'[c] # <<>>
<1>1. chan[c] \in Seq(Events)
  BY DEF TypeOK, Events
<1>2. CASE Len(chan[c]) < ChannelSize
  <2>1. chan'[c] = Append(chan[c], e)
    BY <1>2 DEF Broadcast
  <2>2. QED BY <1>1, <2>1
<1>3. CASE ~(Len(chan[c]) < ChannelSize)
  <2>1. chan'[c] = chan[c]
    BY <1>3 DEF Broadcast
  <2>2. Len(chan[c]) # 0
    BY <1>1, <1>3, BrokerAssumption
  <2>3. QED BY <1>1, <2>1, <2>2
<1>4. QED BY <1>2, <1>3

LEMMA NothingForgottenStep ==
    ASSUME WayInv, [Next]_vars
    PROVE  NothingForgotten'
<1> SUFFICES ASSUME broker' = "running", NEW c \in Dashboards, Owing(c)' PROVE OnItsWay(c)'
  BY DEF NothingForgotten
<1>1. /\ TypeOK /\ c \in Clients /\ owed[c] <= version /\ owed[c] \in Nat /\ version \in Nat /\ seen[c] \in Nat
      /\ pending' => armed' \/ fired' > 0
  BY PendingIsTimed, BrokerAssumption DEF WayInv, TypeOK, Clients
<1>2. CASE broker # "running"
  <2>1. broker' # "running"
    BY <1>2 DEF Next, vars, Commit, Disconnect, Reconnect, DispatchLoop, TimerFires, FlushTakes,
                FlushSends, Stop, LoopEnds, LoopFlushes, CloseClients, Load, Subscribe, Receive, Leave
  <2>2. QED BY <2>1
<1>3. CASE broker = "running"
  <2>1. Owing(c) => OnItsWay(c)
    BY <1>3 DEF WayInv, NothingForgotten
  <2>2. CASE UNCHANGED vars
    BY <2>1, <2>2 DEF vars, Owing, OnItsWay, Subscribed
  <2>3. CASE Commit
    <3>1. CASE connected
      <4>1. notify' = Append(notify, "change")
        BY <1>3, <2>3, <3>1 DEF Commit
      <4>2. notify \in Seq({"change", "nil"})
        BY <1>1 DEF TypeOK
      <4>3. QED BY <4>1, <4>2 DEF OnItsWay
    <3>2. CASE ~connected
      BY <2>3, <3>2 DEF Commit, OnItsWay
    <3>3. QED BY <3>1, <3>2
  <2>4. CASE Disconnect
    BY <2>4 DEF Disconnect, OnItsWay
  <2>5. CASE Reconnect
    <3>1. notify' = Append(notify, "nil") /\ notify \in Seq({"change", "nil"})
      BY <1>1, <2>5 DEF Reconnect, TypeOK
    <3>2. QED BY <3>1 DEF OnItsWay
  <2>6. CASE DispatchLoop
    <3>1. c \in Subscribed
      BY <2>6 DEF DispatchLoop, Owing, Subscribed
    <3>2. CASE Broadcast("refresh")
      <4>1. chan'[c] # <<>>
        BY <1>1, <1>3, <3>1, <3>2, BroadcastReaches DEF Events
      <4>2. QED BY <4>1 DEF OnItsWay
    <3>3. CASE pending' = TRUE
      BY <1>1, <3>3 DEF OnItsWay
    <3>4. QED BY <2>6, <3>2, <3>3 DEF DispatchLoop
  <2>7. CASE TimerFires
    <3>1. Owing(c) /\ UNCHANGED <<chan, notify, pending, sending, connected>>
      BY <2>7 DEF TimerFires, Owing, Subscribed
    <3>2. QED BY <1>1, <2>1, <3>1 DEF OnItsWay
  <2>8. CASE FlushTakes
    <3>1. Owing(c) /\ UNCHANGED <<chan, notify, connected>>
      BY <2>8 DEF FlushTakes, Owing, Subscribed
    <3>2. sending \in Nat /\ sending' = IF pending THEN sending + 1 ELSE sending
      BY <1>1, <2>8 DEF FlushTakes, TypeOK
    <3>3. CASE pending
      BY <3>2, <3>3 DEF OnItsWay
    <3>4. CASE ~pending
      BY <2>1, <3>1, <3>2, <3>4 DEF OnItsWay
    <3>5. QED BY <3>3, <3>4
  <2>9. CASE FlushSends
    <3>1. c \in Subscribed /\ Broadcast("incident-update")
      BY <2>9 DEF FlushSends, Owing, Subscribed
    <3>2. chan'[c] # <<>>
      BY <1>1, <1>3, <3>1, BroadcastReaches DEF Events
    <3>3. QED BY <3>2 DEF OnItsWay
  <2>10. CASE Stop \/ LoopEnds \/ LoopFlushes \/ CloseClients
    BY <1>3, <2>10 DEF Stop, LoopEnds, LoopFlushes, CloseClients
  <2>11. ASSUME NEW d \in Clients, Load(d) \/ Subscribe(d) \/ Receive(d) \/ Leave(d)
         PROVE  OnItsWay(c)'
    <3>1. UNCHANGED <<version, connected, notify, pending, armed, fired, sending>>
      BY <2>11 DEF Load, Subscribe, Receive, Leave
    <3>2. CASE d # c
      <4>1. Owing(c) /\ chan'[c] = chan[c]
        BY <1>1, <2>11, <3>2 DEF Load, Subscribe, Receive, Leave, Owing, Subscribed, TypeOK
      <4>2. QED BY <2>1, <3>1, <4>1 DEF OnItsWay
    <3>3. CASE d = c
      <4>1. ~(Load(c) \/ Leave(c))
        BY <1>1 DEF Load, Leave, Owing, Subscribed, TypeOK
      <4>2. ~Subscribe(c)
        BY <1>1 DEF Subscribe, Owing, TypeOK
      <4>3. ~Receive(c)
        <5> SUFFICES ASSUME Receive(c) PROVE FALSE
          OBVIOUS
        <5>1. chan[c] \in Seq(Events) /\ chan[c] # <<>>
          BY <1>1 DEF Receive, TypeOK, Events
        <5>2. Head(chan[c]) \in Events
          BY <5>1
        <5>3. Reacts(c, Head(chan[c]))
          BY <5>2 DEF Reacts, Events
        <5>4. seen'[c] = version /\ owed'[c] = owed[c]
          BY <1>1, <5>3 DEF Receive, TypeOK
        <5>5. QED BY <1>1, <5>4 DEF Owing
      <4>4. QED BY <2>11, <3>3, <4>1, <4>2, <4>3
    <3>4. QED BY <3>2, <3>3
  <2>12. QED BY <2>2, <2>3, <2>4, <2>5, <2>6, <2>7, <2>8, <2>9, <2>10, <2>11 DEF Next
<1>4. QED BY <1>2, <1>3

\* While the broker runs, a dashboard that does not show a change committed since it
\* subscribed has something coming that makes it fetch: an event in its channel, a
\* notification, a timed or taken flush, or the reconnect; however often notifications
\* are coalesced, dropped on a full channel or lost with the connection.
THEOREM BrokerNothingForgotten == Spec => []NothingForgotten
<1>1. Init => WayInv
  <2> SUFFICES ASSUME Init PROVE WayInv
    OBVIOUS
  <2>1. TypeOK
    BY InitType
  <2>2. QED BY <2>1 DEF Init, WayInv, NothingForgotten, Owing, Subscribed
<1>2. ASSUME WayInv, [Next]_vars PROVE WayInv'
  <2>1. TypeOK'
    BY <1>2, TypeStep DEF WayInv
  <2>2. QED BY <1>2, <2>1, PendingIsTimed, OwedIsCommitted, NothingForgottenStep DEF WayInv
<1>3. WayInv => NothingForgotten
  BY DEF WayInv
<1>4. QED BY <1>1, <1>2, <1>3, PTL DEF Spec
=============================================================================
