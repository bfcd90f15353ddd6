-------------------------- MODULE RunMachine_proofs --------------------------
(***************************************************************************)
(* Theorems about RunMachine, for any number of sockets, of messages under *)
(* way and of events, and for every story.                                 *)
(*                                                                         *)
(*   PageTypeCorrect     every variable stays in its type                  *)
(*   ConnectionIsTold    ConnectionTold                                    *)
(*   RedirectWaits       RedirectAfterStart, from the invariant StartInv   *)
(***************************************************************************)
EXTENDS RunMachine, FiniteSetTheorems, TLAPS

(* The sockets are a function, each of its own type.                        *)
Typed(w) == /\ DOMAIN w = Sockets /\ w = [s \in Sockets |-> w[s]]
            /\ \A s \in Sockets : w[s] \in Socket(s[1])
Typing == TypeOK /\ Typed(ws)

-----------------------------------------------------------------------------
(* Lemmas about the operators the actions are built from.                   *)

LEMMA Channel == ASSUME NEW s \in Sockets PROVE s[1] \in Channels
BY SocketsAssumption

(* A new subscription opens a socket of its channel, or finds them all open, *)
(* and leaves the rest as they were.                                        *)
LEMMA SubscribedSocket ==
    ASSUME NEW w, Typed(w), NEW channel \in Channels, NEW v \in Subscribed(w, channel)
    PROVE  /\ Typed(v)
           /\ \A s \in Sockets : v[s] \in {w[s], Opened}
           /\ \A s \in Sockets : w[s].open => v[s].open
           /\ \E s \in Sockets : s[1] = channel /\ v[s].open
<1> DEFINE free == {s \in Sockets : s[1] = channel /\ ~w[s].open}
<1>1. Opened.open /\ \A c : Opened \in Socket(c)
    BY DEF Opened, Socket
<1>2. CASE free = {}
    <2>1. v = w
        BY <1>2 DEF Subscribed
    <2>2. <<channel, 1>> \in Sockets
        BY SocketsAssumption
    <2>3. w[<<channel, 1>>].open
        BY <1>2, <2>2
    <2> QED BY <2>1, <2>2, <2>3
<1>3. CASE free # {}
    <2>1. PICK s \in free : v = [w EXCEPT ![s] = Opened]
        BY <1>3 DEF Subscribed
    <2>2. Typed(v)
        BY <2>1, <1>1 DEF Typed
    <2> QED BY <2>1, <2>2, <1>1 DEF Typed
<1> QED BY <1>2, <1>3

LEMMA SnapshotType ==
    ASSUME ServerType, NEW channel \in Channels
    PROVE  Snapshot(channel) \in MessageOf(channel)
BY StoriesAssumption
   DEF ServerType, Snapshot, Channels, MessageOf, MachineInfo, Story, Base, Machine

LEMMA HeadTail ==
    ASSUME NEW S, NEW q \in Seq(S), q # <<>>
    PROVE  Head(q) \in S /\ Tail(q) \in Seq(S)
OBVIOUS

(* Taking the oldest message out of a socket.                               *)
LEMMA ReceivedType ==
    ASSUME Typed(ws), NEW s \in Sockets, ws[s].queue # <<>>
    PROVE  /\ Typed(Received(s))
           /\ \A t \in Sockets : Received(s)[t].open = ws[t].open
           /\ \A t \in Sockets \ {s} : Received(s)[t] = ws[t]
           /\ Received(s)[s].queue = Tail(ws[s].queue)
           /\ Head(ws[s].queue) \in MessageOf(s[1])
<1>1. ws[s] \in Socket(s[1])
    BY DEF Typed
<1>2. ws[s].queue \in Seq(MessageOf(s[1]))
    BY <1>1 DEF Socket
<1>3. Tail(ws[s].queue) \in Seq(MessageOf(s[1])) /\ Head(ws[s].queue) \in MessageOf(s[1])
    BY <1>2, HeadTail
<1> DEFINE rest == [ws[s] EXCEPT !.queue = Tail(@)]
<1>4. rest \in Socket(s[1]) /\ rest.open = ws[s].open /\ rest.queue = Tail(ws[s].queue)
    BY <1>1, <1>3 DEF Socket
<1>5. Received(s) = [ws EXCEPT ![s] = rest]
    BY DEF Received
<1> HIDE DEF rest
<1>6. Received(s)[s] = rest /\ \A t \in Sockets \ {s} : Received(s)[t] = ws[t]
    BY <1>5 DEF Typed
<1>7. Typed(Received(s))
    BY <1>4, <1>5, <1>6 DEF Typed
<1> QED BY <1>3, <1>4, <1>6, <1>7

(* What a step leaves alone keeps its type.                                 *)
LEMMA Untouched ==
    /\ ServerType /\ UNCHANGED server => ServerType'
    /\ PortsType /\ UNCHANGED portVars => PortsType'
    /\ ViewType /\ UNCHANGED view => ViewType'
    /\ LinkType /\ Typed(ws) /\ UNCHANGED link => LinkType' /\ Typed(ws')
BY DEF ServerType, PortsType, ViewType, LinkType, Typed, server, portVars, view, link

-----------------------------------------------------------------------------
(* Type correctness.                                                        *)

LEMMA TypeInit == Init => Typing
<1> SUFFICES ASSUME Init PROVE Typing
    OBVIOUS
<1>1. Typed(ws)
    BY DEF Init, Opened, Closed, Socket, Typed
<1>2. request \in RequestInfo
    BY DEF Init, RequestInfo, Statuses
<1>3. /\ active \in BOOLEAN /\ ip \in BOOLEAN /\ startEnded \in BOOLEAN
      /\ already_refreshed \in BOOLEAN /\ already_subscribed \in BOOLEAN /\ lost \in BOOLEAN
      /\ request_open_ports \in BOOLEAN /\ request_open_ports_done \in BOOLEAN
      /\ redirect_done \in BOOLEAN /\ clicked \in BOOLEAN
    <2>1. active \in BOOLEAN
        BY DEF Init
    <2> QED BY <2>1, Zenon DEF Init
<1>4. /\ downs = 0 /\ losses = 0 /\ reloads = 0 /\ timers = 0 /\ displays = 0
      /\ count_start = 0 /\ redirect_time = 1
    BY DEF Init
<1>5. 0 \in 0..MaxEvents /\ 0 \in 0..3 /\ 0 \in 0..1 /\ 1 \in -1..2 /\ 0 \in Nat
    BY BoundsAssumption
<1>6. pending \subseteq Kinds /\ story \in Stories
    BY DEF Init, Kinds
<1>7. calls \in [Calls -> {None, "sent", "answered"}] /\ seen = Nothing /\ shown = Nothing
    BY DEF Init
<1>8. ServerType /\ PortsType
    BY <1>2, <1>3, <1>4, <1>5, <1>6, <1>7, Zenon DEF ServerType, PortsType
<1>9. ViewType /\ LinkType
    BY <1>1, <1>3, <1>4, <1>5, <1>7, Zenon DEF ViewType, LinkType, Typed
<1> QED BY <1>1, <1>8, <1>9 DEF TypeOK, Typing

LEMMA TypeServer == Typing /\ Server => Typing'
<1> SUFFICES ASSUME TypeOK, Typed(ws), Server PROVE TypeOK' /\ Typed(ws')
    BY DEF Typing
<1> USE DEF TypeOK
<1>1. story \in Story
    BY StoriesAssumption DEF ServerType
<1>2. CASE \/ ServerWorks \/ ServerClones \/ ServerAsksStart \/ ServerCloned
           \/ ServerCloneFails \/ ServerStarts
    <2>1. UNCHANGED <<story, ip, downs, portVars, view, link>>
        BY <1>2 DEF ServerWorks, ServerClones, ServerAsksStart, ServerCloned,
                    ServerCloneFails, ServerStarts
    <2>2. request' \in RequestInfo
        BY <1>2 DEF ServerWorks, ServerClones, ServerAsksStart, ServerCloned, ServerCloneFails,
                    ServerStarts, ServerType, RequestInfo, Statuses
    <2>3. active' \in BOOLEAN /\ startEnded' \in BOOLEAN /\ pending' \subseteq Kinds
        BY <1>1, <1>2 DEF ServerWorks, ServerClones, ServerAsksStart, ServerCloned,
                    ServerCloneFails, ServerStarts, ServerType, Story, Kinds
    <2>4. ServerType'
        BY <2>1, <2>2, <2>3 DEF ServerType
    <2> QED BY <2>1, <2>4, Untouched
<1>3. CASE \E kind \in Kinds \ {"clone", "start"} : ServerEnds(kind)
    <2>1. ServerType' /\ UNCHANGED <<portVars, view, link>>
        BY <1>3 DEF ServerEnds, ServerType
    <2> QED BY <2>1, Untouched
<1>4. CASE ServerDown
    <2>1. downs' \in 0..MaxEvents
        BY <1>1, <1>4, BoundsAssumption DEF ServerDown, ServerType, Story
    <2>2. active' = FALSE /\ ip' = FALSE
        BY <1>4 DEF ServerDown
    <2>3. ServerType'
        BY <1>4, <2>1, <2>2, Zenon DEF ServerDown, ServerType
    <2> QED BY <1>4, <2>3, Untouched DEF ServerDown
<1>5. CASE ConnectionLost
    <2>1. Typed(ws')
        BY <1>5 DEF ConnectionLost, Closed, Socket, Typed
    <2>2. losses' \in 0..MaxEvents
        BY <1>1, <1>5, BoundsAssumption DEF ConnectionLost, LinkType, Story
    <2>3. timers' \in Nat
        <3>1. IsFiniteSet(OpenSockets)
            BY SocketsAssumption, FS_Subset DEF OpenSockets
        <3> QED BY <3>1, <1>5, FS_CardinalityType DEF ConnectionLost, LinkType
    <2>4. LinkType'
        BY <1>5, <2>1, <2>2, <2>3 DEF ConnectionLost, LinkType, Typed
    <2> QED BY <1>5, <2>1, <2>4, Untouched DEF ConnectionLost
<1>6. CASE \E s \in Sockets : ServerTick(s)
    <2>1. PICK s \in Sockets : ServerTick(s)
        BY <1>6
    <2> DEFINE more == [ws[s] EXCEPT !.queue = Append(@, Snapshot(s[1]))]
    <2>2. ws[s].queue \in Seq(MessageOf(s[1])) /\ ws[s] \in Socket(s[1])
        BY DEF Typed, Socket
    <2>3. Append(ws[s].queue, Snapshot(s[1])) \in Seq(MessageOf(s[1]))
        BY <2>2, SnapshotType, Channel
    <2>4. more \in Socket(s[1])
        BY <2>2, <2>3 DEF Socket
    <2>5. ws' = [ws EXCEPT ![s] = more]
        BY <2>1 DEF ServerTick
    <2> HIDE DEF more
    <2>6. Typed(ws')
        BY <2>4, <2>5 DEF Typed
    <2>7. ServerType'
        BY <2>1 DEF ServerTick, ServerType, Kinds
    <2>8. LinkType'
        BY <2>1, <2>6 DEF ServerTick, LinkType, Typed
    <2> QED BY <2>1, <2>6, <2>7, <2>8, Untouched DEF ServerTick
<1>7. CASE \E c \in Calls : ServerPost(c)
    <2>1. PICK c \in Calls : ServerPost(c)
        BY <1>7
    <2>2. Posted(c) \in Kinds
        BY DEF Posted, Kinds
    <2>3. ServerType'
        BY <2>1, <2>2 DEF ServerPost, ServerType
    <2>4. PortsType'
        BY <2>1 DEF ServerPost, PortsType
    <2> QED BY <2>1, <2>3, <2>4, Untouched DEF ServerPost
<1> QED BY <1>2, <1>3, <1>4, <1>5, <1>6, <1>7 DEF Server

(* How the handler of a machine's message ends, whatever machine it is about. *)
LEMMA RedirectsType ==
    ASSUME TypeOK, NEW machine \in MachineInfo \cup {Nothing}, Redirects(machine)
    PROVE  /\ redirect_time' \in -1..2 /\ displays' \in 0..1
           /\ redirect_done' \in BOOLEAN /\ request_open_ports_done' \in BOOLEAN
<1>1. redirect_time \in -1..2 /\ displays \in 0..1
    BY DEF TypeOK, ViewType
<1>2. Countdown \in -1..2
    BY <1>1 DEF Countdown
<1>3. Viewed(machine) \in 0..1
    BY <1>1 DEF Viewed
<1>4. redirect_time' \in -1..2 /\ displays' \in 0..1
    BY <1>1, <1>2, <1>3 DEF Redirects
<1>5. Ready(machine) \in BOOLEAN /\ (redirect_time < 0) \in BOOLEAN
    BY DEF Ready
<1>6. redirect_done' \in BOOLEAN
    BY <1>5 DEF Redirects, TypeOK, ViewType
<1>7. machine # Nothing => machine.ip \in BOOLEAN /\ machine.idle \in BOOLEAN
    BY DEF MachineInfo
<1>8. request_open_ports_done' \in BOOLEAN
    BY <1>7 DEF Redirects, TypeOK, PortsType
<1> QED BY <1>4, <1>6, <1>8

LEMMA TypePage == Typing /\ Page => Typing'
<1> SUFFICES ASSUME TypeOK, Typed(ws), Page PROVE TypeOK' /\ Typed(ws')
    BY DEF Typing
<1> USE DEF TypeOK
<1>1. story \in Story
    BY StoriesAssumption DEF ServerType
<1>2. CASE \E s \in Sockets : OnRequest(s)
    <2>1. PICK s \in Sockets : OnRequest(s)
        BY <1>2
    <2> DEFINE data == Head(ws[s].queue)
    <2>2. data \in RequestInfo /\ Typed(Received(s))
        BY <2>1, ReceivedType DEF OnRequest, MessageOf
    <2>3. ws' = Received(s) \/ ws' \in Subscribed(Received(s), data.domain)
        BY <2>1 DEF OnRequest
    <2>4. data.domain \in Channels
        BY <2>2 DEF RequestInfo, Channels
    <2> HIDE DEF data
    <2>5. Typed(ws')
        BY <2>2, <2>3, <2>4, SubscribedSocket
    <2>6. ViewType'
        BY <2>1, <2>2 DEF OnRequest, ViewType, data
    <2>7. LinkType'
        BY <2>1, <2>5 DEF OnRequest, LinkType, Typed
    <2> QED BY <2>1, <2>5, <2>6, <2>7, Untouched DEF OnRequest
<1>3. CASE \E s \in Sockets : OnBaseInfo(s)
    <2>1. PICK s \in Sockets : OnBaseInfo(s)
        BY <1>3
    <2>2. Typed(ws')
        BY <2>1, ReceivedType DEF OnBaseInfo
    <2>3. count_start' = 0 /\ 0 \in 0..3
        BY <2>1 DEF OnBaseInfo
    <2>4. Redirects(shown) /\ shown \in MachineInfo \cup {Nothing}
        BY <2>1 DEF OnBaseInfo, ViewType
    <2>5. /\ redirect_time' \in -1..2 /\ displays' \in 0..1
          /\ redirect_done' \in BOOLEAN /\ request_open_ports_done' \in BOOLEAN
        BY <2>4, RedirectsType
    <2>6. ViewType' /\ PortsType'
        BY <2>1, <2>3, <2>5 DEF OnBaseInfo, ViewType, PortsType
    <2>7. LinkType'
        BY <2>1, <2>2 DEF OnBaseInfo, LinkType, Typed
    <2> QED BY <2>1, <2>2, <2>6, <2>7, Untouched DEF OnBaseInfo
<1>4. CASE \E s \in Sockets : OnMachineInfo(s)
    <2>1. PICK s \in Sockets : OnMachineInfo(s)
        BY <1>4
    <2> DEFINE data == Head(ws[s].queue)
    <2>2. data \in MachineInfo /\ Typed(Received(s))
        BY <2>1, ReceivedType DEF OnMachineInfo, MessageOf, Base, Machine
    <2>3. Typed(ws')
        BY <2>1, <2>2 DEF OnMachineInfo
    <2> HIDE DEF data
    <2>4. Redirects(data)
        BY <2>1 DEF OnMachineInfo, data
    <2>5. /\ redirect_time' \in -1..2 /\ displays' \in 0..1
          /\ redirect_done' \in BOOLEAN /\ request_open_ports_done' \in BOOLEAN
        BY <2>2, <2>4, RedirectsType
    <2>6. count_start' \in 0..3
        BY <2>1 DEF OnMachineInfo, ViewType
    <2>7. shown' = data
        BY <2>1 DEF OnMachineInfo, data
    <2>8. calls' \in [Calls -> {None, "sent", "answered"}]
        BY <2>1 DEF OnMachineInfo, PortsType
    <2>9. ViewType'
        BY <2>1, <2>2, <2>5, <2>6, <2>7 DEF OnMachineInfo, ViewType
    <2>10. PortsType'
        BY <2>1, <2>5, <2>8 DEF OnMachineInfo, PortsType
    <2>11. LinkType'
        BY <2>1, <2>3 DEF OnMachineInfo, LinkType, Typed
    <2> QED BY <2>1, <2>3, <2>9, <2>10, <2>11, Untouched DEF OnMachineInfo
<1>5. CASE AnswerFirst("open", "refresh_ports") \/ AnswerFirst("close", "reopen")
    <2>1. PortsType' /\ UNCHANGED <<server, view, link>>
        BY <1>5 DEF AnswerFirst, PortsType
    <2> QED BY <2>1, Untouched
<1>6. CASE AnswerRefresh \/ AnswerReopen
    <2>1. PortsType' /\ UNCHANGED <<server, view, link>>
        BY <1>6 DEF AnswerRefresh, AnswerReopen, PortsType
    <2> QED BY <2>1, Untouched
<1>7. CASE OnClose
    <2>1. LinkType' /\ Typed(ws') /\ UNCHANGED <<server, portVars, view>>
        BY <1>7 DEF OnClose, LinkType, Typed
    <2> QED BY <2>1, Untouched
<1>8. CASE ReloadPorts
    <2>1. shown' \in MachineInfo
        BY <1>8 DEF ReloadPorts, ViewType, MachineInfo
    <2>2. reloads' \in 0..MaxEvents
        BY <1>1, <1>8, BoundsAssumption DEF ReloadPorts, PortsType, Story
    <2>3. calls' \in [Calls -> {None, "sent", "answered"}]
        BY <1>8 DEF ReloadPorts, PortsType
    <2>4. ViewType'
        BY <1>8, <2>1 DEF ReloadPorts, ViewType
    <2>5. PortsType'
        BY <1>8, <2>2, <2>3 DEF ReloadPorts, PortsType
    <2> QED BY <1>8, <2>4, <2>5, Untouched DEF ReloadPorts
<1>9. CASE SubscribeAll
    <2>1. Typed(ws')
        BY <1>9, SubscribedSocket DEF SubscribeAll, Channels
    <2>2. LinkType'
        BY <1>9, <2>1 DEF SubscribeAll, LinkType, Typed
    <2> QED BY <1>9, <2>1, <2>2, Untouched DEF SubscribeAll
<1>10. CASE ClickDisplay
    <2>1. ViewType'
        BY <1>10 DEF ClickDisplay, ViewType
    <2> QED BY <1>10, <2>1, Untouched DEF ClickDisplay
<1> QED BY <1>2, <1>3, <1>4, <1>5, <1>6, <1>7, <1>8, <1>9, <1>10 DEF Page

LEMMA TypeStep == Typing /\ [Next]_vars => Typing'
<1>1. Typing /\ UNCHANGED vars => Typing'
    BY Untouched DEF Typing, TypeOK, vars
<1> QED BY <1>1, TypeServer, TypePage DEF Next

(* Every variable stays in its type: the viewer is opened once at most, and *)
(* a socket carries the messages of its own channel only.                   *)
THEOREM PageTypeCorrect == Spec => []TypeOK
<1> QED BY TypeInit, TypeStep, PTL DEF Spec, Typing

-----------------------------------------------------------------------------
(* A page that reports nothing is connected.  ConnectionTold is inductive:   *)
(* sockets close only all together, with a timer for each, a timer that     *)
(* fires reports, and connecting again opens a socket of the request.       *)

LEMMA ConnectionStep == Typing /\ ConnectionTold /\ [Next]_vars => ConnectionTold'
<1> SUFFICES ASSUME Typing, ConnectionTold, [Next]_vars PROVE ConnectionTold'
    OBVIOUS
<1>0. Typed(ws) /\ timers \in Nat
    BY DEF Typing, TypeOK, LinkType
<1> DEFINE Kept == \A s \in Sockets : ws[s].open => ws'[s].open
<1>1. (Kept /\ UNCHANGED <<timers, lost>>) => ConnectionTold'
    BY DEF ConnectionTold
<1>2. CASE UNCHANGED link
    BY <1>1, <1>2 DEF link
<1>3. CASE ConnectionLost
    <2>1. ASSUME NEW s \in Sockets, ws[s].open PROVE timers' > 0
        <3>1. IsFiniteSet(OpenSockets) /\ OpenSockets # {}
            BY <2>1, SocketsAssumption, FS_Subset DEF OpenSockets
        <3>2. Cardinality(OpenSockets) \in Nat \ {0}
            BY <3>1, FS_EmptySet, FS_CardinalityType
        <3> QED BY <3>2, <1>0, <1>3 DEF ConnectionLost
    <2>2. timers' > 0
        BY <2>1, <1>3 DEF ConnectionLost, OpenSockets
    <2> QED BY <2>2 DEF ConnectionTold
<1>4. CASE OnClose
    BY <1>4 DEF OnClose, ConnectionTold
<1>5. CASE SubscribeAll
    <2>1. \E s \in Sockets : s[1] = "request" /\ ws'[s].open
        BY <1>0, <1>5, SubscribedSocket DEF SubscribeAll, Channels
    <2> QED BY <2>1 DEF ConnectionTold
<1>6. CASE \E s \in Sockets : ServerTick(s)
    <2>1. PICK s \in Sockets : ServerTick(s)
        BY <1>6
    <2>2. ws[s] \in Socket(s[1])
        BY <1>0 DEF Typed
    <2>3. [ws[s] EXCEPT !.queue = Append(@, Snapshot(s[1]))].open = ws[s].open
        BY <2>2 DEF Socket
    <2>4. Kept
        BY <1>0, <2>1, <2>3 DEF ServerTick, Typed
    <2> QED BY <2>1, <2>4, <1>1 DEF ServerTick
<1>7. CASE \E s \in Sockets : OnRequest(s)
    <2>1. PICK s \in Sockets : OnRequest(s)
        BY <1>7
    <2> DEFINE data == Head(ws[s].queue)
    <2>2. /\ Typed(Received(s)) /\ data \in RequestInfo
          /\ \A t \in Sockets : Received(s)[t].open = ws[t].open
        BY <1>0, <2>1, ReceivedType DEF OnRequest, MessageOf
    <2>3. ws' = Received(s) \/ ws' \in Subscribed(Received(s), data.domain)
        BY <2>1 DEF OnRequest
    <2>4. data.domain \in Channels
        BY <2>2 DEF RequestInfo, Channels
    <2> HIDE DEF data
    <2>5. Kept
        BY <2>2, <2>3, <2>4, SubscribedSocket
    <2> QED BY <2>1, <2>5, <1>1 DEF OnRequest
<1>8. CASE \E s \in Sockets : OnBaseInfo(s) \/ OnMachineInfo(s)
    <2>1. PICK s \in Sockets : OnBaseInfo(s) \/ OnMachineInfo(s)
        BY <1>8
    <2>2. /\ ws[s].queue # <<>> /\ ws' = Received(s)
          /\ UNCHANGED <<timers, lost>>
        BY <2>1 DEF OnBaseInfo, OnMachineInfo
    <2>3. Kept
        BY <1>0, <2>2, ReceivedType
    <2> QED BY <2>2, <2>3, <1>1
<1>9. CASE \/ ServerWorks \/ ServerClones \/ ServerAsksStart \/ ServerCloned
           \/ ServerCloneFails \/ ServerStarts \/ ServerDown
           \/ (\E kind \in Kinds \ {"clone", "start"} : ServerEnds(kind))
           \/ (\E c \in Calls : ServerPost(c))
    BY <1>9, <1>2 DEF ServerWorks, ServerClones, ServerAsksStart, ServerCloned,
        ServerCloneFails, ServerStarts, ServerDown, ServerEnds, ServerPost
<1>10. CASE \/ AnswerFirst("open", "refresh_ports") \/ AnswerFirst("close", "reopen")
            \/ AnswerRefresh \/ AnswerReopen \/ ReloadPorts \/ ClickDisplay
    BY <1>10, <1>2 DEF AnswerFirst, AnswerRefresh, AnswerReopen, ReloadPorts, ClickDisplay
<1>11. CASE UNCHANGED vars
    BY <1>11, <1>2 DEF vars
<1> QED BY <1>3, <1>4, <1>5, <1>6, <1>7, <1>8, <1>9, <1>10, <1>11 DEF Next, Server, Page

(* Whenever the page reports no lost connection it has a socket that follows *)
(* the request, or the report is on its way.                                 *)
THEOREM ConnectionIsTold == Spec => []ConnectionTold
<1>1. Init => ConnectionTold
    <2> SUFFICES ASSUME Init PROVE ConnectionTold
        OBVIOUS
    <2>1. <<"request", 1>> \in Sockets
        BY SocketsAssumption DEF Channels
    <2>2. ws[<<"request", 1>>].open
        BY <2>1 DEF Init, Opened
    <2> QED BY <2>1, <2>2 DEF ConnectionTold
<1> QED BY <1>1, TypeInit, TypeStep, ConnectionStep, PTL DEF Spec

-----------------------------------------------------------------------------
(* The redirection waits for the start.  While the start has not ended, an  *)
(* active machine has the clone or the start pending, so no message says of *)
(* it that it is active and idle, nor does what the page shows from one,    *)
(* which a message of the base tests again.                                 *)
Early(data) == data.active /\ data.idle
QueueLate(q) == \A i \in 1..Len(q) : ~Early(q[i])
StartPending == ~startEnded /\ active => pending \cap {"clone", "start"} # {}
Late == ~startEnded => \A s \in Sockets : s[1] # "request" => QueueLate(ws[s].queue)
ShownLate == ~startEnded /\ shown # Nothing => ~Early(shown)
StartInv == StartPending /\ Late /\ ShownLate /\ RedirectAfterStart

LEMMA QueueLateTail ==
    ASSUME NEW S, NEW q \in Seq(S), q # <<>>, QueueLate(q)
    PROVE  ~Early(Head(q)) /\ QueueLate(Tail(q))
<1>1. Len(q) \in Nat \ {0} /\ Head(q) = q[1]
    OBVIOUS
<1>2. ~Early(Head(q))
    BY <1>1 DEF QueueLate
<1>3. ASSUME NEW i \in 1..Len(Tail(q)) PROVE ~Early(Tail(q)[i])
    <2>1. Tail(q)[i] = q[i + 1] /\ i + 1 \in 1..Len(q)
        OBVIOUS
    <2> QED BY <2>1 DEF QueueLate
<1> QED BY <1>2, <1>3 DEF QueueLate

LEMMA QueueLateAppend ==
    ASSUME NEW S, NEW q \in Seq(S), NEW m, ~Early(m), QueueLate(q)
    PROVE  QueueLate(Append(q, m))
<1>1. Len(Append(q, m)) = Len(q) + 1 /\ Append(q, m)[Len(q) + 1] = m
    OBVIOUS
<1>2. ASSUME NEW i \in 1..Len(Append(q, m)) PROVE ~Early(Append(q, m)[i])
    <2>1. CASE i = Len(q) + 1
        BY <2>1, <1>1
    <2>2. CASE i \in 1..Len(q)
        <3>1. Append(q, m)[i] = q[i]
            BY <2>2
        <3> QED BY <3>1, <2>2 DEF QueueLate
    <2> QED BY <1>1, <2>1, <2>2
<1> QED BY <1>2 DEF QueueLate

LEMMA ReceivedLate ==
    ASSUME Typed(ws), Late, NEW s \in Sockets, ws[s].queue # <<>>
    PROVE  /\ ~startEnded => \A t \in Sockets : t[1] # "request" =>
                                QueueLate(Received(s)[t].queue)
           /\ ~startEnded /\ s[1] # "request" => ~Early(Head(ws[s].queue))
<1>1. ws[s].queue \in Seq(MessageOf(s[1]))
    BY DEF Typed, Socket
<1>2. ASSUME ~startEnded, s[1] # "request"
      PROVE  ~Early(Head(ws[s].queue)) /\ QueueLate(Tail(ws[s].queue))
    BY <1>1, <1>2, QueueLateTail DEF Late
<1> QED BY <1>2, ReceivedType DEF Late

LEMMA OpenedLate == QueueLate(Opened.queue) /\ QueueLate(Closed.queue)
BY DEF Opened, Closed, QueueLate

LEMMA StartInit == Init => StartInv
<1> SUFFICES ASSUME Init PROVE StartInv
    OBVIOUS
<1>1. StartPending
    BY DEF Init, StartPending
<1>2. Late
    BY OpenedLate DEF Init, Late
<1>3. RedirectAfterStart
    <2>1. redirect_done = FALSE
        BY DEF Init
    <2>2. ~(displays > 0)
        BY DEF Init
    <2> QED BY <2>1, <2>2 DEF RedirectAfterStart
<1>4. ShownLate
    BY DEF Init, ShownLate
<1> QED BY <1>1, <1>2, <1>3, <1>4 DEF StartInv

(* A message redirects only if the machine it tests is active and idle.     *)
LEMMA RedirectsLate ==
    ASSUME NEW machine, Redirects(machine), UNCHANGED <<startEnded, clicked>>, RedirectAfterStart,
           ~startEnded /\ machine # Nothing => ~Early(machine)
    PROVE  RedirectAfterStart'
<1>1. Ready(machine) => machine # Nothing /\ Early(machine)
    BY DEF Ready, Early
<1>2. /\ redirect_done' => redirect_done \/ Ready(machine)
      /\ displays' # displays => Ready(machine)
    BY DEF Redirects
<1> QED BY <1>1, <1>2 DEF RedirectAfterStart

LEMMA StartStep == Typing /\ StartInv /\ [Next]_vars => StartInv'
<1> SUFFICES ASSUME Typing, StartInv, [Next]_vars PROVE StartInv'
    OBVIOUS
<1> USE DEF StartInv
<1>0. Typed(ws) /\ displays \in 0..1 /\ startEnded \in BOOLEAN
    BY DEF Typing, TypeOK, ServerType, ViewType
<1>1. UNCHANGED <<startEnded, active, pending>> => StartPending'
    BY DEF StartPending
<1>2. UNCHANGED <<startEnded, ws>> => Late'
    BY DEF Late
<1>3. UNCHANGED <<startEnded, redirect_done, displays, clicked>> => RedirectAfterStart'
    BY DEF RedirectAfterStart
<1>30. UNCHANGED <<startEnded, shown>> => ShownLate'
    BY DEF ShownLate
<1>4. CASE ServerWorks \/ ServerClones \/ ServerAsksStart \/ ServerCloned \/ ServerCloneFails
    <2>1. UNCHANGED <<startEnded, ws, redirect_done, displays, clicked, shown>>
        BY <1>4 DEF ServerWorks, ServerClones, ServerAsksStart, ServerCloned,
                    ServerCloneFails, view, link
    <2>2. StartPending'
        BY <1>4 DEF ServerWorks, ServerClones, ServerAsksStart, ServerCloned,
                    ServerCloneFails, StartPending
    <2> QED BY <2>1, <2>2, <1>2, <1>3, <1>30
<1>5. CASE ServerStarts
    <2>1. startEnded' = TRUE
        BY <1>5 DEF ServerStarts
    <2> QED BY <2>1 DEF StartPending, Late, ShownLate, RedirectAfterStart
<1>6. CASE \E kind \in Kinds \ {"clone", "start"} : ServerEnds(kind)
    <2>1. UNCHANGED <<startEnded, ws, redirect_done, displays, clicked, shown, active>>
        BY <1>6 DEF ServerEnds, view, link
    <2>2. StartPending'
        BY <1>6, <2>1 DEF ServerEnds, StartPending
    <2> QED BY <2>1, <2>2, <1>2, <1>3, <1>30
<1>7. CASE ServerDown
    <2>1. UNCHANGED <<startEnded, ws, redirect_done, displays, clicked, shown>> /\ ~active'
        BY <1>7 DEF ServerDown, view, link
    <2> QED BY <2>1, <1>2, <1>3, <1>30 DEF StartPending
<1>8. CASE ConnectionLost
    <2>1. UNCHANGED <<startEnded, active, pending, redirect_done, displays, clicked, shown>>
        BY <1>8 DEF ConnectionLost, server, view
    <2>2. Late'
        BY <1>8, OpenedLate DEF ConnectionLost, Late
    <2> QED BY <2>1, <2>2, <1>1, <1>3, <1>30
<1>9. CASE \E s \in Sockets : ServerTick(s)
    <2>1. PICK s \in Sockets : ServerTick(s)
        BY <1>9
    <2>2. UNCHANGED <<startEnded, active, redirect_done, displays, clicked, shown>> /\ pending \subseteq pending'
        BY <2>1 DEF ServerTick, view
    <2>3. StartPending'
        BY <2>2 DEF StartPending
    <2> DEFINE more == [ws[s] EXCEPT !.queue = Append(@, Snapshot(s[1]))]
    <2>4. ws[s] \in Socket(s[1]) /\ ws[s].queue \in Seq(MessageOf(s[1]))
        BY <1>0 DEF Typed, Socket
    <2>5. more.queue = Append(ws[s].queue, Snapshot(s[1]))
        BY <2>4 DEF Socket
    <2>6. ws' = [ws EXCEPT ![s] = more]
        BY <2>1 DEF ServerTick
    <2>7. ASSUME ~startEnded, s[1] # "request" PROVE ~Early(Snapshot(s[1]))
        <3>1. active => pending # {}
            BY <2>7 DEF StartPending
        <3> QED BY <3>1, <2>7 DEF Snapshot, Early
    <2>8. ASSUME ~startEnded, s[1] # "request" PROVE QueueLate(more.queue)
        BY <2>4, <2>5, <2>7, <2>8, QueueLateAppend DEF Late
    <2> HIDE DEF more
    <2>9. Late'
        BY <1>0, <2>2, <2>6, <2>8 DEF Late, Typed
    <2> QED BY <2>2, <2>3, <2>9, <1>3, <1>30
<1>10. CASE \E c \in Calls : ServerPost(c)
    <2>1. PICK c \in Calls : ServerPost(c)
        BY <1>10
    <2>2. UNCHANGED <<startEnded, ws, active, redirect_done, displays, clicked, shown>> /\ pending \subseteq pending'
        BY <2>1 DEF ServerPost, view, link
    <2> QED BY <2>2, <1>2, <1>3, <1>30 DEF StartPending
<1>11. CASE \E s \in Sockets : OnRequest(s)
    <2>1. PICK s \in Sockets : OnRequest(s)
        BY <1>11
    <2> DEFINE data == Head(ws[s].queue)
    <2>2. UNCHANGED <<startEnded, active, pending, redirect_done, displays, clicked>>
        BY <2>1 DEF OnRequest, server
    <2>3. /\ ws[s].queue # <<>> /\ s[1] = "request"
          /\ ws' = Received(s) \/ ws' \in Subscribed(Received(s), data.domain)
        BY <2>1 DEF OnRequest
    <2>4. Typed(Received(s)) /\ data.domain \in Channels
        <3>1. data \in RequestInfo /\ Typed(Received(s))
            BY <1>0, <2>3, ReceivedType DEF MessageOf
        <3> QED BY <3>1 DEF RequestInfo, Channels
    <2> HIDE DEF data
    <2>5. \A t \in Sockets : ws'[t] \in {Received(s)[t], Opened}
        BY <2>3, <2>4, SubscribedSocket
    <2>6. Late'
        BY <1>0, <2>2, <2>3, <2>5, ReceivedLate, OpenedLate DEF Late
    <2>7. shown' \in {shown, Nothing}
        BY <2>1 DEF OnRequest
    <2> QED BY <2>2, <2>6, <2>7, <1>1, <1>3 DEF ShownLate
<1>12. CASE \E s \in Sockets : OnBaseInfo(s)
    <2>1. PICK s \in Sockets : OnBaseInfo(s)
        BY <1>12
    <2>2. UNCHANGED <<startEnded, active, pending, clicked, shown>>
        BY <2>1 DEF OnBaseInfo, server
    <2>3. ws[s].queue # <<>> /\ ws' = Received(s) /\ Redirects(shown)
        BY <2>1 DEF OnBaseInfo
    <2>4. Late'
        BY <1>0, <2>2, <2>3, ReceivedLate DEF Late
    <2>5. RedirectAfterStart'
        BY <2>2, <2>3, RedirectsLate DEF ShownLate
    <2> QED BY <2>2, <2>4, <2>5, <1>1, <1>30
<1>13. CASE \E s \in Sockets : OnMachineInfo(s)
    <2>1. PICK s \in Sockets : OnMachineInfo(s)
        BY <1>13
    <2> DEFINE data == Head(ws[s].queue)
    <2>2. UNCHANGED <<startEnded, active, pending, clicked>>
        BY <2>1 DEF OnMachineInfo, server
    <2>3. ws[s].queue # <<>> /\ ws' = Received(s) /\ s[1] # "request"
        BY <2>1 DEF OnMachineInfo, Base, Machine
    <2>4. Late' /\ (~startEnded => ~Early(data))
        BY <1>0, <2>2, <2>3, ReceivedLate DEF Late
    <2>5. Redirects(data) /\ shown' = data
        BY <2>1 DEF OnMachineInfo
    <2> HIDE DEF data
    <2>6. RedirectAfterStart'
        BY <2>2, <2>4, <2>5, RedirectsLate
    <2>7. ShownLate'
        BY <2>2, <2>4, <2>5 DEF ShownLate, Early
    <2> QED BY <2>2, <2>4, <2>6, <2>7, <1>1
<1>14. CASE \/ AnswerFirst("open", "refresh_ports") \/ AnswerFirst("close", "reopen")
            \/ AnswerRefresh \/ AnswerReopen \/ OnClose
    <2>1. UNCHANGED <<startEnded, active, pending, ws, redirect_done, displays, clicked, shown>>
        BY <1>14 DEF AnswerFirst, AnswerRefresh, AnswerReopen, OnClose,
                     server, view, link
    <2> QED BY <2>1, <1>1, <1>2, <1>3, <1>30
<1>15. CASE SubscribeAll
    <2>1. UNCHANGED <<startEnded, active, pending, redirect_done, displays, clicked, shown>>
        BY <1>15 DEF SubscribeAll, server, view
    <2>2. \A t \in Sockets : ws'[t] \in {ws[t], Opened}
        BY <1>0, <1>15, SubscribedSocket DEF SubscribeAll, Channels
    <2>3. Late'
        BY <2>1, <2>2, OpenedLate DEF Late
    <2> QED BY <2>1, <2>3, <1>1, <1>3, <1>30
<1>16. CASE UNCHANGED vars
    BY <1>16, <1>1, <1>2, <1>3, <1>30 DEF vars, server, view, link
<1>17. CASE ReloadPorts
    <2>1. UNCHANGED <<startEnded, active, pending, ws, redirect_done, displays, clicked>>
        BY <1>17 DEF ReloadPorts, server, link
    <2>2. shown \in MachineInfo /\ shown' = [shown EXCEPT !.idle = FALSE]
        BY <1>17 DEF ReloadPorts, Typing, TypeOK, ViewType
    <2>3. ~shown'.idle
        BY <2>2 DEF MachineInfo
    <2>4. ShownLate'
        BY <2>3 DEF ShownLate, Early
    <2> QED BY <2>1, <2>4, <1>1, <1>2, <1>3
<1>18. CASE ClickDisplay
    <2>1. UNCHANGED <<startEnded, active, pending, ws, displays, shown>> /\ clicked' = TRUE
        BY <1>18 DEF ClickDisplay, server, link
    <2>2. RedirectAfterStart'
        BY <2>1 DEF RedirectAfterStart
    <2> QED BY <2>1, <2>2, <1>1, <1>2, <1>30
<1> QED BY <1>4, <1>5, <1>6, <1>7, <1>8, <1>9, <1>10, <1>11, <1>12, <1>13, <1>14, <1>15, <1>16, <1>17,
           <1>18 DEF Next, Server, Page

(* The page opens the viewer and schedules the logout by itself only after   *)
(* the start of the machine has ended, for a clone that is up before it is   *)
(* started too, and on messages of the base that test an old machine again.  *)
THEOREM RedirectWaits == Spec => []RedirectAfterStart
<1> QED BY TypeInit, TypeStep, StartInit, StartStep, PTL DEF Spec, StartInv

=============================================================================
