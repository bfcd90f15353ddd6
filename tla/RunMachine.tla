----------------------------- MODULE RunMachine -----------------------------
(***************************************************************************)
(* The page that waits for a machine to start and shows its display:       *)
(* run_domain_req_ctrl of public/js/ravada.js, with the requests and the    *)
(* web sockets of the server it listens to.  The page follows one request  *)
(* (a start, or a clone that is started when it is made), then the machine *)
(* that request names, each in a socket of its own.  Messages of a socket  *)
(* are snapshots of the server and may be old when they are handled.        *)
(*                                                                         *)
(* Beside a definition stands, at times, a faulty variant Next never       *)
(* reaches: OnCloseOfMachine, OnBaseInfoOnce, ReadyBusy, ViewedAgain.  Put  *)
(* in its place, it breaks one of the properties.                          *)
(***************************************************************************)
EXTENDS Naturals, Integers, Sequences, FiniteSets

CONSTANTS
    Sockets,      \* pairs of a channel and a number: the web sockets of the page
    MaxUnderWay,  \* bound: messages of one socket not handled yet
    MaxEvents,    \* bound of the bounds of a story
    Stories       \* what is requested; see Story

Base == "base"
Machine == "machine"
None == "none"

(* What a page listens to, each in sockets of its own.                      *)
Channels == {"request", Base, Machine}

(* clone: the page follows a request that clones Base; volatile: such a    *)
(* clone is active from its creation; ports: the machine has exposed       *)
(* ports; viewer: auto_view is on and the display has a file and no        *)
(* password; losses, downs, reloads: bounds on the connections lost, on    *)
(* the times the machine is shut down, and on the clicks on "reopen".      *)
Story == [clone: BOOLEAN, volatile: BOOLEAN, ports: BOOLEAN, viewer: BOOLEAN,
          losses: 0..MaxEvents, downs: 0..MaxEvents, reloads: 0..MaxEvents]

ASSUME StoriesAssumption == Stories \subseteq Story
ASSUME SocketsAssumption ==
    /\ IsFiniteSet(Sockets) /\ Sockets \subseteq Channels \X Nat
    /\ \A channel \in Channels : <<channel, 1>> \in Sockets
ASSUME BoundsAssumption == MaxUnderWay \in Nat \ {0} /\ MaxEvents \in Nat

VARIABLES
    \* server
    story, request, active, ip, pending, startEnded, downs,
    \* page: sockets and posts
    ws, timers, calls, losses, reloads,
    \* page: $scope
    already_subscribed, already_refreshed, seen, shown, count_start,
    redirect_time, redirect_done, displays, lost,
    clicked,       \* history: the user opened the display with a link
    request_open_ports, request_open_ports_done

server == <<story, request, active, ip, pending, startEnded, downs>>
portVars == <<already_refreshed, calls, reloads, request_open_ports, request_open_ports_done>>
view == <<seen, shown, count_start, redirect_time, redirect_done, displays, clicked>>
link == <<ws, timers, losses, already_subscribed, lost>>
vars == <<server, portVars, view, link>>

Statuses == {"requested", "working", "done"}
RequestInfo == [status: Statuses, unknown: BOOLEAN, domain: {Base, Machine}]
(* active and idle are is_active and requests == 0 of domain.info.         *)
MachineInfo == [is_base: BOOLEAN, active: BOOLEAN, idle: BOOLEAN, ip: BOOLEAN, ports: BOOLEAN]
Nothing == [none |-> TRUE]
Kinds == {"clone", "start", "open", "refresh_ports", "close", "refresh_machine"}
Calls == {"open", "refresh_ports", "close", "reopen"}

MessageOf(channel) == IF channel = "request" THEN RequestInfo ELSE MachineInfo
Socket(channel) == [open: BOOLEAN, queue: Seq(MessageOf(channel))]
Closed == [open |-> FALSE, queue |-> <<>>]
Opened == [open |-> TRUE, queue |-> <<>>]

-----------------------------------------------------------------------------
Init ==
    /\ story \in Stories
    /\ request = [status |-> "requested", unknown |-> FALSE,
                  domain |-> IF story.clone THEN Base ELSE Machine]
    /\ active \in IF story.clone THEN {FALSE} ELSE BOOLEAN
    /\ ip = FALSE
    /\ pending = IF story.clone THEN {} ELSE {"start"}
    /\ startEnded = FALSE
    /\ downs = 0
    /\ ws = [s \in Sockets |-> IF s = <<"request", 1>> THEN Opened ELSE Closed]
    /\ timers = 0
    /\ calls = [c \in Calls |-> None]
    /\ losses = 0 /\ reloads = 0
    /\ already_subscribed = FALSE
    /\ already_refreshed = FALSE
    /\ seen = Nothing
    /\ shown = Nothing
    /\ count_start = 0
    /\ redirect_time = 1
    /\ redirect_done = FALSE
    /\ displays = 0
    /\ clicked = FALSE
    /\ lost = FALSE
    /\ request_open_ports = FALSE
    /\ request_open_ports_done = FALSE

-----------------------------------------------------------------------------
(* The server: the daemon executes the requests.                            *)
ServerWorks ==
    /\ request.status = "requested"
    /\ request' = [request EXCEPT !.status = "working"]
    /\ UNCHANGED <<story, active, ip, pending, startEnded, downs, portVars, view, link>>

(* _cmd_clone makes the machine and writes it in the request, ...           *)
ServerClones ==
    /\ story.clone /\ request.status = "working" /\ request.domain = Base
    /\ request' = [request EXCEPT !.domain = Machine]
    /\ pending' = pending \cup {"clone"}
    /\ active' = story.volatile
    /\ UNCHANGED <<story, ip, startEnded, downs, portVars, view, link>>

(* ... then asks for its start, ...                                         *)
ServerAsksStart ==
    /\ "clone" \in pending /\ "start" \notin pending
    /\ pending' = pending \cup {"start"}
    /\ UNCHANGED <<story, request, active, ip, startEnded, downs, portVars, view, link>>

(* ... and is done.                                                         *)
ServerCloned ==
    /\ {"clone", "start"} \subseteq pending
    /\ pending' = pending \ {"clone"}
    /\ request' = [request EXCEPT !.status = "done"]
    /\ UNCHANGED <<story, active, ip, startEnded, downs, portVars, view, link>>

(* The clone fails before the machine exists, or its base is gone.          *)
ServerCloneFails ==
    /\ story.clone /\ request.status = "working" /\ request.domain = Base
    /\ \E unknown \in BOOLEAN :
        request' = [request EXCEPT !.status = "done", !.unknown = unknown]
    /\ UNCHANGED <<story, active, ip, pending, startEnded, downs, portVars, view, link>>

(* The start ends, well or with an error.                                   *)
ServerStarts ==
    /\ "start" \in pending /\ "clone" \notin pending
    /\ story.clone \/ request.status = "working"
    /\ pending' = pending \ {"start"}
    /\ startEnded' = TRUE
    /\ active' \in {active, TRUE}
    /\ request' = [request EXCEPT !.status = "done"]
    /\ UNCHANGED <<story, ip, downs, portVars, view, link>>

(* The other requests for the machine end; refresh_machine finds its        *)
(* address.  The ports wait for the request the page follows.               *)
ServerEnds(kind) ==
    /\ kind \in pending
    /\ kind \in {"open", "refresh_ports"} => request.status = "done"
    /\ kind = "refresh_ports" => "open" \notin pending
    /\ kind = "open" => "close" \notin pending
    /\ pending' = pending \ {kind}
    /\ ip' = (ip \/ (kind = "refresh_machine" /\ active))
    /\ UNCHANGED <<story, request, active, startEnded, downs, portVars, view, link>>

(* The machine shuts down, from inside or by another page.                  *)
ServerDown ==
    /\ active /\ startEnded /\ downs < story.downs
    /\ downs' = downs + 1
    /\ active' = FALSE
    /\ ip' = FALSE
    /\ UNCHANGED <<story, request, pending, startEnded, portVars, view, link>>

(* A tick of WebSocket.pm sends one snapshot.  Requests are sent at each    *)
(* tick; a machine when its row changed or sixty seconds have passed, so at *)
(* any tick.  A machine that is active with no address is asked again.      *)
Snapshot(channel) ==
    CASE channel = "request" -> request
      [] channel = Base -> [is_base |-> TRUE, active |-> FALSE, idle |-> TRUE,
                            ip |-> FALSE, ports |-> FALSE]
      [] OTHER -> [is_base |-> FALSE, active |-> active, idle |-> pending = {},
                   ip |-> ip, ports |-> story.ports]

ServerTick(s) ==
    /\ ws[s].open /\ Len(ws[s].queue) < MaxUnderWay
    /\ ws' = [ws EXCEPT ![s].queue = Append(@, Snapshot(s[1]))]
    /\ pending' = IF s[1] = Machine /\ active /\ ~ip
                  THEN pending \cup {"refresh_machine"} ELSE pending
    /\ UNCHANGED <<story, request, active, ip, startEnded, downs, portVars, view,
                   timers, losses, already_subscribed, lost>>

(* The server goes away: every socket is closed and what it had sent too.   *)
OpenSockets == {s \in Sockets : ws[s].open}

ConnectionLost ==
    /\ losses < story.losses
    /\ losses' = losses + 1
    /\ OpenSockets # {}
    /\ timers' = timers + Cardinality(OpenSockets)
    /\ ws' = [s \in Sockets |-> Closed]
    /\ UNCHANGED <<server, portVars, view, already_subscribed, lost>>

-----------------------------------------------------------------------------
(* The page.  A socket that closes is reported five seconds later.          *)
OnCloseOfMachine ==
    /\ timers > 0
    /\ timers' = timers - 1
    /\ lost' = already_subscribed
    /\ UNCHANGED <<server, portVars, view, ws, losses, already_subscribed>>

OnClose ==
    /\ timers > 0
    /\ timers' = timers - 1
    /\ lost' = TRUE
    /\ UNCHANGED <<server, portVars, view, ws, losses, already_subscribed>>

(* w after new WebSocket for the channel.  The page never closes a socket    *)
(* and may open any number; bound: Sockets, which stand for the rest.         *)
Subscribed(w, channel) ==
    LET free == {s \in Sockets : s[1] = channel /\ ~w[s].open} IN
    IF free = {} THEN {w} ELSE {[w EXCEPT ![s] = Opened] : s \in free}

(* subscribe_all, the button "connect again".                               *)
SubscribeAll ==
    /\ lost
    /\ lost' = FALSE
    /\ already_subscribed' = FALSE
    /\ ws' \in Subscribed(ws, "request")
    /\ UNCHANGED <<server, portVars, view, timers, losses>>

Received(s) == [ws EXCEPT ![s].queue = Tail(@)]

(* A message of the request: the first one after a base, or of all, opens a *)
(* socket for the machine the request names.                                *)
OnRequest(s) ==
    /\ s[1] = "request" /\ ws[s].queue # <<>>
    /\ LET data == Head(ws[s].queue) IN
        /\ seen' = data
        /\ shown' = IF data.unknown THEN Nothing ELSE shown
        /\ IF already_subscribed
           THEN ws' = Received(s)
           ELSE ws' \in Subscribed(Received(s), data.domain)
    /\ already_subscribed' = TRUE
    /\ UNCHANGED <<server, portVars, count_start, redirect_time, redirect_done, displays,
                   clicked, timers, losses, lost>>

(* The test each message makes of the machine that is shown after it.       *)
ReadyBusy(machine) ==
    machine # Nothing /\ machine.active /\ seen # Nothing /\ seen.status = "done"
Ready(machine) ==
    /\ machine # Nothing /\ machine.active /\ machine.idle
    /\ seen # Nothing /\ seen.status = "done"

(* redirect_time-- < 0, kept at -1 when it goes below.                      *)
Countdown == IF redirect_time = -1 THEN -1 ELSE redirect_time - 1

(* The viewer is opened for a machine without ports, once.                  *)
ViewedAgain(machine) == IF story.viewer /\ ~machine.ports THEN displays + 1 ELSE displays
Viewed(machine) ==
    IF story.viewer /\ ~machine.ports /\ displays = 0 THEN 1 ELSE displays

(* How the handler of a message ends, of the base too: from the third that  *)
(* finds the machine shown ready on, the logout is scheduled and the viewer  *)
(* opened, once each.                                                       *)
Redirects(machine) ==
    LET ends == Ready(machine) /\ redirect_time < 0 IN
    /\ redirect_time' = IF Ready(machine) THEN Countdown ELSE redirect_time
    /\ redirect_done' = (redirect_done \/ ends)
    /\ displays' = IF ends THEN Viewed(machine) ELSE displays
    /\ request_open_ports_done' =
          \/ request_open_ports_done
          \/ request_open_ports /\ machine # Nothing /\ machine.ip /\ machine.idle

(* A message of the base: the clone is not there yet.  The machine shown,   *)
(* if any, stays as an older message left it.                               *)
OnBaseInfoOnce(s) ==
    /\ s[1] \in {Base, Machine} /\ ws[s].queue # <<>>
    /\ Head(ws[s].queue).is_base
    /\ ws' = Received(s)
    /\ count_start' = 0
    /\ Redirects(shown)
    /\ UNCHANGED <<server, already_refreshed, calls, reloads, request_open_ports, seen, shown,
                   clicked, timers, losses, already_subscribed, lost>>

OnBaseInfo(s) ==
    /\ s[1] \in {Base, Machine} /\ ws[s].queue # <<>>
    /\ Head(ws[s].queue).is_base
    /\ ws' = Received(s)
    /\ already_subscribed' = FALSE
    /\ count_start' = 0
    /\ Redirects(shown)
    /\ UNCHANGED <<server, already_refreshed, calls, reloads, request_open_ports, seen, shown,
                   clicked, timers, losses, lost>>

(* A message of the machine: the first asks for its ports, all show it.     *)
OnMachineInfo(s) ==
    /\ s[1] \in {Base, Machine} /\ ws[s].queue # <<>>
    /\ ~Head(ws[s].queue).is_base
    /\ LET data == Head(ws[s].queue)
       IN /\ shown' = data
          /\ calls' = IF ~already_refreshed /\ data.ports
                      THEN [calls EXCEPT !["open"] = "sent"] ELSE calls
          /\ Redirects(data)
    /\ ws' = Received(s)
    /\ already_refreshed' = TRUE
    /\ count_start' = IF count_start = 3 THEN 3 ELSE count_start + 1  \* shown as > 2
    /\ UNCHANGED <<server, reloads, request_open_ports, seen, clicked, timers, losses,
                   already_subscribed, lost>>

(* The links of a display call redirect themselves, whatever the request    *)
(* and the countdown say; they are shown for a machine that is active.       *)
ClickDisplay ==
    /\ shown # Nothing /\ shown.active /\ ~redirect_done
    /\ redirect_done' = TRUE
    /\ clicked' = TRUE
    /\ UNCHANGED <<server, portVars, seen, shown, count_start, redirect_time, displays, link>>

-----------------------------------------------------------------------------
(* The ports.  The server inserts what a post asks for; the answers chain:  *)
(* refresh_ports posts open, then refresh; reload_ports posts close, then   *)
(* open.                                                                    *)
Posted(c) == CASE c = "refresh_ports" -> "refresh_ports" [] c = "close" -> "close" [] OTHER -> "open"

ServerPost(c) ==
    /\ calls[c] = "sent"
    /\ calls' = [calls EXCEPT ![c] = "answered"]
    /\ pending' = pending \cup {Posted(c)}
    /\ UNCHANGED <<story, request, active, ip, startEnded, downs, already_refreshed, reloads,
                   request_open_ports, request_open_ports_done, view, link>>

AnswerFirst(c, next) ==
    /\ calls[c] = "answered"
    /\ calls' = [calls EXCEPT ![c] = None, ![next] = "sent"]
    /\ UNCHANGED <<server, already_refreshed, reloads, request_open_ports,
                   request_open_ports_done, view, link>>

AnswerRefresh ==
    /\ calls["refresh_ports"] = "answered"
    /\ calls' = [calls EXCEPT !["refresh_ports"] = None]
    /\ request_open_ports' = TRUE
    /\ UNCHANGED <<server, already_refreshed, reloads, request_open_ports_done, view, link>>

AnswerReopen ==
    /\ calls["reopen"] = "answered"
    /\ calls' = [calls EXCEPT !["reopen"] = None]
    /\ request_open_ports' = TRUE
    /\ request_open_ports_done' = FALSE
    /\ UNCHANGED <<server, already_refreshed, reloads, view, link>>

(* reload_ports, the button "reopen".                                       *)
ReloadPorts ==
    /\ request_open_ports /\ shown # Nothing /\ shown.idle
    /\ reloads < story.reloads /\ calls["close"] = None /\ calls["reopen"] = None
    /\ reloads' = reloads + 1
    /\ request_open_ports_done' = FALSE
    /\ redirect_time' = 2
    /\ shown' = [shown EXCEPT !.idle = FALSE]
    /\ calls' = [calls EXCEPT !["close"] = "sent"]
    /\ UNCHANGED <<server, already_refreshed, request_open_ports, seen, count_start,
                   redirect_done, displays, clicked, link>>

-----------------------------------------------------------------------------
Server ==
    \/ ServerWorks \/ ServerClones \/ ServerAsksStart \/ ServerCloned \/ ServerCloneFails
    \/ ServerStarts
    \/ \E kind \in Kinds \ {"clone", "start"} : ServerEnds(kind)
    \/ ServerDown \/ ConnectionLost
    \/ \E s \in Sockets : ServerTick(s)
    \/ \E c \in Calls : ServerPost(c)

Page ==
    \/ \E s \in Sockets : OnRequest(s) \/ OnBaseInfo(s) \/ OnMachineInfo(s)
    \/ AnswerFirst("open", "refresh_ports") \/ AnswerFirst("close", "reopen")
    \/ AnswerRefresh \/ AnswerReopen
    \/ OnClose \/ ReloadPorts \/ SubscribeAll \/ ClickDisplay

Next == Server \/ Page

Spec == Init /\ [][Next]_vars

(* The server ticks and executes what is pending; the browser handles what  *)
(* has arrived.  Nobody has to press a button.                              *)
Fairness ==
    /\ \A s \in Sockets :
        /\ WF_vars(ServerTick(s)) /\ WF_vars(OnRequest(s))
        /\ WF_vars(OnBaseInfo(s)) /\ WF_vars(OnMachineInfo(s))
    /\ WF_vars(OnClose)
    /\ \A kind \in Kinds \ {"clone", "start"} : WF_vars(ServerEnds(kind))
    /\ \A c \in Calls : WF_vars(ServerPost(c))

FairSpec == Spec /\ Fairness

-----------------------------------------------------------------------------
ServerType ==
    /\ story \in Stories
    /\ request \in RequestInfo
    /\ active \in BOOLEAN /\ ip \in BOOLEAN /\ startEnded \in BOOLEAN
    /\ pending \subseteq Kinds
    /\ downs \in 0..MaxEvents

PortsType ==
    /\ calls \in [Calls -> {None, "sent", "answered"}]
    /\ reloads \in 0..MaxEvents
    /\ already_refreshed \in BOOLEAN
    /\ request_open_ports \in BOOLEAN /\ request_open_ports_done \in BOOLEAN

ViewType ==
    /\ seen \in RequestInfo \cup {Nothing}
    /\ shown \in MachineInfo \cup {Nothing}
    /\ count_start \in 0..3
    /\ redirect_time \in -1..2
    /\ redirect_done \in BOOLEAN /\ displays \in 0..1 /\ clicked \in BOOLEAN

LinkType ==
    /\ DOMAIN ws = Sockets /\ \A s \in Sockets : ws[s] \in Socket(s[1])
    /\ timers \in Nat /\ losses \in 0..MaxEvents
    /\ already_subscribed \in BOOLEAN /\ lost \in BOOLEAN

TypeOK == ServerType /\ PortsType /\ ViewType /\ LinkType

(* The page opens the viewer, and schedules the logout by itself, only      *)
(* after the start of the machine has ended: not when the request that      *)
(* cloned it is done and the machine is up but its start is still in the    *)
(* queue, though messages of the base make it look again at an old state.   *)
RedirectAfterStart == displays > 0 \/ (redirect_done /\ ~clicked) => startEnded

(* The page that says nothing of the connection has one: a socket of the    *)
(* request is open, or a loss is about to be reported, whatever the order *)
(* of closing sockets, their timers and the button that connects again.     *)
ConnectionTold ==
    lost \/ timers > 0 \/ \E s \in Sockets : s[1] = "request" /\ ws[s].open

(* If the machine stays up with nothing pending, the page schedules the     *)
(* logout and opens the viewer, or has reported a lost connection, whatever  *)
(* messages of the base and of older states arrived first.                  *)
Settled == request.status = "done" /\ request.domain = Machine /\ active /\ pending = {}
Served == redirect_done /\ (story.viewer /\ ~story.ports => displays > 0)
EndsUp == <>[]Settled => <>(Served \/ lost)
=============================================================================
