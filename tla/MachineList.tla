---------------------------- MODULE MachineList ----------------------------
(***************************************************************************)
(* The list of machines of the administrators: machinesPageC of            *)
(* public/js/admin.js with the channel list_machines_tree of WebSocket.pm.  *)
(* The server keeps, for each socket, what the page asked to see; it sends  *)
(* whole lists and, most times, only the rows changed.  The page merges     *)
(* them by place or by id, and hides and shows rows by flags of its own.    *)
(* n_clones, which only feeds a spinner, and clones of clones are left out. *)
(*                                                                         *)
(* Faulty variants Next never reaches: AskedNoName, NewRowsAfter,          *)
(* SameRowByDate, SameRowById.                                             *)
(***************************************************************************)
EXTENDS Naturals, Sequences, FiniteSets, SequencesExt, Sorting

CONSTANTS
    Machines,    \* ids
    BaseOf,      \* the base of each clone, or NoBase
    Filters,     \* what is typed: the set of machines whose name matches
    FirstNames,  \* the names at first
    MaxNames,    \* bound: names are 1..MaxNames, in order
    MaxSockets,  \* bound: sockets the page opens
    MaxEvents,   \* bound of the bounds of a story
    Stories      \* bounds: see Story

NoBase == "no base"
Clones == {m \in Machines : BaseOf[m] # NoBase}
Bases == {BaseOf[m] : m \in Clones}
NoFilter == {}

ASSUME MachinesAssumption ==
    /\ IsFiniteSet(Machines) /\ NoBase \notin Machines
    /\ BaseOf \in [Machines -> Machines \cup {NoBase}] /\ Bases \cap Clones = {}
(* How often the table changes, the user asks for other rows or opens a     *)
(* dialog, the list is loaded again, and the connection is lost.            *)
Story == [changes: 0..MaxEvents, clicks: 0..MaxEvents, dialogs: 0..MaxEvents,
          reloads: 0..MaxEvents, losses: 0..MaxEvents]

ASSUME StoriesAssumption == Stories \subseteq Story
ASSUME BoundsAssumption == {MaxNames, MaxEvents} \subseteq Nat /\ MaxSockets \in Nat \ {0}
(* A name is of one machine.                                                *)
ASSUME NamesAssumption ==
    /\ FirstNames \in [Machines -> 1..MaxNames]
    /\ \A m, o \in Machines : FirstNames[m] = FirstNames[o] => m = o
ASSUME FiltersAssumption == Filters \subseteq SUBSET Machines /\ NoFilter \in Filters

VARIABLES
    left,                                           \* what may still happen
    alive, active, name, date_changed, now,         \* server: the table
    client,                                         \* server: each socket's data
    channel,                                        \* sockets, with what they carry
    list_machines, length, show_active, filter,     \* page: $scope
    show_clones, show_machine, n_active, modalOpened,
    ws_list_machines, ws_connection_lost, timers           \* page: connection

table == <<alive, active, name, date_changed, now>>
scope == <<list_machines, length, show_active, filter, show_clones, show_machine, n_active>>
link == <<ws_list_machines, ws_connection_lost, timers>>
vars == <<left, table, client, channel, scope, modalOpened, link>>

Sockets == 1..MaxSockets
(* time is _list_machines_time (3: any more); count the rows last counted;  *)
(* changed those changed since the last list; answered: a list was sent     *)
(* for a command since the last tick.                                       *)
Client == [known: BOOLEAN, show_clones: SUBSET Bases, show_active: BOOLEAN,
           show_name: Filters, time: 0..3, count: 0..Cardinality(Machines) + 1,
           changed: SUBSET Machines, answered: BOOLEAN]
NewClient == [known |-> FALSE, show_clones |-> {}, show_active |-> FALSE, show_name |-> NoFilter,
              time |-> 0, count |-> Cardinality(Machines) + 1, changed |-> {}, answered |-> FALSE]
Closed == [state |-> "closed", sent |-> <<>>, queue |-> <<>>]
Row == [id: Machines, name: 1..MaxNames, active: BOOLEAN, date: 0..MaxEvents, show: BOOLEAN]

Init ==
    /\ left \in Stories
    /\ alive = Machines
    /\ active \in {{m} : m \in Machines \ Bases}
    /\ name = FirstNames
    /\ date_changed = [m \in Machines |-> 0] /\ now = 0
    /\ client = [s \in Sockets |-> NewClient]
    /\ channel = [s \in Sockets |-> IF s = 1 THEN [Closed EXCEPT !.state = "opening"] ELSE Closed]
    /\ list_machines = <<>> /\ length = 0
    /\ show_active = FALSE /\ filter = NoFilter
    /\ show_clones = [b \in Bases |-> "unset"] /\ show_machine = {}
    /\ n_active = 0 /\ modalOpened = FALSE
    /\ ws_list_machines = 1 /\ ws_connection_lost = FALSE /\ timers = 0

Happens(what) == left[what] > 0 /\ left' = [left EXCEPT ![what] = @ - 1]

-----------------------------------------------------------------------------
(* The server: the table domains.  now counts changes; two changes *)
(* of a row within a second leave the same date.                            *)
Changed(m) ==
    /\ Happens("changes")
    /\ now' = now + 1
    /\ client' = [s \in Sockets |-> [client[s] EXCEPT !.changed = @ \cup {m}]]
    /\ \E date \in {date_changed[m], now + 1} :
          date_changed' = [date_changed EXCEPT ![m] = date]
    /\ UNCHANGED <<channel, scope, modalOpened, link>>

SwitchPower(m) ==
    /\ m \in alive \ Bases
    /\ active' = IF m \in active THEN active \ {m} ELSE active \cup {m}
    /\ Changed(m)
    /\ UNCHANGED <<alive, name>>

Rename(m) ==
    /\ m \in alive
    /\ \E n \in 1..MaxNames : (\A o \in Machines : name[o] # n) /\ name' = [name EXCEPT ![m] = n]
    /\ Changed(m)
    /\ UNCHANGED <<alive, active>>

(* Removed, or made again.                                                  *)
AddOrRemove(m) ==
    /\ m \notin {BaseOf[c] : c \in alive}
    /\ m \in Clones => BaseOf[m] \in alive
    /\ alive' = IF m \in alive THEN alive \ {m} ELSE alive \cup {m}
    /\ active' = active \ {m}
    /\ Changed(m)
    /\ UNCHANGED name

-----------------------------------------------------------------------------
(* list_domains with the conditions of a client, joined by OR, and          *)
(* _list_children: bases by name, each followed by its clones.              *)
AskedNoName(c) == {m \in alive : \/ BaseOf[m] = NoBase \/ BaseOf[m] \in c.show_clones
                                 \/ c.show_active /\ m \in active}
Asked(c) == {m \in alive : \/ BaseOf[m] = NoBase \/ BaseOf[m] \in c.show_clones
                           \/ c.show_active /\ m \in active
                           \/ m \in c.show_name}

RootOf(m) == IF BaseOf[m] = NoBase THEN m ELSE BaseOf[m]
Before(m, o) ==
    IF RootOf(m) # RootOf(o) THEN name[RootOf(m)] < name[RootOf(o)]
    ELSE o # m /\ (m = RootOf(m) \/ (o # RootOf(o) /\ name[m] < name[o]))

RowOf(m) == [id |-> m, name |-> name[m], active |-> m \in active, date |-> date_changed[m],
             show |-> FALSE]
Data(set) ==
    LET sorted == Sorted(set, {pair \in set \X set : Before(pair[1], pair[2])})
    IN [i \in DOMAIN sorted |-> RowOf(sorted[i])]
List(kind, set) == [action |-> kind, n_active |-> Cardinality(active), data |-> Data(set)]

(* _show_clones_parents: the base of a clone that is listed is asked for.   *)
Parents(c, set) == {BaseOf[m] : m \in set \cap Clones} \ c.show_clones

(* A whole list, and the client after it.                                   *)
AfterWhole(c, time) ==
    LET parents == Parents(c, Asked(c)) IN
    [c EXCEPT !.show_clones = @ \cup parents, !.changed = {},
              !.time = IF parents = {} THEN time ELSE 1]
WholeList(c) == List("new", Asked(AfterWhole(c, 1)))

(* manage_action.  The first message of a socket only makes the client.     *)
Applied(c, cmd) ==
    CASE cmd.do = "show_clones" ->
            [c EXCEPT !.show_clones = IF cmd.value THEN @ \cup {cmd.id} ELSE @ \ {cmd.id}]
      [] cmd.do = "show_active" ->
            [c EXCEPT !.show_active = cmd.value, !.show_clones = IF cmd.value THEN {} ELSE @]
      [] cmd.do = "show_name" -> [c EXCEPT !.show_name = cmd.id]
      [] OTHER -> c
Managed(c, cmd) == IF ~c.known THEN [c EXCEPT !.known = TRUE] ELSE Applied(c, cmd)

(* subscribe: each message of the page is answered with a whole list; equal *)
(* lists in a row are taken as one.                                         *)
ServerReceives(s) ==
    /\ channel[s].sent # <<>>
    /\ \E c \in {AfterWhole(Managed(client[s], Head(channel[s].sent)),
                          IF client[s].time = 0 THEN 1 ELSE 2)} :
       \E list \in {List("new", Asked(c))} :
        /\ client' = [client EXCEPT ![s] = [c EXCEPT !.answered = TRUE]]
        /\ channel' = [channel EXCEPT
                ![s].sent = Tail(@),
                ![s].queue = IF @ # <<>> /\ Last(@) = list THEN @ ELSE Append(@, list)]
    /\ UNCHANGED <<left, table, scope, modalOpened, link>>

Send(s, cmds) == channel' = [channel EXCEPT ![s].sent = @ \o cmds]

ListCmd == [do |-> "list", id |-> NoFilter, value |-> TRUE]
ShowClonesCmd(b, value) == [do |-> "show_clones", id |-> b, value |-> value]
ShowActiveCmd(value) == [do |-> "show_active", id |-> NoFilter, value |-> value]
ShowNameCmd(f) == [do |-> "show_name", id |-> f, value |-> TRUE]

-----------------------------------------------------------------------------
(* A tick of the server, every three seconds.  Bound: one list under way.   *)
Idle(s) == channel[s].state = "open" /\ channel[s].queue = <<>> /\ channel[s].sent = <<>>
Ticks(s) == Idle(s) /\ client[s].known

Put(s, c, list) ==
    /\ client' = [client EXCEPT ![s] = [c EXCEPT !.answered = FALSE]]
    /\ channel' = [channel EXCEPT ![s].queue = Append(@, list)]
    /\ UNCHANGED <<left, table, scope, modalOpened, link>>

(* The second list, a number of rows that is not the one counted last, or   *)
(* sixty ticks: a whole list.                                               *)
TickWhole(s) ==
    /\ Ticks(s)
    /\ \E c \in {AfterWhole(client[s], 2)} :
        Put(s, [c EXCEPT !.count = IF client[s].time >= 2 THEN Cardinality(alive) ELSE @],
            List("new", Asked(c)))

(* The rows changed since the last list or up to a minute before.           *)
TickRefresh(s) ==
    /\ Ticks(s)
    /\ LET c == client[s] IN
        /\ c.time >= 2 /\ c.count = Cardinality(alive)
        /\ \E older \in {{}, Machines} :
            LET rows == Asked(c) \cap (c.changed \cup older) IN
            /\ rows # {}
            /\ IF Parents(c, rows) = {}
               THEN Put(s, [c EXCEPT !.time = 3, !.changed = {}], List("refresh", rows))
               ELSE Put(s, AfterWhole(c, 1), WholeList(c))

(* Less than two seconds after a command: _list_machines gives nothing, and *)
(* that is sent as an empty whole list.                                     *)
TickTooSoon(s) ==
    /\ Ticks(s) /\ client[s].answered
    /\ Put(s, client[s], List("new", {}))

-----------------------------------------------------------------------------
(* The page: what is shown of a row.                                        *)
Rows == DOMAIN list_machines
ShownBy(row) ==
    \/ BaseOf[row.id] = NoBase /\ filter = NoFilter /\ ~show_active
    \/ row.id \in show_machine
    \/ row.id \in Clones /\ show_clones[BaseOf[row.id]] = "true"
    \/ show_active /\ row.active
WithShow(row) == [row EXCEPT !.show = ShownBy(row)]

(* A whole list goes to the places 0, 1, ...; a row stays if it has the     *)
(* same id and date.  What was after the end of the list is not deleted.    *)
SameRowByDate(i, row) ==
    i \in Rows /\ list_machines[i].date = row.date /\ ~(show_active /\ row.active)
SameRowById(i, row) ==
    i \in Rows /\ list_machines[i].id = row.id /\ ~(show_active /\ row.active)
SameRow(i, row) ==
    /\ i \in Rows /\ list_machines[i].id = row.id /\ list_machines[i].date = row.date
    /\ ~(show_active /\ row.active)
NewRowsAfter(data) == list_machines \o [i \in DOMAIN data |-> WithShow(data[i])]
NewRows(data) ==
    [i \in 1..(IF Len(data) > Len(list_machines) THEN Len(data) ELSE Len(list_machines)) |->
        IF i > Len(data) \/ SameRow(i, data[i]) THEN list_machines[i] ELSE WithShow(data[i])]

(* A list of changes goes to the rows that have its ids.                    *)
IdsOf(data) == {data[i].id : i \in DOMAIN data}
ChangeOf(data, id) == CHOOSE row \in {data[i] : i \in DOMAIN data} : row.id = id
RefreshedRows(data) == [i \in Rows |->
    IF list_machines[i].id \in IdsOf(data) THEN WithShow(ChangeOf(data, list_machines[i].id))
    ELSE list_machines[i]]
Renamed(data) == \E i \in Rows : /\ list_machines[i].id \in IdsOf(data)
                                 /\ ChangeOf(data, list_machines[i].id).name # list_machines[i].name

ShowOnly(rows, ids) == [i \in DOMAIN rows |-> [rows[i] EXCEPT !.show = rows[i].id \in ids]]
ActiveIds(rows) == {r.id : r \in {rows[i] : i \in {j \in DOMAIN rows : rows[j].active}}}
Roots == Machines \ Clones

(* do_show_active                                                           *)
DoShowActive(rows) ==
    /\ filter' = NoFilter /\ show_active' = TRUE
    /\ show_machine' = show_machine \cup {BaseOf[m] : m \in ActiveIds(rows) \cap Clones}
    /\ list_machines' = ShowOnly(rows, ActiveIds(rows))

(* show_filter                                                              *)
ShowFilter(rows, f) ==
    /\ show_active' = FALSE
    /\ list_machines' = ShowOnly(rows, IF f = NoFilter THEN Roots ELSE f)

(* A message: not looked at while a dialog is open.                         *)
Message(s) == channel[s].queue # <<>>
Dropped(s) ==
    /\ Message(s) /\ modalOpened
    /\ channel' = [channel EXCEPT ![s].queue = Tail(@)]
    /\ UNCHANGED <<left, table, client, scope, modalOpened, link>>

OnMessage(s) ==
    /\ Message(s) /\ ~modalOpened
    /\ LET list == Head(channel[s].queue)
           whole == list.action = "new" \/ list_machines = <<>>
           rest == Tail(channel[s].queue)
       IN \E rows \in {IF whole THEN NewRows(list.data) ELSE RefreshedRows(list.data)} :
        /\ n_active' = list.n_active
        /\ length' = IF whole THEN Len(list.data) ELSE length
        /\ \/ show_active /\ DoShowActive(rows)
           \/ /\ ~show_active /\ filter # NoFilter
              /\ ShowFilter(rows, filter) /\ UNCHANGED <<filter, show_machine>>
           \/ /\ ~show_active /\ filter = NoFilter
              /\ list_machines' = rows /\ UNCHANGED <<filter, show_active, show_machine>>
        /\ channel' = [channel EXCEPT
                ![s].queue = rest,
                ![s].sent = IF ~whole /\ Renamed(list.data) THEN Append(@, ListCmd) ELSE @]
    /\ UNCHANGED <<left, table, client, show_clones, modalOpened, link>>

-----------------------------------------------------------------------------
(* The page: what the user asks to see.  Commands go to the newest socket.  *)
ws == ws_list_machines
User == Happens("clicks") /\ ~modalOpened /\ Idle(ws)  \* bound: the user waits for the answer

(* ng-repeat shows the places below length, or all when there are none.     *)
ShownPlaces == IF length = 0 THEN Rows ELSE 1..length
ShownIds == {list_machines[i].id : i \in ShownPlaces}

(* toggle_show_clones                                                       *)
WithClones(rows, b, value) == [i \in DOMAIN rows |->
    IF BaseOf[rows[i].id] = b THEN [rows[i] EXCEPT !.show = value] ELSE rows[i]]
ClonesIn(rows, b) == {m \in Clones : BaseOf[m] = b /\ \E i \in DOMAIN rows : rows[i].id = m}

ToggleShowClones(b) ==
    /\ User /\ b \in ShownIds /\ filter = NoFilter
    /\ LET value == show_clones[b] # "true" IN
        /\ Send(ws, <<ShowClonesCmd(b, value)>>)
        /\ show_clones' = [show_clones EXCEPT ![b] = IF value THEN "true" ELSE "false"]
        /\ show_active' = (show_active /\ value)
        /\ list_machines' = WithClones(list_machines, b, value)
        /\ show_machine' = IF value THEN show_machine \cup ClonesIn(list_machines, b)
                           ELSE show_machine \ ClonesIn(list_machines, b)
    /\ UNCHANGED <<table, client, length, filter, n_active, modalOpened, link>>

(* toggle_show_active; the way back is reload_list and showClones(false).   *)
BasesIn == SetToSeq({b \in Bases : \E i \in Rows : list_machines[i].id = b})
HideCmds == [i \in DOMAIN BasesIn |-> ShowClonesCmd(BasesIn[i], FALSE)]

ToggleShowActive ==
    /\ User /\ n_active > 0
    /\ Send(ws,
            <<ShowActiveCmd(~show_active)>> \o (IF show_active THEN HideCmds ELSE <<>>))
    /\ IF ~show_active
       THEN DoShowActive(list_machines) /\ UNCHANGED show_clones
       ELSE /\ show_active' = FALSE /\ filter' = NoFilter
            /\ list_machines' = ShowOnly(list_machines, Roots)
            /\ show_clones' = [b \in Bases |-> IF b \in ToSet(BasesIn) THEN "false" ELSE show_clones[b]]
            /\ show_machine' = show_machine \ UNION {ClonesIn(list_machines, b) : b \in ToSet(BasesIn)}
    /\ UNCHANGED <<table, client, length, n_active, modalOpened, link>>

(* refresh_show_clones: each base toggled before is sent off, then as it is. *)
SetBases == SetToSeq({b \in Bases : show_clones[b] # "unset"})
RefreshShowClones == <<ListCmd>> \o [i \in 1..(2 * Len(SetBases)) |->
    LET b == SetBases[(i + 1) \div 2]
    IN ShowClonesCmd(b, i % 2 = 0 /\ show_clones[b] = "true")]

(* list_machines_name                                                       *)
TypeFilter(f) ==
    /\ User /\ f # filter
    /\ Send(ws,
            <<ShowNameCmd(f)>> \o (IF f = NoFilter THEN RefreshShowClones ELSE <<>>))
    /\ filter' = f
    /\ ShowFilter(list_machines, f)
    /\ UNCHANGED <<table, client, length, show_clones, show_machine, n_active, modalOpened, link>>

(* The button "reload list" beside "There are no ...": nothing is sent.     *)
ReloadList ==
    /\ User /\ (show_active \/ filter # NoFilter)
    /\ \A i \in Rows : ~list_machines[i].show
    /\ IF filter # NoFilter THEN filter' = NoFilter /\ UNCHANGED show_active
       ELSE show_active' = FALSE /\ UNCHANGED filter
    /\ list_machines' = ShowOnly(list_machines, Roots)
    /\ UNCHANGED <<table, client, channel, length, show_clones, show_machine, n_active,
                   modalOpened, link>>

(* open_modal, cancel_modal.  Bootstrap also closes a dialog by Esc or a    *)
(* click beside it, which leaves modalOpened as it was.                     *)
OpenModal ==
    /\ Happens("dialogs") /\ ~modalOpened /\ Rows # {}
    /\ modalOpened' = TRUE
    /\ UNCHANGED <<table, client, channel, scope, link>>
CancelModal ==
    /\ modalOpened
    /\ modalOpened' = FALSE
    /\ UNCHANGED <<left, table, client, channel, scope, link>>

-----------------------------------------------------------------------------
(* The connection.  "connect again" keeps the filter, "Reload" clears it;   *)
(* neither closes the socket there is.                                      *)
SubscribeListMachines(keep) ==
    /\ ~modalOpened /\ ws < MaxSockets /\ Happens("reloads")
    /\ keep => ws_connection_lost
    /\ ws_list_machines' = ws + 1
    /\ channel' = [channel EXCEPT ![ws + 1].state = "opening"]
    /\ list_machines' = <<>> /\ length' = 0
    /\ filter' = IF keep THEN filter ELSE NoFilter
    /\ UNCHANGED <<table, client, show_active, show_clones, show_machine, n_active, modalOpened,
                   ws_connection_lost, timers>>

(* Most of what onopen says goes to the newest socket: discarded if that    *)
(* one is closed, an exception that ends onopen if it is not open yet.      *)
OnOpen(s) ==
    /\ channel[s].state = "opening"
    /\ ws_connection_lost' = FALSE
    /\ LET own == IF show_active THEN <<ShowActiveCmd(TRUE)>> ELSE <<>>
           newest == (IF filter # NoFilter THEN <<ShowNameCmd(filter)>> ELSE <<>>) \o RefreshShowClones
           opened == [channel EXCEPT ![s].state = "open", ![s].sent = own]
           told == IF opened[ws].state = "open" THEN [opened EXCEPT ![ws].sent = @ \o newest] ELSE opened
       IN channel' = IF told[ws].state = "opening" THEN told
                     ELSE [told EXCEPT ![s].sent = Append(@, ListCmd)]
    /\ UNCHANGED <<left, table, client, scope, modalOpened, ws_list_machines, timers>>

ConnectionLost ==
    /\ Happens("losses")
    /\ \E s \in Sockets : channel[s].state = "open"
    /\ timers' = timers + Cardinality({s \in Sockets : channel[s].state = "open"})
    /\ channel' = [s \in Sockets |-> IF channel[s].state = "open" THEN Closed ELSE channel[s]]
    /\ UNCHANGED <<table, client, scope, modalOpened, ws_list_machines, ws_connection_lost>>

(* Five seconds after each socket closed.                                   *)
OnClose ==
    /\ timers > 0
    /\ timers' = timers - 1
    /\ ws_connection_lost' = TRUE
    /\ UNCHANGED <<left, table, client, channel, scope, modalOpened, ws_list_machines>>

-----------------------------------------------------------------------------
Next ==
    \/ \E m \in Machines : SwitchPower(m) \/ Rename(m) \/ AddOrRemove(m)
    \/ \E s \in Sockets :
        \/ TickWhole(s) \/ TickRefresh(s) \/ TickTooSoon(s)
        \/ ServerReceives(s) \/ OnMessage(s) \/ Dropped(s) \/ OnOpen(s)
    \/ \E b \in Bases : ToggleShowClones(b)
    \/ ToggleShowActive \/ ReloadList \/ OpenModal \/ CancelModal
    \/ \E f \in Filters : TypeFilter(f)
    \/ \E keep \in BOOLEAN : SubscribeListMachines(keep)
    \/ ConnectionLost \/ OnClose

Spec == Init /\ [][Next]_vars
(* Sockets open, the server receives, the browser handles what arrived (one  *)
(* of them is next in each socket), and every sixtieth tick at least sends a *)
(* whole list.                                                               *)
Moves(s) == OnOpen(s) \/ ServerReceives(s) \/ OnMessage(s) \/ Dropped(s)
FairSpec == Spec /\ \A s \in Sockets : WF_vars(Moves(s)) /\ SF_vars(TickWhole(s))

-----------------------------------------------------------------------------
TypeOK ==
    /\ alive \subseteq Machines /\ active \subseteq alive
    /\ name \in [Machines -> 1..MaxNames] /\ date_changed \in [Machines -> 0..MaxEvents]
    /\ client \in [Sockets -> Client]
    /\ \A s \in Sockets : channel[s].state \in {"closed", "opening", "open"}
    /\ list_machines \in Seq(Row) /\ length \in 0..Cardinality(Machines)
    /\ Len(list_machines) \in length..Cardinality(Machines)
    /\ show_active \in BOOLEAN /\ filter \in Filters
    /\ show_clones \in [Bases -> {"unset", "true", "false"}] /\ show_machine \subseteq Machines
    /\ n_active \in 0..Cardinality(Machines) /\ modalOpened \in BOOLEAN
    /\ ws_list_machines \in Sockets /\ ws_connection_lost \in BOOLEAN
    /\ timers \in 0..(MaxSockets * MaxEvents) /\ left \in Story /\ now \in 0..MaxEvents

(* No machine is shown in two rows, whatever lists by place and by id, of   *)
(* one socket or two, were merged before.  (After an empty list the page    *)
(* shows what it did not delete, which may be a machine twice.)              *)
ShownOnce == \A i, j \in 1..length : list_machines[i].id = list_machines[j].id => i = j

(* The page goes back, again and again, to the rows the server would send   *)
(* it: those of the machines asked for, in order, with the date of their    *)
(* last change; unless a dialog was left without an answer or there is no   *)
(* connection.  (Two changes in a second may leave the first one shown.)     *)
Told(row) == <<row.id, row.date>>
Current ==
    LET list == WholeList(client[ws]).data IN
    /\ length = Len(list)
    /\ \A i \in 1..length : Told(list_machines[i]) = Told(list[i])
ListSettles == []<>(modalOpened \/ channel[ws].state = "closed" \/ Current)

(* With "show active" on, or a filter typed, the page comes to show every   *)
(* machine that is meant, clones too, provided the server was told.         *)
Visible == {list_machines[i].id : i \in {j \in ShownPlaces : list_machines[j].show}}
Meant == IF show_active THEN active ELSE filter \cap alive
Informed == client[ws].show_active = show_active /\ client[ws].show_name = filter
MeantVisible ==
    []<>(modalOpened \/ channel[ws].state = "closed" \/ (Informed => Meant \subseteq Visible))
=============================================================================
