--------------------------- MODULE Administration ---------------------------
(***************************************************************************)
(* Pages of the administrator (public/js/admin.js): the list of nodes, the *)
(* options and the host devices of a node, the volumes no machine uses,    *)
(* and the forms of a new machine and of a new node.  A story has one of   *)
(* them open.  Calls are handled, and answered, in any order; what the     *)
(* daemon is asked for is done later.  Waiting times are left out.          *)
(*                                                                         *)
(* Faulty variants Next never reaches: PollOnce, MoreAfterCut,             *)
(* CancelEditsPristine, SameDeviceById, PoolOfFirst.                       *)
(***************************************************************************)
EXTENDS Integers, Sequences, FiniteSets, SequencesExt, Sorting

CONSTANTS
    Nodes, Busy,         \* nodes, and those with machines
    Options,             \* values of an option of a node
    FirstDevices,        \* how many host devices at the start
    Filters,             \* filters of a device
    MaxFiles, Limit,     \* unused volumes at the start; as many, and one, in a page
    Names, FirstTaken,   \* names of machines and nodes, and those in use
    Backends,
    MaxPolls,            \* bound: lists of nodes asked for at once
    MaxUnread,           \* bound: messages of a socket on their way
    AdminStories         \* bounds: see AdminStory

AdminPages == {"nodes", "node", "devices", "storage", "new"}
(* patient: nobody does anything before every answer and message has come,   *)
(* and the user cancels only what was typed;                                 *)
(* quick: two changes of a device may come in one second.                    *)
AdminStory == [page: AdminPages, clicks: Nat, others: Nat, patient: BOOLEAN, quick: BOOLEAN]

ASSUME AdminAssumption ==
    /\ Busy \subseteq Nodes /\ FirstTaken \subseteq Names
    /\ Filters \subseteq Nat \ {0} /\ Names \subseteq Nat \ {0} /\ IsFiniteSet(Filters)
    /\ Filters # {} /\ Options # {} /\ Backends # {}
    /\ {FirstDevices, MaxFiles} \subseteq Nat /\ {Limit, MaxPolls, MaxUnread} \subseteq Nat \ {0}
    /\ AdminStories \subseteq AdminStory

VARIABLES
    admin_left, asking,                             \* what may still happen; calls
    vms, switching, reqs, nodes_shown, modal_open, dialog, request_shown,
    info, info_sent, info_socket, node, old_node, pristine, node_error,
    devices, clock, daemon, devices_sent, devices_socket, host_devices,
    unused, purging, start, unused_volumes, list_more, loading_unused,
    taken, name, name_duplicated, hostname, hostname_duplicated,
    versions, sockets, backend, images, storage_pool

ofNodes == <<vms, switching, reqs, nodes_shown, modal_open, dialog, request_shown>>
ofInfo == <<info, info_sent, info_socket, node, old_node, pristine, node_error>>
ofDevices == <<devices, clock, daemon, devices_sent, devices_socket, host_devices>>
ofStorage == <<unused, purging, start, unused_volumes, list_more, loading_unused>>
ofNames == <<taken, name, name_duplicated, hostname, hostname_duplicated>>
ofBackends == <<versions, sockets, backend, images, storage_pool>>
ofNew == <<ofNames, ofBackends>>
adminVars == <<admin_left, asking, ofNodes, ofInfo, ofDevices, ofStorage, ofNew>>

NoNode == "none"
NoRequest == [id |-> 0, done |-> FALSE]
Node == [there: BOOLEAN, enabled: BOOLEAN, active: BOOLEAN]
NodeFields == {"dir_backup", "min_free_memory"}
Info == [NodeFields -> Options]
(* found: the filter the devices were listed with, 0 when they were not yet. *)
Device == [id: Nat, filter: Filters, found: Filters \cup {0}, changed: Nat]
FirstFilter == CHOOSE f \in Filters : \A g \in Filters : f <= g
Unlisted == [listed |-> FALSE, files |-> <<>>]
AskFor(op, arg) == [op |-> op, arg |-> arg, answered |-> FALSE, data |-> <<>>]
ShownAs(d) == [id |-> d.id, filter |-> d.filter, found |-> d.found, changed |-> d.changed,
               loading |-> FALSE, confirm |-> FALSE]

AdminInit ==
    /\ admin_left \in AdminStories
    /\ asking = IF admin_left.page = "storage" THEN <<AskFor("unused", 0)>> ELSE <<>>
    /\ vms = [n \in Nodes |-> [there |-> TRUE, enabled |-> TRUE, active |-> TRUE]]
    /\ switching = {} /\ reqs = <<>>
    /\ nodes_shown = vms /\ modal_open = FALSE /\ dialog = NoNode /\ request_shown = NoRequest
    /\ info = [o \in NodeFields |-> CHOOSE v \in Options : TRUE]
    /\ info_sent = info /\ info_socket = <<>> /\ node = info /\ old_node = info
    /\ pristine = TRUE /\ node_error = FALSE
    /\ devices = [i \in 1..FirstDevices |-> [id |-> i, filter |-> FirstFilter,
                                             found |-> FirstFilter, changed |-> 0]]
    /\ clock = 0 /\ daemon = {} /\ devices_sent = devices /\ devices_socket = <<>>
    /\ host_devices = [i \in DOMAIN devices |-> ShownAs(devices[i])]
    /\ unused = 1..MaxFiles /\ purging = {} /\ start = 0
    /\ unused_volumes = Unlisted /\ list_more = FALSE /\ loading_unused = (admin_left.page = "storage")
    /\ taken = FirstTaken /\ name = 0 /\ name_duplicated = FALSE
    /\ hostname = 0 /\ hostname_duplicated = FALSE
    /\ versions = [b \in Backends |-> 1] /\ sockets = <<>>
    /\ backend = CHOOSE b \in Backends : TRUE
    /\ images = [backend |-> backend, version |-> 1] /\ storage_pool = backend

AllQuiet ==
    /\ asking = <<>> /\ info_socket = <<>> /\ devices_socket = <<>> /\ daemon = {}
    /\ info_sent = info /\ devices_sent = devices
    /\ \A i \in DOMAIN sockets : sockets[i].seen = versions[sockets[i].backend]
AdminClick(page) ==
    /\ admin_left.page = page /\ admin_left.clicks > 0
    /\ admin_left.patient => AllQuiet
    /\ admin_left' = [admin_left EXCEPT !.clicks = @ - 1]
SomeoneElse(page) ==
    /\ admin_left.page = page /\ admin_left.others > 0
    /\ admin_left.patient => AllQuiet
    /\ admin_left' = [admin_left EXCEPT !.others = @ - 1]
    /\ UNCHANGED asking
AskAlso(waiting, op, arg) == asking' = Append(waiting, AskFor(op, arg))
(* Call i, of this kind, comes to the server; and its answer to the page.    *)
Handled(i, op, data) ==
    /\ asking[i].op = op /\ ~asking[i].answered
    /\ asking' = [asking EXCEPT ![i].answered = TRUE, ![i].data = data]
    /\ UNCHANGED admin_left
Back(i, op) == asking[i].op = op /\ asking[i].answered /\ UNCHANGED admin_left
Rest(i) == RemoveAt(asking, i)

-----------------------------------------------------------------------------
(* manage_nodes.  list_nodes asks for nothing while modal_open.              *)
NodeOps == {"enable", "disable", "remove", "start", "shutdown"}
WithList(waiting, modal) == IF modal THEN waiting ELSE Append(waiting, AskFor("list", 0))

ListsHandled == \E i \in DOMAIN asking : Handled(i, "list", vms) /\ UNCHANGED ofNodes
ListsBack ==
    \E i \in DOMAIN asking :
        /\ Back(i, "list")
        /\ nodes_shown' = asking[i].data /\ asking' = Rest(i)
        /\ UNCHANGED <<vms, switching, reqs, modal_open, dialog, request_shown>>

(* The interval of 30 seconds.                                               *)
PollOnce == FALSE
Poll ==
    /\ admin_left.page = "nodes" /\ ~modal_open
    /\ Cardinality({i \in DOMAIN asking : asking[i].op = "list"}) < MaxPolls
    /\ AskAlso(asking, "list", 0)
    /\ UNCHANGED <<admin_left, ofNodes>>

(* Enable and disable are done at once; start and shutdown by the daemon.    *)
NodesHandled ==
    \E i \in DOMAIN asking, op \in NodeOps \cup {"connect", "fetch"} :
        LET n == asking[i].arg IN
        /\ asking[i].op = op
        /\ Handled(i, op, CASE op = "connect" -> Len(reqs) + 1 [] op = "fetch" -> reqs[n] [] OTHER -> 0)
        /\ vms' = CASE op = "enable" -> [vms EXCEPT ![n].enabled = TRUE]
                    [] op = "disable" -> [vms EXCEPT ![n].enabled = FALSE]
                    [] op = "remove" -> [vms EXCEPT ![n].there = FALSE]
                    [] OTHER -> vms
        /\ switching' = IF op \in {"start", "shutdown"} THEN switching \cup {<<n, op>>} ELSE switching
        /\ reqs' = IF op = "connect" THEN Append(reqs, FALSE) ELSE reqs
        /\ UNCHANGED <<nodes_shown, modal_open, dialog, request_shown>>

NodesDone ==
    /\ \/ \E turn \in switching :
            /\ switching' = switching \ {turn}
            /\ vms' = [vms EXCEPT ![turn[1]].active = (turn[2] = "start")] /\ UNCHANGED reqs
       \/ \E r \in DOMAIN reqs :
            ~reqs[r] /\ reqs' = [reqs EXCEPT ![r] = TRUE] /\ UNCHANGED <<vms, switching>>
    /\ UNCHANGED <<admin_left, asking, nodes_shown, modal_open, dialog, request_shown>>

(* A connection is asked about until it is done.                             *)
NodesBack ==
    \E i \in DOMAIN asking, op \in NodeOps \cup {"connect", "fetch"} :
        /\ Back(i, op)
        /\ request_shown' = IF op = "fetch" THEN [id |-> asking[i].arg, done |-> asking[i].data]
                            ELSE request_shown
        /\ asking' = CASE op = "remove" -> Rest(i)
                       [] op = "connect" -> Append(Rest(i), AskFor("fetch", asking[i].data))
                       [] op = "fetch" /\ ~asking[i].data -> Append(Rest(i), AskFor("fetch", asking[i].arg))
                       [] OTHER -> WithList(Rest(i), modal_open)
        /\ UNCHANGED <<vms, switching, reqs, nodes_shown, modal_open, dialog>>

ClickNode(n, op) ==
    /\ dialog = NoNode /\ nodes_shown[n].there
    /\ op = "enable" => ~nodes_shown[n].enabled
    /\ op \in {"disable", "remove"} => n \notin Busy
    /\ op = "disable" => nodes_shown[n].enabled
    /\ op \in {"start", "shutdown"} => nodes_shown[n].active = (op = "shutdown")
    /\ modal_open' = IF op = "remove" THEN modal_open ELSE FALSE
    /\ asking' = IF op = "remove" THEN WithList(Append(asking, AskFor(op, n)), modal_open)
                 ELSE Append(asking, AskFor(op, n))
    /\ UNCHANGED <<dialog, request_shown>>
ConfirmDisable(n) ==
    /\ dialog = NoNode /\ nodes_shown[n].there /\ nodes_shown[n].enabled /\ n \in Busy
    /\ dialog' = n /\ modal_open' = TRUE /\ UNCHANGED <<asking, request_shown>>
(* The cross, too, closes the dialog, but leaves modal_open as it was.        *)
AnswerDialog(how) ==
    /\ dialog # NoNode /\ dialog' = NoNode
    /\ modal_open' = (how = "cross")
    /\ IF how = "yes" THEN AskAlso(asking, "disable", dialog) ELSE UNCHANGED asking
    /\ UNCHANGED request_shown
Connect(n) ==
    /\ dialog = NoNode /\ nodes_shown[n].there
    /\ request_shown' = NoRequest /\ AskAlso(asking, "connect", n)
    /\ UNCHANGED <<modal_open, dialog>>
NodesClick ==
    /\ AdminClick("nodes")
    /\ \/ \E n \in Nodes : ConfirmDisable(n) \/ Connect(n) \/ \E op \in NodeOps : ClickNode(n, op)
       \/ \E how \in {"yes", "no", "cross"} : AnswerDialog(how)
    /\ UNCHANGED <<vms, switching, reqs, nodes_shown>>

NodesNext == ListsHandled \/ ListsBack \/ Poll \/ NodesHandled \/ NodesDone \/ NodesBack \/ NodesClick

-----------------------------------------------------------------------------
(* settings_node.  Messages are dropped once something was typed; they come  *)
(* only when the information has changed since the last one.                 *)
InfoSends ==
    /\ info # info_sent /\ Len(info_socket) < MaxUnread
    /\ info_sent' = info /\ info_socket' = Append(info_socket, info)
    /\ UNCHANGED <<admin_left, asking, info, node, old_node, pristine, node_error>>

OnNodeInfo ==
    /\ info_socket # <<>> /\ info_socket' = Tail(info_socket)
    /\ IF pristine THEN node' = Head(info_socket) /\ old_node' = node' ELSE UNCHANGED <<node, old_node>>
    /\ UNCHANGED <<admin_left, asking, info, info_sent, pristine, node_error>>

EditNode ==
    /\ \E o \in DOMAIN node, v \in Options : node' = [node EXCEPT ![o] = v]
    /\ pristine' = FALSE /\ UNCHANGED <<old_node, node_error, asking>>
(* Cancel puts the old values back, and the form stays dirty.                *)
CancelEditsPristine == node' = old_node /\ pristine' = TRUE
CancelEdits == node' = old_node /\ UNCHANGED pristine
LoadNode == CancelEdits /\ node_error' = FALSE /\ UNCHANGED <<old_node, asking>>
(* Save sends the whole node, and the form is not dirty any more.            *)
UpdateNode ==
    /\ ~pristine /\ pristine' = TRUE /\ node_error' = FALSE
    /\ AskAlso(asking, "set", node) /\ UNCHANGED <<node, old_node>>
InfoClick ==
    /\ AdminClick("node")
    /\ EditNode \/ UpdateNode \/ (LoadNode /\ (admin_left.patient => ~pristine))
    /\ UNCHANGED <<info, info_sent, info_socket>>

(* _update_fields reads the node, writes the fields that differ from what it *)
(* read, one after another, and stops at the first that fails.               *)
Saving(i, read) == asking[i].op = "set" /\ ~asking[i].answered /\ (asking[i].data # <<>>) = read
InfoReads == \E i \in DOMAIN asking :
    /\ Saving(i, FALSE)
    /\ asking' = [asking EXCEPT ![i].data = <<{o \in NodeFields : info[o] # asking[i].arg[o]}>>]
    /\ UNCHANGED <<admin_left, ofInfo>>
InfoWrites == \E i \in DOMAIN asking :
    /\ Saving(i, TRUE)
    /\ \E o \in Head(asking[i].data) :
        /\ info' = [info EXCEPT ![o] = asking[i].arg[o]]
        /\ asking' = [asking EXCEPT ![i].data = <<Head(asking[i].data) \ {o}>>]
    /\ UNCHANGED <<admin_left, info_sent, info_socket, node, old_node, pristine, node_error>>
(* The answer: ok, or the error of the field that could not be written.      *)
InfoHandled == \E i \in DOMAIN asking :
    Saving(i, TRUE) /\ Handled(i, "set", Head(asking[i].data) = {}) /\ UNCHANGED ofInfo
InfoBack == \E i \in DOMAIN asking :
    /\ Back(i, "set")
    /\ node_error' = ~asking[i].data /\ asking' = Rest(i)
    /\ UNCHANGED <<info, info_sent, info_socket, node, old_node, pristine>>
OthersSetInfo ==
    /\ SomeoneElse("node")
    /\ \E o \in DOMAIN info, v \in Options : info' = [info EXCEPT ![o] = v]
    /\ UNCHANGED <<info_sent, info_socket, node, old_node, pristine, node_error>>

InfoNext == InfoSends \/ OnNodeInfo \/ InfoClick \/ InfoReads \/ InfoWrites \/ InfoHandled \/ InfoBack
            \/ OthersSetInfo

-----------------------------------------------------------------------------
(* Host devices.  The list is shown row by row: a row of the same device and *)
(* the same date is left alone, and what the page alone knows stays in its   *)
(* place.  A device that was not listed yet has no _loading.                 *)
SameDeviceById(row, d) == row.id = d.id
SameDevice(row, d) == row.id = d.id /\ row.changed = d.changed
RowFrom(row, d) ==
    IF SameDevice(row, d) THEN row
    ELSE [row EXCEPT !.id = d.id, !.filter = d.filter, !.found = d.found, !.changed = d.changed,
                     !.loading = IF d.found # 0 THEN FALSE ELSE row.loading]

DevicesSend ==
    /\ devices # devices_sent /\ Len(devices_socket) < MaxUnread
    /\ devices_sent' = devices /\ devices_socket' = Append(devices_socket, devices)
    /\ UNCHANGED <<admin_left, asking, devices, clock, daemon, host_devices>>

OnDevices ==
    /\ devices_socket # <<>> /\ devices_socket' = Tail(devices_socket)
    /\ LET list == Head(devices_socket)
       IN host_devices' = [i \in DOMAIN list |-> IF i \in DOMAIN host_devices THEN RowFrom(host_devices[i], list[i])
                                                 ELSE ShownAs(list[i])]
    /\ UNCHANGED <<admin_left, asking, devices, clock, daemon, devices_sent>>

UpdateHostDevice ==
    \E i \in DOMAIN host_devices, f \in Filters :
        /\ ~host_devices[i].loading
        /\ host_devices' = [host_devices EXCEPT ![i].filter = f, ![i].loading = TRUE, ![i].found = 0]
        /\ AskAlso(asking, "update", host_devices'[i])
ConfirmRemoveDevice ==
    \E i \in DOMAIN host_devices, yes \in BOOLEAN :
        /\ host_devices[i].confirm # yes
        /\ host_devices' = [host_devices EXCEPT ![i].confirm = yes] /\ UNCHANGED asking
RemoveHostDevice ==
    \E i \in DOMAIN host_devices :
        /\ host_devices[i].confirm
        /\ AskAlso(asking, "drop", host_devices[i].id) /\ UNCHANGED host_devices
DevicesClick ==
    /\ AdminClick("devices")
    /\ UpdateHostDevice \/ ConfirmRemoveDevice \/ RemoveHostDevice
    /\ UNCHANGED <<devices, clock, daemon, devices_sent, devices_socket>>

(* The update puts back the date the page had; the devices are listed, or    *)
(* the device removed, by the daemon.                                        *)
DevicesHandled ==
    \E i \in DOMAIN asking :
        LET c == asking[i] IN
        /\ \/ /\ Handled(i, "update", 0)
              /\ devices' = [k \in DOMAIN devices |-> IF devices[k].id # c.arg.id THEN devices[k]
                    ELSE [devices[k] EXCEPT !.filter = c.arg.filter, !.found = 0, !.changed = c.arg.changed]]
              /\ daemon' = daemon \cup {<<"list", c.arg.id>>}
           \/ Handled(i, "drop", 0) /\ daemon' = daemon \cup {<<"drop", c.arg>>} /\ UNCHANGED devices
        /\ UNCHANGED <<clock, devices_sent, devices_socket, host_devices>>
DevicesBack == \E i \in DOMAIN asking :
    (Back(i, "update") \/ Back(i, "drop")) /\ asking' = Rest(i) /\ UNCHANGED ofDevices

DevicesDone ==
    \E job \in daemon :
        /\ daemon' = daemon \ {job}
        /\ clock' \in {clock + 1} \cup (IF admin_left.quick THEN {clock} ELSE {})
        /\ devices' = IF job[1] = "drop" THEN Where(devices, {d \in ToSet(devices) : d.id # job[2]})
                      ELSE [k \in DOMAIN devices |-> IF devices[k].id # job[2] THEN devices[k]
                               ELSE [devices[k] EXCEPT !.found = devices[k].filter, !.changed = clock']]
        /\ UNCHANGED <<admin_left, asking, devices_sent, devices_socket, host_devices>>
OthersDropDevice ==
    /\ SomeoneElse("devices")
    /\ \E k \in DOMAIN devices : daemon' = daemon \cup {<<"drop", devices[k].id>>}
    /\ UNCHANGED <<devices, clock, devices_sent, devices_socket, host_devices>>

DevicesNext == DevicesSend \/ OnDevices \/ DevicesClick \/ DevicesHandled \/ DevicesBack
               \/ DevicesDone \/ OthersDropDevice

-----------------------------------------------------------------------------
(* settings_storage.  A page of the list has one file more than its limit,   *)
(* so that the next one repeats it.                                          *)
FilesFrom(first) ==
    LET files == Ascending(unused)
        last == first + Limit + 1
    IN SubSeq(files, first + 1, IF last < Len(files) THEN last ELSE Len(files))
MoreAfterCut(first) == Len(FilesFrom(first)) > Limit + 1
MoreFrom(first) == Cardinality(unused) > first + Limit

StorageHandled ==
    \E i \in DOMAIN asking :
        /\ \/ /\ asking[i].op = "unused" /\ UNCHANGED purging
              /\ Handled(i, "unused", [files |-> FilesFrom(asking[i].arg), more |-> MoreFrom(asking[i].arg)])
           \/ Handled(i, "purge", 0) /\ purging' = purging \cup asking[i].arg
        /\ UNCHANGED <<unused, start, unused_volumes, list_more, loading_unused>>
StorageDone ==
    /\ purging # {} /\ unused' = unused \ purging /\ purging' = {}
    /\ UNCHANGED <<admin_left, asking, start, unused_volumes, list_more, loading_unused>>

OnUnused(i) ==
    /\ Back(i, "unused")
    /\ loading_unused' = FALSE /\ list_more' = asking[i].data.more
    /\ unused_volumes' = [listed |-> TRUE, files |-> unused_volumes.files \o asking[i].data.files]
    /\ asking' = Rest(i) /\ UNCHANGED start
OnPurged(i) ==
    /\ Back(i, "purge")
    /\ start' = 0 /\ unused_volumes' = Unlisted /\ loading_unused' = TRUE
    /\ AskAlso(Rest(i), "unused", 0) /\ UNCHANGED list_more
StorageBack == \E i \in DOMAIN asking : (OnUnused(i) \/ OnPurged(i)) /\ UNCHANGED <<unused, purging>>

More ==
    /\ list_more /\ ~loading_unused
    /\ start' = start + Limit /\ loading_unused' = TRUE
    /\ AskAlso(asking, "unused", start') /\ UNCHANGED <<unused_volumes, list_more>>
RemoveSelected ==
    /\ admin_left.others > 0
    /\ \E f \in ToSet(unused_volumes.files) :
        /\ unused_volumes' = [unused_volumes EXCEPT !.files = Where(@, ToSet(@) \ {f})]
        /\ AskAlso(asking, "purge", {f})
    /\ UNCHANGED <<start, list_more, loading_unused>>
StorageClick == AdminClick("storage") /\ (More \/ RemoveSelected) /\ UNCHANGED <<unused, purging>>

StorageNext == StorageHandled \/ StorageDone \/ StorageBack \/ StorageClick

-----------------------------------------------------------------------------
(* newMachineCtrl and newNodeCtrl.  Each change of a name asks whether it    *)
(* exists; the address of a node is forgotten first.                         *)
TypeName ==
    /\ \E n \in Names : name' = n /\ AskAlso(asking, "exists", n)
    /\ UNCHANGED <<hostname, hostname_duplicated>>
TypeHostname ==
    /\ \E n \in Names \cup {0} :
        /\ hostname' = n /\ hostname_duplicated' = FALSE
        /\ IF n = 0 THEN UNCHANGED asking ELSE AskAlso(asking, "host", n)
    /\ UNCHANGED name
NamesClick == AdminClick("new") /\ (TypeName \/ TypeHostname) /\ UNCHANGED <<taken, name_duplicated>>

NamesHandled == \E i \in DOMAIN asking, op \in {"exists", "host"} :
    Handled(i, op, asking[i].arg \in taken) /\ UNCHANGED ofNames
NamesBack ==
    \E i \in DOMAIN asking :
        /\ \/ Back(i, "exists") /\ name_duplicated' = asking[i].data /\ UNCHANGED hostname_duplicated
           \/ Back(i, "host") /\ hostname_duplicated' = asking[i].data /\ UNCHANGED name_duplicated
        /\ asking' = Rest(i) /\ UNCHANGED <<taken, name, hostname>>
OthersTakeName ==
    /\ SomeoneElse("new")
    /\ \E n \in Names : taken' = taken \cup {n}
    /\ UNCHANGED <<name, name_duplicated, hostname, hostname_duplicated>>
NamesNext == NamesClick \/ NamesHandled \/ NamesBack \/ OthersTakeName

(* loadTemplates: the pools and the images of the backend chosen.  One more  *)
(* socket lists images each time, and none is closed.                        *)
ChooseBackend ==
    /\ AdminClick("new")
    /\ \E b \in Backends :
        /\ backend' = b /\ AskAlso(asking, "pools", b)
        /\ sockets' = Append(sockets, [backend |-> b, seen |-> 0])
        /\ images' = [backend |-> b, version |-> 0]
    /\ UNCHANGED <<versions, storage_pool>>
PoolsHandled == \E i \in DOMAIN asking : Handled(i, "pools", asking[i].arg) /\ UNCHANGED ofBackends
PoolOfFirst(b) == IF storage_pool = b THEN b ELSE storage_pool
PoolOf(b) == b
PoolsBack == \E i \in DOMAIN asking :
    /\ Back(i, "pools") /\ storage_pool' = PoolOf(asking[i].data)
    /\ asking' = Rest(i) /\ UNCHANGED <<versions, sockets, backend, images>>
OnImages ==
    \E k \in DOMAIN sockets :
        LET b == sockets[k].backend IN
        /\ sockets[k].seen # versions[b]
        /\ sockets' = [sockets EXCEPT ![k].seen = versions[b]]
        /\ images' = [backend |-> b, version |-> versions[b]]
        /\ UNCHANGED <<admin_left, asking, versions, backend, storage_pool>>
OthersChangeImages ==
    /\ SomeoneElse("new")
    /\ \E b \in Backends : versions' = [versions EXCEPT ![b] = @ + 1]
    /\ UNCHANGED <<sockets, backend, images, storage_pool>>
BackendsNext == ChooseBackend \/ PoolsHandled \/ PoolsBack \/ OnImages \/ OthersChangeImages

-----------------------------------------------------------------------------
AdminNext ==
    \/ NodesNext /\ UNCHANGED <<ofInfo, ofDevices, ofStorage, ofNew>>
    \/ InfoNext /\ UNCHANGED <<ofNodes, ofDevices, ofStorage, ofNew>>
    \/ DevicesNext /\ UNCHANGED <<ofNodes, ofInfo, ofStorage, ofNew>>
    \/ StorageNext /\ UNCHANGED <<ofNodes, ofInfo, ofDevices, ofNew>>
    \/ NamesNext /\ UNCHANGED <<ofNodes, ofInfo, ofDevices, ofStorage, ofBackends>>
    \/ BackendsNext /\ UNCHANGED <<ofNodes, ofInfo, ofDevices, ofStorage, ofNames>>

(* Fair: the interval, the lists, and all else that is not the user's.       *)
Lists == (ListsHandled \/ ListsBack) /\ UNCHANGED <<ofInfo, ofDevices, ofStorage, ofNew>>
Polls == Poll /\ UNCHANGED <<ofInfo, ofDevices, ofStorage, ofNew>>
Daemon ==
    \/ NodesDone /\ UNCHANGED <<ofInfo, ofDevices, ofStorage, ofNew>>
    \/ DevicesDone /\ UNCHANGED <<ofNodes, ofInfo, ofStorage, ofNew>>
    \/ StorageDone /\ UNCHANGED <<ofNodes, ofInfo, ofDevices, ofNew>>
Answers ==
    \/ (NodesHandled \/ NodesBack) /\ UNCHANGED <<ofInfo, ofDevices, ofStorage, ofNew>>
    \/ (InfoSends \/ OnNodeInfo \/ InfoReads \/ InfoWrites \/ InfoHandled \/ InfoBack) /\ UNCHANGED <<ofNodes, ofDevices, ofStorage, ofNew>>
    \/ (DevicesSend \/ OnDevices \/ DevicesHandled \/ DevicesBack) /\ UNCHANGED <<ofNodes, ofInfo, ofStorage, ofNew>>
    \/ (StorageHandled \/ StorageBack) /\ UNCHANGED <<ofNodes, ofInfo, ofDevices, ofNew>>
    \/ (NamesHandled \/ NamesBack) /\ UNCHANGED <<ofNodes, ofInfo, ofDevices, ofStorage, ofBackends>>
    \/ (PoolsHandled \/ PoolsBack \/ OnImages) /\ UNCHANGED <<ofNodes, ofInfo, ofDevices, ofStorage, ofNames>>

AdminTypeOK ==
    /\ admin_left \in AdminStory
    /\ vms \in [Nodes -> Node] /\ nodes_shown \in [Nodes -> Node]
    /\ modal_open \in BOOLEAN /\ dialog \in Nodes \cup {NoNode} /\ request_shown.id \in 0..Len(reqs)
    /\ {info, info_sent, node, old_node} \subseteq Info /\ info_socket \in Seq(Info)
    /\ {pristine, node_error} \subseteq BOOLEAN
    /\ devices \in Seq(Device) /\ devices_sent \in Seq(Device)
    /\ \A i \in DOMAIN host_devices : host_devices[i].id \in Nat /\ host_devices[i].filter \in Filters
    /\ unused \subseteq 1..MaxFiles /\ purging \subseteq 1..MaxFiles /\ start \in Nat
    /\ ToSet(unused_volumes.files) \subseteq 1..MaxFiles
    /\ taken \subseteq Names /\ {name, hostname} \subseteq Names \cup {0}
    /\ {name_duplicated, hostname_duplicated, list_more, loading_unused} \subseteq BOOLEAN
    /\ {backend, storage_pool, images.backend} \subseteq Backends
=============================================================================
