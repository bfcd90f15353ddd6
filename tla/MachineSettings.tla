-------------------------- MODULE MachineSettings --------------------------
(***************************************************************************)
(* The page of the settings of one machine: singleMachinePageC of          *)
(* public/js/ravada.js, with the part of the server it talks to.  The      *)
(* channel machine_info replaces, again and again, all the page shows of   *)
(* the machine, while the user types in its hardware, opens dialogs on it   *)
(* and changes its options.  Each request of the page is followed in a     *)
(* socket of its own, and all of them write one banner, pending_request.    *)
(*                                                                         *)
(* One number stands for the item of hardware edited (cpu) and one for the *)
(* options.  The machine is not removed while the page shows it: the empty *)
(* message that follows makes the page leave for "/", with all its state.  *)
(* Faulty variants Next never reaches: OnInfoKept, OnWatchFirst,           *)
(* PendingLess, WaitingStill.                                              *)
(***************************************************************************)
EXTENDS Integers, Sequences, FiniteSets, SequencesExt, Sorting

CONSTANTS
    MaxDisks,     \* bound: disks are 1..MaxDisks, in the order they are made
    FirstDisks,   \* how many of them the machine has at first
    Files,        \* the disks that have a file (the others: empty drives)
    MaxValue,     \* bound: cpu and options are 1..MaxValue
    MaxRequests,  \* bound: requests of the machine, of all users
    MaxEvents,    \* bound of the bounds of a story
    Stories       \* bounds: see Story

Disks == 1..MaxDisks
ASSUME DisksAssumption ==
    /\ MaxDisks \in Nat
    /\ FirstDisks \in Disks /\ Files \subseteq Disks
ASSUME BoundsAssumption ==
    MaxValue \in Nat \ {0} /\ MaxRequests \in Nat /\ MaxEvents \in Nat
(* How often the user opens an editor, types in it, changes the hardware,   *)
(* touches the options, sets a field, takes a screenshot; how often other  *)
(* users ask for other hardware or options; how often the connection is    *)
(* lost; slow: the user acts before GET /machine/info is answered.          *)
Happenings == {"edit", "type", "hardware", "options", "set", "shot",
               "others", "othersSet", "loss", "slow"}
Story == [Happenings -> 0..MaxEvents]
ASSUME StoriesAssumption == Stories \subseteq Story

VARIABLES
    left,                                                   \* what may still happen
    machine, requests,                                      \* server
    info, load, calls, watch,                               \* sockets and calls
    showmachine, subscribed_extra, lock_info, edit, touched, \* page: $scope
    remove_item, new_option, pristine, pending_request, screenshot_waiting

server == <<machine, requests>>
link == <<info, load, calls, watch>>
editor == <<subscribed_extra, lock_info, edit, touched>>
options == <<new_option, pristine>>
banner == <<pending_request, screenshot_waiting>>
page == <<showmachine, editor, remove_item, options, banner>>
vars == <<left, server, link, page>>

None == [none |-> TRUE]
Refused == -1
Values == 1..MaxValue
(* What machine_info holds; pending is the field requests.                 *)
Info == [disks: Seq(Disks), cpu: Values, options: Values, shot: BOOLEAN, pending: Nat]
NotLoaded == [disks |-> <<>>, cpu |-> 1, options |-> 1, shot |-> FALSE, pending |-> 0]
Kinds == {"add", "remove file", "remove index", "cpu", "shot"}
Request == [kind: Kinds, arg: Nat, status: {"requested", "done"}]
Ids == 1..MaxRequests
(* A call of the page: answer is 0 until the server handles it, and then   *)
(* the id of the request made, or Refused.                                  *)
Call == [kind: Kinds \cup {"set", "save"}, arg: Nat, answer: {Refused} \cup 0..MaxRequests]
Socket == [open: BOOLEAN, queue: SUBSET {"requested", "done"}]

Init ==
    /\ left \in Stories
    /\ machine = [disks |-> [i \in 1..FirstDisks |-> i], cpu |-> 1, options |-> 1, shot |-> FALSE]
    /\ requests = <<>>
    /\ info = [open |-> TRUE, queue |-> <<>>]
    /\ load = [state |-> "sent", info |-> NotLoaded]
    /\ calls = <<>>
    /\ watch = [i \in Ids |-> [open |-> FALSE, queue |-> {}]]
    /\ showmachine = NotLoaded
    /\ subscribed_extra = FALSE /\ lock_info = FALSE /\ edit = FALSE /\ touched = FALSE
    /\ remove_item = None
    /\ new_option = 1 /\ pristine = TRUE
    /\ pending_request = None /\ screenshot_waiting = FALSE

Happens(what) == left[what] > 0 /\ left' = [left EXCEPT ![what] = @ - 1]

-----------------------------------------------------------------------------
(* The server.  A machine has one request working at most, here in one step. *)
Open == {i \in DOMAIN requests : requests[i].status = "requested"}
Snapshot == [disks |-> machine.disks, cpu |-> machine.cpu, options |-> machine.options,
             shot |-> machine.shot, pending |-> Cardinality(Open)]

NewRequest(kind, arg) ==
    /\ Len(requests) < MaxRequests
    /\ requests' = Append(requests, [kind |-> kind, arg |-> arg, status |-> "requested"])

(* What a request leaves: a file is looked for by name and a device without *)
(* file by its place; neither may be there any more.                        *)
Missing == Disks \ ToSet(machine.disks)
Executed(r) ==
    CASE r.kind = "add" -> [machine EXCEPT !.disks = IF Missing = {} THEN @
                              ELSE Append(@, CHOOSE d \in Missing : \A e \in Missing : d <= e)]
      [] r.kind = "remove file" -> [machine EXCEPT !.disks = Where(@, Disks \ {r.arg})]
      [] r.kind = "remove index" -> [machine EXCEPT !.disks =
                                       IF r.arg <= Len(@) THEN RemoveAt(@, r.arg) ELSE @]
      [] r.kind = "cpu" -> [machine EXCEPT !.cpu = r.arg]
      [] r.kind = "shot" -> [machine EXCEPT !.shot = TRUE]

(* Done, well or with an error.                                             *)
Execute ==
    /\ \E i \in Open :
        /\ machine' \in {machine, Executed(requests[i])}
        /\ requests' = [requests EXCEPT ![i].status = "done"]
    /\ UNCHANGED <<left, link, page>>

OthersAsk ==
    /\ Happens("others")
    /\ \/ \E d \in Files \cap ToSet(machine.disks) : NewRequest("remove file", d)
       \/ \E v \in Values \ {machine.cpu} : NewRequest("cpu", v)
    /\ UNCHANGED <<machine, link, page>>

OthersSet ==
    /\ Happens("othersSet")
    /\ \E v \in Values : machine' = [machine EXCEPT !.options = v]
    /\ UNCHANGED <<requests, link, page>>

(* /request/..., /machine/screenshot and /machine/set.  No request is made   *)
(* when a field is missing or new_request refuses it.                       *)
ServerHandles(c) ==
    /\ calls[c].answer = 0
    /\ \/ /\ calls[c].kind \in Kinds
          /\ NewRequest(calls[c].kind, calls[c].arg)
          /\ calls' = [calls EXCEPT ![c].answer = Len(requests) + 1]
          /\ UNCHANGED machine
       \/ /\ calls[c].kind \in Kinds
          /\ calls' = [calls EXCEPT ![c].answer = Refused]
          /\ UNCHANGED server
       \/ /\ calls[c].kind \in {"set", "save"}
          /\ machine' = [machine EXCEPT !.options = calls[c].arg]
          /\ calls' = RemoveAt(calls, c)
          /\ UNCHANGED requests
    /\ UNCHANGED <<left, info, load, watch, page>>

(* Messages are sent once in two seconds: after a change of the table, after *)
(* a minute, and, of a request, always.                                     *)
ServerSendsInfo ==
    /\ info.open /\ info.queue = <<>>
    /\ info' = [info EXCEPT !.queue = <<Snapshot>>]
    /\ UNCHANGED <<left, server, load, calls, watch, page>>

ServerSendsRequest(i) ==
    /\ watch[i].open /\ watch[i].queue = {}
    /\ watch' = [watch EXCEPT ![i].queue = {requests[i].status}]
    /\ UNCHANGED <<left, server, info, load, calls, page>>

ServerAnswersLoad ==
    /\ load.state = "sent"
    /\ load' = [state |-> "answered", info |-> Snapshot]
    /\ UNCHANGED <<left, server, info, calls, watch, page>>

-----------------------------------------------------------------------------
(* The page: GET /machine/info, once.  Its answer may be older than messages *)
(* that arrived before it.                                                  *)
InfoLoaded ==
    /\ load.state = "answered"
    /\ load' = [state |-> "done", info |-> NotLoaded]
    /\ showmachine' = load.info
    /\ new_option' = load.info.options
    /\ UNCHANGED <<left, server, info, calls, watch, editor, remove_item, pristine, banner>>

(* subscribe_machine_info, for a machine that was found: showmachine is      *)
(* replaced before lock_info is looked at, and the options are read again   *)
(* only when the form was touched.                                          *)
OnInfoKept ==
    /\ info.queue # <<>>
    /\ info' = [info EXCEPT !.queue = <<>>]
    /\ showmachine' = IF lock_info THEN showmachine ELSE info.queue[1]
    /\ screenshot_waiting' = (screenshot_waiting /\ ~info.queue[1].shot)
    /\ IF lock_info THEN UNCHANGED <<subscribed_extra, lock_info, new_option>>
       ELSE /\ subscribed_extra' = TRUE /\ lock_info' = edit
            /\ new_option' = IF pristine THEN new_option ELSE info.queue[1].options
    /\ UNCHANGED <<left, server, load, calls, watch, edit, touched, remove_item, pristine, pending_request>>

OnInfo ==
    /\ info.queue # <<>>
    /\ info' = [info EXCEPT !.queue = <<>>]
    /\ showmachine' = info.queue[1]
    /\ screenshot_waiting' = (screenshot_waiting /\ ~info.queue[1].shot)
    /\ IF lock_info THEN UNCHANGED <<subscribed_extra, lock_info, new_option>>
       ELSE /\ subscribed_extra' = TRUE /\ lock_info' = edit
            /\ new_option' = IF pristine THEN new_option ELSE info.queue[1].options
    /\ UNCHANGED <<left, server, load, calls, watch, edit, touched, remove_item, pristine, pending_request>>

(* toggle_edit, from a button that is disabled while requests are pending,   *)
(* and set_edit(''), which leaves lock_info as it is.  The list of hardware *)
(* is not shown before a message tells it.                                  *)
ToggleEdit ==
    /\ subscribed_extra /\ showmachine.pending = 0 /\ ~edit /\ remove_item = None
    /\ Happens("edit")
    /\ edit' = TRUE /\ lock_info' = TRUE
    /\ UNCHANGED <<server, link, showmachine, subscribed_extra, touched, remove_item, options, banner>>

CloseEdit ==
    /\ edit
    /\ edit' = FALSE
    /\ UNCHANGED <<left, server, link, showmachine, subscribed_extra, lock_info, touched, remove_item,
                   options, banner>>

(* What is typed is written in showmachine; the form stays touched for ever. *)
TypeCpu ==
    /\ edit /\ Happens("type")
    /\ \E v \in Values : v # showmachine.cpu /\ showmachine' = [showmachine EXCEPT !.cpu = v]
    /\ touched' = TRUE
    /\ UNCHANGED <<server, link, subscribed_extra, lock_info, edit, remove_item, options, banner>>

-----------------------------------------------------------------------------
(* $scope.request, and what its answer does.                                *)
Send(kind, arg) == calls' = Append(calls, [kind |-> kind, arg |-> arg, answer |-> 0])

DoRequest(kind, arg) ==
    /\ showmachine' = [showmachine EXCEPT !.pending = @ + 1]
    /\ pending_request' = None
    /\ lock_info' = FALSE
    /\ Send(kind, arg)
    /\ UNCHANGED <<server, info, load, watch, subscribed_extra, touched, pristine, screenshot_waiting>>

WaitingStill(c) == screenshot_waiting
WaitingAfterAnswer(c) == screenshot_waiting /\ calls[c].answer # Refused

PendingLess == showmachine' = [showmachine EXCEPT !.pending = @ - 1]
PendingAfterAnswer == UNCHANGED showmachine

OnAnswer(c) ==
    /\ calls[c].answer # 0
    /\ calls' = RemoveAt(calls, c)
    /\ IF calls[c].kind = "shot"
       THEN /\ screenshot_waiting' = WaitingAfterAnswer(c)
            /\ UNCHANGED <<watch, pending_request>>
       ELSE /\ IF calls[c].answer = Refused
               THEN pending_request' = [id |-> 0, status |-> "done"] /\ UNCHANGED watch
               ELSE /\ watch' = [watch EXCEPT ![calls[c].answer].open = TRUE]
                    /\ UNCHANGED pending_request
            /\ UNCHANGED screenshot_waiting
    /\ PendingAfterAnswer
    /\ UNCHANGED <<left, server, info, load, editor, remove_item, options>>

(* subscribe_request: no socket is ever closed, and each writes the banner.  *)
OnWatchFirst(i) ==
    /\ \E status \in watch[i].queue :
          pending_request' = IF pending_request # None THEN pending_request
                             ELSE [id |-> i, status |-> status]
    /\ watch' = [watch EXCEPT ![i].queue = {}]
    /\ UNCHANGED <<left, server, info, load, calls, showmachine, editor, remove_item, options,
                   screenshot_waiting>>

OnWatch(i) ==
    /\ \E status \in watch[i].queue : pending_request' = [id |-> i, status |-> status]
    /\ watch' = [watch EXCEPT ![i].queue = {}]
    /\ UNCHANGED <<left, server, info, load, calls, showmachine, editor, remove_item, options,
                   screenshot_waiting>>

-----------------------------------------------------------------------------
(* The hardware.  Apply keeps the editor open and Accept closes it.         *)
ApplyIsEnabled == edit /\ showmachine.pending = 0

ChangeHardware ==
    /\ ApplyIsEnabled /\ touched /\ Happens("hardware")
    /\ edit' \in {edit, FALSE}
    /\ DoRequest("cpu", showmachine.cpu)
    /\ UNCHANGED <<remove_item, new_option>>

(* Without data the daemon gives the first value.                           *)
SetDefaults ==
    /\ ApplyIsEnabled /\ Happens("hardware")
    /\ DoRequest("cpu", 1)
    /\ UNCHANGED <<edit, remove_item, new_option>>

AddHardware ==
    /\ subscribed_extra /\ ~edit /\ remove_item = None /\ Happens("hardware")
    /\ DoRequest("add", 0)
    /\ UNCHANGED <<edit, remove_item, new_option>>

(* The dialog keeps the place of the disk in the list and its name, ...     *)
AskRemove ==
    /\ subscribed_extra /\ showmachine.pending = 0 /\ ~edit /\ remove_item = None
    /\ left["hardware"] > 0
    /\ \E i \in DOMAIN showmachine.disks : remove_item' = [index |-> i, name |-> showmachine.disks[i]]
    /\ UNCHANGED <<left, server, link, showmachine, editor, options, banner>>

CancelRemove ==
    /\ remove_item # None
    /\ remove_item' = None
    /\ UNCHANGED <<left, server, link, showmachine, editor, options, banner>>

(* ... and remove_hardware looks at that place again.  When the list is     *)
(* shorter by then it throws an error before it asks for anything.          *)
RemovedAs(i) == IF showmachine.disks[i] \in Files THEN <<"remove file", showmachine.disks[i]>>
                ELSE <<"remove index", i>>
RemoveHardware ==
    /\ remove_item # None /\ Happens("hardware")
    /\ remove_item' = None
    /\ IF remove_item.index \in DOMAIN showmachine.disks
       THEN /\ LET r == RemovedAs(remove_item.index) IN DoRequest(r[1], r[2])
            /\ UNCHANGED <<edit, new_option>>
       ELSE UNCHANGED <<server, link, showmachine, editor, options, banner>>

-----------------------------------------------------------------------------
(* The options, and the fields set one by one, each in a call of its own.   *)
EditOptions ==
    /\ load.state = "done" /\ Happens("options")
    /\ \E v \in Values : v # new_option /\ new_option' = v
    /\ pristine' = FALSE
    /\ UNCHANGED <<server, link, showmachine, editor, remove_item, banner>>

ResetOptions ==
    /\ ~pristine
    /\ new_option' = showmachine.options
    /\ pristine' = TRUE
    /\ UNCHANGED <<left, server, link, showmachine, editor, remove_item, banner>>

UpdateOptions ==
    /\ ~pristine
    /\ Send("save", new_option)
    /\ pristine' = TRUE
    /\ UNCHANGED <<left, server, info, load, watch, showmachine, editor, remove_item, new_option, banner>>

DoneIsForgotten ==
    pending_request' = IF pending_request # None /\ pending_request.status = "done"
                       THEN None ELSE pending_request

(* set, set_bool and set_value.                                             *)
SetField ==
    /\ load.state = "done" /\ Happens("set")
    /\ \E v \in Values : /\ showmachine' = [showmachine EXCEPT !.options = v]
                         /\ Send("set", v)
    /\ DoneIsForgotten
    /\ UNCHANGED <<server, info, load, watch, editor, remove_item, options, screenshot_waiting>>

Screenshot ==
    /\ load.state = "done" /\ Happens("shot")
    /\ screenshot_waiting' = TRUE
    /\ showmachine' = [showmachine EXCEPT !.shot = FALSE]
    /\ Send("shot", 0)
    /\ UNCHANGED <<server, info, load, watch, editor, remove_item, options, pending_request>>

(* The sockets have no onclose: nothing opens them again.                   *)
ConnectionLost ==
    /\ Happens("loss")
    /\ info' = [open |-> FALSE, queue |-> <<>>]
    /\ watch' = [i \in Ids |-> [open |-> FALSE, queue |-> {}]]
    /\ UNCHANGED <<server, load, calls, page>>

-----------------------------------------------------------------------------
CanAct == load.state = "done" \/ left["slow"] > 0
Acts ==
    \/ ToggleEdit \/ CloseEdit \/ TypeCpu
    \/ ChangeHardware \/ SetDefaults \/ AddHardware
    \/ AskRemove \/ CancelRemove \/ RemoveHardware
    \/ EditOptions \/ ResetOptions \/ UpdateOptions \/ SetField \/ Screenshot
Answers ==
    \/ Execute \/ ServerAnswersLoad \/ InfoLoaded
    \/ \E c \in DOMAIN calls : ServerHandles(c) \/ OnAnswer(c)
Next ==
    \/ (CanAct /\ Acts) \/ OthersAsk \/ OthersSet \/ ConnectionLost \/ Answers
    \/ ServerSendsInfo \/ OnInfo
    \/ \E i \in Ids : ServerSendsRequest(i) \/ OnWatch(i)

Spec == Init /\ [][Next]_vars

(* The daemon works, calls are answered, and the timer of the sockets, set  *)
(* for ever by WebSocket.pm, goes on.  Nothing makes the user or the other  *)
(* users act.                                                               *)
Fairness ==
    /\ WF_vars(Answers)
    /\ WF_vars(ServerSendsInfo \/ OnInfo)
    /\ \A i \in Ids : WF_vars(ServerSendsRequest(i) \/ OnWatch(i))
FairSpec == Spec /\ Fairness

-----------------------------------------------------------------------------
(* The types of the state; no request is less than pending, and only the    *)
(* banner of a refused request has no id.                                   *)
TypeOK ==
    /\ left \in Story
    /\ machine \in [disks: Seq(Disks), cpu: Values, options: Values, shot: BOOLEAN]
    /\ requests \in Seq(Request) /\ Len(requests) <= MaxRequests
    /\ info.open \in BOOLEAN /\ info.queue \in Seq(Info) /\ Len(info.queue) <= 1
    /\ load \in [state: {"sent", "answered", "done"}, info: Info]
    /\ calls \in Seq(Call)
    /\ watch \in [Ids -> Socket]
    /\ showmachine \in Info
    /\ {subscribed_extra, lock_info, edit, touched, pristine, screenshot_waiting} \subseteq BOOLEAN
    /\ remove_item = None \/ remove_item \in [index: Nat \ {0}, name: Disks]
    /\ new_option \in Values
    /\ \/ pending_request \in {None, [id |-> 0, status |-> "done"]}
       \/ pending_request \in [id: 1..Len(requests), status: {"requested", "done"}]

(* What the page shows ends being what the server has, whatever was typed   *)
(* over it and in whatever order the answers came, and the lists of nodes   *)
(* and requests, asked for by the first message, are not missed because an  *)
(* editor was opened (ravada.js, subscribe_machine_info).                   *)
InfoSettles == <>[](info.open => showmachine = Snapshot /\ subscribed_extra)

(* The banner that follows requests does not stay waiting once they ended,  *)
(* though the sockets of several requests write it (subscribe_request).     *)
BannerEnds ==
    <>[](info.open /\ pending_request # None => (pending_request.status = "done" \/ Open # {}))

(* The spinner of the screenshot stops when the machine has one or when the *)
(* call fails; it goes on only for a request that left no screenshot.       *)
ScreenshotEnds ==
    <>[](info.open /\ screenshot_waiting =>
            ~machine.shot /\ \E i \in DOMAIN requests : requests[i].kind = "shot")

(* The dialog asks to "Type the name of the volume disk to confirm": the    *)
(* disk asked to be removed is the one named.  (vm_hardware_modal_remove)   *)
RemovedIsNamed ==
    [][LET c == calls'[Len(calls')] IN
       Len(calls') > Len(calls) /\ c.kind = "remove file" => c.arg = remove_item.name]_vars
=============================================================================
