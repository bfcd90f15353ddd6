---------------------------- MODULE UserMachines ----------------------------
(***************************************************************************)
(* The page of a user: her bases, the clones she has of them, and her own  *)
(* machines (mainpageCrtl of public/js/ravada.js).  The server pushes the  *)
(* whole list; the page merges it in place into what it shows, to keep the *)
(* clone the user has chosen of each base, and starts, stops and restores  *)
(* that clone.                                                             *)
(*                                                                         *)
(* Faulty variants Next never reaches: NeedsReloadAdded, NeedsReloadAny,   *)
(* CopyCloneOld, ShownToo.                                                 *)
(***************************************************************************)
EXTENDS Naturals, Sequences, FiniteSets, Sorting

CONSTANTS
    Order,        \* sequence: all bases and machines, as the server sorts them
    CloneOrder,   \* sequence: all clones, as the server sorts them
    BaseOf,       \* function: the base of each clone
    StartLimit,   \* the setting start_limit of this user
    Autostart,    \* the clones that start with their node
    Tables,       \* the server's tables to start from: [listed, clones, up]
    MaxChanges,   \* bound: changes of the server's tables
    MaxUnderWay   \* bound: lists sent and not handled yet

MachineIds == {Order[i] : i \in DOMAIN Order}
CloneIds == {CloneOrder[i] : i \in DOMAIN CloneOrder}
Ids == MachineIds \cup CloneIds
Nobody == "nobody"   \* no id
Lost == 99           \* a reference to an object the list no longer holds

ASSUME OrderAssumption ==
    /\ Order \in Seq(MachineIds) /\ CloneOrder \in Seq(CloneIds) /\ MaxChanges \in Nat
    /\ BaseOf \in [CloneIds -> MachineIds] /\ Nobody \notin Ids
ASSUME TablesAssumption == \A t \in Tables :
    /\ t.listed \subseteq MachineIds /\ t.clones \subseteq CloneIds
    /\ t.up \subseteq t.clones \cup (MachineIds \ {BaseOf[c] : c \in CloneIds})

VARIABLES
    listed, bases, clones, up, changes,         \* server: tables
    under_way,                                  \* lists sent to the page
    machines, check, confirming,                \* page: $scope
    ws_connected, ws_fail, left                 \* page: connection; where it has gone

server == <<listed, bases, clones, up, changes>>
page == <<machines, check, confirming, ws_connected, ws_fail, left>>
vars == <<server, under_way, page>>

Activity == {"up", "down", "unset"}
Clone == [id: CloneIds, is_active: {"up", "down"}, autostart: BOOLEAN]
(* clone is the place in list_clones of the object machine.clone refers to; *)
(* host_restore is written by the template in the scope of the machine.     *)
Machine == [id: MachineIds, is_base: BOOLEAN, is_active: Activity,
            list_clones: Seq(Clone), clone: Nat, action: {"none", "prepare", "restore"},
            pending_shutdown: BOOLEAN, host_restore: CloneIds \cup {Nobody}]
NoCheck == [at |-> 0, state |-> "none", id |-> Nobody]

-----------------------------------------------------------------------------
(* list_machines_user of Front.pm: bases and own machines, sorted by alias, *)
(* each with the clones the user has of it, sorted by name.                 *)
Power(id) == IF id \in up THEN "up" ELSE "down"
RowOfClone == [c \in CloneIds |->
    [id |-> c, is_active |-> Power(c), autostart |-> c \in Autostart]]
ClonesOf(m) ==
    LET own == Where(CloneOrder, {c \in clones : BaseOf[c] = m}) IN
    IF m \notin bases THEN <<>> ELSE [i \in DOMAIN own |-> RowOfClone[own[i]]]
RowOf == [m \in MachineIds |->
    [id |-> m, is_base |-> m \in bases, is_active |-> IF m \in bases THEN "unset" ELSE Power(m),
     list_clones |-> ClonesOf(m)]]
ListMachinesUser ==
    LET shown == Where(Order, listed) IN [i \in DOMAIN shown |-> RowOf[shown[i]]]

Init ==
    /\ \E t \in Tables : listed = t.listed /\ clones = t.clones /\ up = t.up
    /\ bases = {BaseOf[c] : c \in CloneIds}
    /\ changes = 0
    /\ under_way = <<>>
    /\ machines = <<>>
    /\ check = NoCheck
    /\ confirming = NoCheck
    /\ ws_connected = FALSE /\ ws_fail = FALSE
    /\ left = Nobody

-----------------------------------------------------------------------------
(* The server.  Bases are published and hidden, clones made and removed,    *)
(* machines start and stop, by this user's requests or by others.           *)
Change ==
    /\ changes < MaxChanges /\ left = Nobody  \* bound: while the page is there
    /\ changes' = changes + 1
    /\ UNCHANGED <<under_way, page>>

Publish(m) ==
    /\ Change
    /\ listed' = IF m \in listed THEN listed \ {m} ELSE listed \cup {m}
    /\ UNCHANGED <<bases, clones, up>>

ChangeClone(c) ==
    /\ Change
    /\ clones' = IF c \in clones THEN clones \ {c} ELSE clones \cup {c}
    /\ up' = up \ {c}
    /\ UNCHANGED <<listed, bases>>

SwitchPower(id) ==
    /\ Change
    /\ id \in clones \cup (MachineIds \ bases)
    /\ up' = IF id \in up THEN up \ {id} ELSE up \cup {id}
    /\ UNCHANGED <<listed, bases, clones>>

PreparedBase(m) ==
    /\ Change
    /\ m \notin bases \cup up
    /\ bases' = bases \cup {m}
    /\ UNCHANGED <<listed, clones, up>>

(* A tick of the web socket: the list, when its tables changed or a minute  *)
(* after the last one.                                                      *)
Tick ==
    /\ left = Nobody /\ ws_connected
    /\ Len(under_way) < MaxUnderWay
    /\ under_way' = Append(under_way, ListMachinesUser)
    /\ UNCHANGED <<server, page>>

-----------------------------------------------------------------------------
(* The page: merging a list.                                                *)

(* set_one_clone: the first active clone, or the first; then change_clone   *)
(* copies its activity to the base.                                         *)
Chosen(list) ==
    LET active == {i \in DOMAIN list : list[i].is_active = "up"} IN
    IF list = <<>> THEN 0
    ELSE IF active = {} THEN 1
    ELSE CHOOSE i \in active : \A j \in active : i <= j

SetOneClone(m) ==
    LET one == Chosen(m.list_clones) IN
    [m EXCEPT !.clone = one, !.is_active = IF one = 0 THEN @ ELSE m.list_clones[one].is_active]

Added(data) ==
    SetOneClone([id |-> data.id, is_base |-> data.is_base, is_active |-> data.is_active,
                 list_clones |-> data.list_clones, clone |-> 0, action |-> "none",
                 pending_shutdown |-> FALSE, host_restore |-> Nobody])

(* copy_machine_data: a shorter list replaces the old one; then each place  *)
(* whose clone is another gets the new object, and the others only the      *)
(* activity (the other fields of a clone stay as they were).                *)
SameClone(old, new, i) == i \in DOMAIN old /\ old[i].id = new[i].id
CopyCloneOld(old, new) == old
CopyClone(old, new) == [old EXCEPT !.is_active = new.is_active]
CopyClones(old, new) ==
    IF Len(new) < Len(old) THEN new
    ELSE [i \in DOMAIN new |-> IF SameClone(old, new, i) THEN CopyClone(old[i], new[i]) ELSE new[i]]
NeedsReloadAdded(old, new) == Len(new) # Len(old)
NeedsReloadAny(old, new) == Len(new) < Len(old) \/ \E i \in DOMAIN new : i \notin DOMAIN old \/ old[i] # new[i]
NeedsReload(old, new) ==
    Len(new) < Len(old) \/ \E i \in DOMAIN new : ~SameClone(old, new, i)

(* A reference to an object that was replaced is lost, unless it is set     *)
(* anew.                                                                    *)
Kept(m, new) ==
    IF m.clone = 0 \/ (m.clone \in DOMAIN new /\ Len(new) >= Len(m.list_clones)
                       /\ SameClone(m.list_clones, new, m.clone))
    THEN m.clone ELSE Lost

Merged(m, data) ==
    LET new == data.list_clones
        copied == [m EXCEPT !.is_base = data.is_base, !.is_active = data.is_active,
                            !.list_clones = CopyClones(m.list_clones, new),
                            !.clone = Kept(m, new)]
    IN IF NeedsReload(m.list_clones, new) THEN SetOneClone(copied) ELSE copied

(* Objects of machines are kept only at a place that has the same id, in a  *)
(* list of the same length.                                                 *)
KeptAt(data, i) == Len(machines) = Len(data) /\ machines[i].id = data[i].id

ShownToo(list) == machines \o [i \in DOMAIN list |-> Added(list[i])]
Shown(list) == [i \in DOMAIN list |->
    IF KeptAt(list, i) THEN Merged(machines[i], list[i]) ELSE Added(list[i])]

(* A check or a question about a machine object that was replaced.          *)
Forget(ref, list) ==
    IF ref.at \in DOMAIN list /\ ~KeptAt(list, ref.at) THEN [ref EXCEPT !.at = Lost]
    ELSE IF ref.at > Len(list) THEN [ref EXCEPT !.at = Lost]
    ELSE ref

OnList ==
    /\ under_way # <<>>
    /\ LET list == Head(under_way) IN
        /\ machines' = Shown(list)
        /\ check' = Forget(check, list)
        /\ confirming' = Forget(confirming, list)
    /\ under_way' = Tail(under_way)
    /\ UNCHANGED <<server, ws_connected, ws_fail, left>>

OnOpen ==
    /\ left = Nobody /\ ~ws_connected
    /\ ws_connected' = TRUE
    /\ ws_fail' = FALSE
    /\ UNCHANGED <<server, under_way, machines, check, confirming, left>>

(* The timer of sixty seconds.                                              *)
OpenTimeout ==
    /\ left = Nobody /\ ~ws_connected
    /\ ws_fail' = TRUE
    /\ UNCHANGED <<server, under_way, machines, check, confirming, ws_connected, left>>

-----------------------------------------------------------------------------
(* The page: what the user does with the machine at place i.                *)
User(i) == left = Nobody /\ i \in DOMAIN machines

HasClone(m) == m.clone \in DOMAIN m.list_clones
ItsClone(m) == m.list_clones[m.clone]
Target(m) == IF HasClone(m) THEN ItsClone(m).id ELSE m.id

(* The select of the clones; it does not call change_clone.                 *)
SelectClone(i, j) ==
    /\ User(i) /\ Len(machines[i].list_clones) > 1 /\ j \in DOMAIN machines[i].list_clones
    /\ machines' = [machines EXCEPT ![i].clone = j]
    /\ UNCHANGED <<server, under_way, check, confirming, ws_connected, ws_fail, left>>

(* The page with nothing in it, before its first list or after it is gone.  *)
Empty ==
    /\ machines' = <<>> /\ under_way' = <<>>
    /\ check' = NoCheck /\ confirming' = NoCheck
    /\ ws_connected' = FALSE /\ ws_fail' = FALSE
    /\ UNCHANGED server

(* window.location.assign.                                                  *)
LeaveTo(id) == left' = id /\ Empty

(* action(machine, 'start'): a clone shown as active is opened at once,     *)
(* else the page asks how many machines may run.  Bound: one check at once. *)
StartActive(i) ==
    /\ User(i) /\ HasClone(machines[i]) /\ ItsClone(machines[i]).is_active = "up"
    /\ LeaveTo(Target(machines[i]))

CheckMaxMachines(i) ==
    /\ User(i) /\ check = NoCheck /\ confirming.at # i
    /\ ~(HasClone(machines[i]) /\ ItsClone(machines[i]).is_active = "up")
    /\ check' = [at |-> i, state |-> "sent", id |-> Target(machines[i])]
    /\ machines' = [machines EXCEPT ![i].action = "none"]
    /\ UNCHANGED <<server, under_way, confirming, ws_connected, ws_fail, left>>

(* /execution_machines_limit answers with what is running at that time.     *)
ServerAnswers ==
    /\ check.state = "sent"
    /\ check' = [check EXCEPT !.state =
          IF Cardinality(up) < StartLimit \/ (check.at \in DOMAIN machines /\ machines[check.at].id \in up)
          THEN "room" ELSE "full"]
    /\ UNCHANGED <<server, under_way, machines, confirming, ws_connected, ws_fail, left>>

(* The answer acts on the machine object of the click: its clone may have   *)
(* changed, and the object may no longer be shown.                          *)
StartId(ref) == IF ref.at \in DOMAIN machines THEN Target(machines[ref.at]) ELSE ref.id

OnRoom ==
    /\ left = Nobody /\ check.state = "room"
    /\ LeaveTo(StartId(check))

OnFull ==
    /\ left = Nobody /\ check.state = "full"
    /\ confirming' = check
    /\ check' = NoCheck
    /\ UNCHANGED <<server, under_way, machines, ws_connected, ws_fail, left>>

(* The check failed: the page is loaded again.                              *)
OnCheckError ==
    /\ left = Nobody /\ check.state = "sent"
    /\ Empty
    /\ UNCHANGED left

(* "One of the machines that are currently running will be shutdown.        *)
(* Continue?", asked beside the machine the check was made for.             *)
ConfirmingStopDone ==
    /\ left = Nobody /\ confirming.at \in DOMAIN machines
    /\ LeaveTo(StartId(confirming))

ConfirmingStopCancelled ==
    /\ left = Nobody /\ confirming.at \in DOMAIN machines
    /\ confirming' = NoCheck
    /\ UNCHANGED <<server, under_way, machines, check, ws_connected, ws_fail, left>>

(* action(machine, 'shutdown'): a machine that starts with its node asks    *)
(* first.  The request is executed later, as SwitchPower.                   *)
ShownActive(m) == m.is_active = "up" \/ (HasClone(m) /\ ItsClone(m).is_active = "up")
AsksShutdown(m) == HasClone(m) /\ ItsClone(m).autostart
Shutdown(i) ==
    /\ User(i) /\ ShownActive(machines[i])
    /\ machines' = [machines EXCEPT ![i].action = "none",
                                    ![i].pending_shutdown = AsksShutdown(machines[i])]
    /\ UNCHANGED <<server, under_way, check, confirming, ws_connected, ws_fail, left>>

ShutdownAnswered(i) ==
    /\ User(i) /\ machines[i].pending_shutdown
    /\ machines' = [machines EXCEPT ![i].pending_shutdown = FALSE]
    /\ UNCHANGED <<server, under_way, check, confirming, ws_connected, ws_fail, left>>

(* Restore: asked about one clone, answered, yes or no, while that clone is *)
(* the chosen one.  The button and the entry of the menu ask.               *)
AskRestore(i) ==
    /\ User(i) /\ HasClone(machines[i]) /\ machines[i].host_restore = Nobody
    /\ machines' = [machines EXCEPT ![i].host_restore = ItsClone(machines[i]).id,
          ![i].action = IF ItsClone(machines[i]).is_active = "up" THEN @ ELSE "restore"]
    /\ UNCHANGED <<server, under_way, check, confirming, ws_connected, ws_fail, left>>

RestoreAnswered(i) ==
    /\ User(i) /\ HasClone(machines[i])
    /\ machines[i].host_restore = ItsClone(machines[i]).id
    /\ machines' = [machines EXCEPT ![i].host_restore = Nobody, ![i].action = "none"]
    /\ UNCHANGED <<server, under_way, check, confirming, ws_connected, ws_fail, left>>

(* Prepare base: asked, then answered; prepare_base writes is_base in the   *)
(* page before the server has done it.                                      *)
AskPrepare(i) ==
    /\ User(i) /\ ~machines[i].is_base /\ machines[i].is_active # "up"
    /\ machines[i].action = "none"
    /\ machines' = [machines EXCEPT ![i].action = "prepare"]
    /\ UNCHANGED <<server, under_way, check, confirming, ws_connected, ws_fail, left>>

PrepareBase(i) ==
    /\ User(i) /\ machines[i].action = "prepare"
    /\ \E yes \in BOOLEAN :
        machines' = [machines EXCEPT ![i].action = "none", ![i].is_base = @ \/ yes]
    /\ UNCHANGED <<server, under_way, check, confirming, ws_connected, ws_fail, left>>

-----------------------------------------------------------------------------
Server ==
    \/ \E m \in MachineIds : Publish(m) \/ PreparedBase(m)
    \/ \E c \in CloneIds : ChangeClone(c)
    \/ \E id \in Ids : SwitchPower(id)
    \/ Tick \/ ServerAnswers

Places == DOMAIN Order

Page ==
    \/ OnList \/ OnOpen \/ OpenTimeout \/ OnRoom \/ OnFull \/ OnCheckError
    \/ ConfirmingStopDone \/ ConfirmingStopCancelled
    \/ \E i \in Places :
        \/ \E j \in DOMAIN CloneOrder : SelectClone(i, j)
        \/ StartActive(i) \/ CheckMaxMachines(i) \/ Shutdown(i) \/ ShutdownAnswered(i)
        \/ AskRestore(i) \/ RestoreAnswered(i) \/ AskPrepare(i) \/ PrepareBase(i)

Next == Server \/ Page

Spec == Init /\ [][Next]_vars
(* The socket opens, the server ticks and the browser handles the lists.    *)
FairSpec == Spec /\ WF_vars(Tick) /\ WF_vars(OnList) /\ WF_vars(OnOpen)

-----------------------------------------------------------------------------
TypeOK ==
    /\ listed \subseteq MachineIds /\ bases \subseteq MachineIds
    /\ clones \subseteq CloneIds /\ up \subseteq Ids /\ changes \in 0..MaxChanges
    /\ machines \in Seq(Machine) /\ Len(machines) <= Len(Order)
    /\ {check, confirming} \subseteq
          [at: DOMAIN Order \cup {0, Lost}, state: {"none", "sent", "room", "full"}, id: Ids \cup {Nobody}]
    /\ ws_connected \in BOOLEAN /\ ws_fail \in BOOLEAN
    /\ left \in Ids \cup {Nobody}

(* The clone of each machine, which start, shutdown and restore act on, is  *)
(* one of its list: merging a list that grows, shrinks or changes places     *)
(* never leaves it pointing at an object that was replaced, and it is        *)
(* missing only when there are no clones.                                    *)
ClonePresent ==
    \A i \in DOMAIN machines :
        IF machines[i].list_clones = <<>> THEN machines[i].clone = 0
        ELSE machines[i].clone \in DOMAIN machines[i].list_clones

(* The clone the user chose stays chosen while the list brings the same     *)
(* machines and the same clones, however their activity changes.            *)
CloneIdsAt(m) == [j \in DOMAIN m.list_clones |-> m.list_clones[j].id]
ChoiceKept ==
    [][ OnList => LET list == Head(under_way) IN
          \A i \in DOMAIN list :
            KeptAt(list, i) /\ CloneIdsAt(list[i]) = CloneIdsAt(machines[i])
              => Target(machines'[i]) = Target(machines[i]) ]_vars

(* When the tables stop changing, the page comes to show the server's list: *)
(* machines, clones and their activity, in order.                           *)
Known(list) == [i \in DOMAIN list |-> [id |-> list[i].id, is_base |-> list[i].is_base,
    clones |-> [j \in DOMAIN list[i].list_clones |->
        [id |-> list[i].list_clones[j].id, is_active |-> list[i].list_clones[j].is_active]]]]
ListSettles ==
    []<>(left # Nobody \/ Known(machines) = Known(ListMachinesUser))
=============================================================================
