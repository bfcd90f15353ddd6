-------------------------------- MODULE Pages --------------------------------
(***************************************************************************)
(* The pages of the browser that ask for a list, change it with a call and  *)
(* show the answers: the access to a machine (AccessLists), the calendar of *)
(* bookings (Booking) and the administrator's (Administration).  Each keeps *)
(* its own state, and the browser shows one page: in a behaviour at most    *)
(* one of them has anything to do.                                          *)
(***************************************************************************)
EXTENDS AccessLists, Booking, Administration

vars == <<accessVars, bookingVars, adminVars>>

Patient == access_left.hasty = 0
AccessIdle == \A topic \in Topics : access_left.clicks[topic] = 0
BookingIdle == booking_left.open = 0 /\ booking_left.others = 0
AdminIdle == admin_left.page = "new" /\ admin_left.clicks = 0 /\ admin_left.others = 0
OnePage ==
    /\ AccessIdle \/ BookingIdle
    /\ AccessIdle \/ AdminIdle
    /\ BookingIdle \/ AdminIdle

Init == AccessInit /\ BookingInit /\ AdminInit /\ OnePage
Next ==
    \/ AccessNext /\ UNCHANGED <<bookingVars, adminVars>>
    \/ BookingNext /\ UNCHANGED <<accessVars, adminVars>>
    \/ AdminNext /\ UNCHANGED <<accessVars, bookingVars>>

Spec == Init /\ [][Next]_vars
(* The server answers and the daemon does what it is asked; the interval of *)
(* the list of nodes comes again.  Nothing is owed by the users.            *)
FairSpec ==
    /\ Spec
    /\ WF_accessVars(AccessAnswers) /\ WF_bookingVars(BookingAnswers)
    /\ WF_adminVars(Lists) /\ WF_adminVars(Polls) /\ WF_adminVars(Daemon) /\ WF_adminVars(Answers)

-----------------------------------------------------------------------------
(* The types of the three parts.                                            *)
TypeOK == AccessTypeOK /\ BookingTypeOK /\ AdminTypeOK

(* The default of an ordered list of grants is its last row, whatever was   *)
(* added, moved, set and deleted: _fix_default_access and the buttons of    *)
(* the page keep it there (for a user who waits for the list to be shown).  *)
DefaultIsLast == Patient => DefaultsLast

(* A user who waits sees in the end what the server has, of every list of   *)
(* the page: each change loads the list, and what was checked, again.       *)
AccessSettles == <>[](Patient => ListsAgree)

(* The groups of a machine come to be those the user left in the list,      *)
(* although the component removes one more after each it adds.              *)
GroupsAsAsked == <>[](Patient => granted = wanted_groups)

(* A user who waits for the conflicts of what was typed, and changes one    *)
(* event at a time, never books a time twice: neither with an entry of many *)
(* days nor by moving one, although conflicts are looked for only when a    *)
(* date, a time or a day of the week changes.                               *)
NoOverlap == booking_left.careful => NothingOverlaps

(* The calendar comes to show the entries of the server: every form that    *)
(* saved or deleted fetches them again before it is forgotten.              *)
CalendarSettles == <>[](booking_left.careful /\ ~IsOpen => events = entries)

(* The list of nodes comes to show their state, whatever was started,       *)
(* disabled or removed and in whatever order calls were answered, unless    *)
(* the dialog left modal_open.                                              *)
NodesSettle == <>[](admin_left.page = "nodes" /\ ~modal_open => nodes_shown = vms)

(* The options of a node, when nothing is being typed, come to be those the *)
(* server has, although messages that came while something was typed are    *)
(* dropped and not sent again, and a save is written field by field; or the *)
(* page shows the error of a save that stopped half way.                    *)
NodeInfoSettles ==
    <>[](admin_left.page = "node" /\ admin_left.patient /\ pristine
            => node = info \/ node_error)

(* The rows of host devices, merged by place, come to show the devices with *)
(* their filters, and none that was listed waits for its list, when no two  *)
(* changes come in the same second.                                         *)
RowOf(row, d) ==
    /\ <<row.id, row.filter, row.found>> = <<d.id, d.filter, d.found>>
    /\ row.loading => d.found = 0
RowsShown ==
    /\ Len(host_devices) = Len(devices)
    /\ \A i \in DOMAIN devices : RowOf(host_devices[i], devices[i])
RowsSettle == <>[](admin_left.page = "devices" /\ ~admin_left.quick => RowsShown)

(* When there are no more pages to ask for, every unused volume was listed  *)
(* (when none was removed meanwhile: pages count from the start of a list   *)
(* that a removal makes shorter).                                           *)
NothingSkipped ==
    unused_volumes.listed /\ ~loading_unused /\ ~list_more /\ admin_left.others = 0
        => unused \subseteq ToSet(unused_volumes.files)

(* For a user who waits for the answers, the forms of a new machine and of  *)
(* a new node tell whether the last name typed exists, and offer the images *)
(* and the storage pool of the backend chosen last.                         *)
NamesTold ==
    /\ name # 0 => name_duplicated = (name \in taken)
    /\ hostname_duplicated = (hostname \in taken)
NewMachineSettles ==
    <>[](admin_left.page = "new" /\ admin_left.patient
            => NamesTold /\ images.backend = backend /\ storage_pool = backend)
=============================================================================
