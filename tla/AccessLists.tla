---------------------------- MODULE AccessLists ----------------------------
(***************************************************************************)
(* Who may use a machine, and with what: the lists of singleMachinePageC   *)
(* of public/js/ravada.js the page changes by a call and then loads again.  *)
(* The grants of LDAP attributes and of browsers ("client") are ordered    *)
(* and end in a default; groups, shares and host devices are sets.  Calls  *)
(* are handled by the server, and answered, in any order.  The form that   *)
(* counts the entries of an attribute and the bundles are left out.         *)
(*                                                                         *)
(* Faulty variants Next never reaches: FixedDefaultOnce, ReloadClient,     *)
(* GroupCallsSwapped, GroupCallsOwn.                                       *)
(***************************************************************************)
EXTENDS Integers, Sequences, FiniteSets, SequencesExt

CONSTANTS
    Groups,        \* groups, or users a machine is shared with
    MaxRows,       \* bound: ids of grants
    MaxClicks,     \* bound of the bounds of a story
    AccessStories  \* bounds: see AccessStory

Kinds == {"ldap", "client"}
Topics == Kinds \cup {"groups", "shares", "device"}
(* How often the user changes each list; but for the last hasty times, only  *)
(* when all was answered and shown.                                         *)
AccessStory == [clicks: [Topics -> 0..MaxClicks], hasty: 0..MaxClicks]

ASSUME AccessAssumption ==
    /\ IsFiniteSet(Groups) /\ MaxRows \in Nat /\ MaxClicks \in Nat
    /\ AccessStories \subseteq AccessStory

VARIABLES
    access_left,                                    \* what may still happen
    rows, granted, shared_with, attached,           \* server
    asked,                                          \* calls under way
    access_list, access_default, access_checked,    \* page: $scope
    access_groups, wanted_groups, shares, shared_user_found,
    machine_has_device, is_attached

grants == <<rows, granted, shared_with, attached>>
lists == <<access_list, access_default, access_checked>>
names == <<access_groups, wanted_groups, shares, shared_user_found>>
boxes == <<machine_has_device, is_attached>>
accessVars == <<access_left, grants, asked, lists, names, boxes>>

Star == 0   \* the id shown for the row whose value is '*', the default
Row == [id: 0..MaxRows, allowed: BOOLEAN, last: BOOLEAN]
NoRow == [id |-> -1, allowed |-> FALSE, last |-> FALSE]
Undef == "*UNDEF*"
Changes == {"add", "delete", "move", "set"}
Loads == {"list", "check", "groups", "shares", "search"}
Ask(op, on, arg, more) == [op |-> op, on |-> on, arg |-> arg, more |-> more,
                           answered |-> FALSE, data |-> <<>>]
Load(op, on) == Ask(op, on, 0, 0)

AccessInit ==
    /\ access_left \in AccessStories
    /\ rows = [k \in Kinds |-> <<>>]
    /\ granted = {} /\ shared_with = {} /\ attached = FALSE
    /\ asked = <<>>
    /\ access_list = rows /\ access_checked = rows
    /\ access_default = [k \in Kinds |-> NoRow]
    /\ access_groups = {} /\ wanted_groups = {}
    /\ shares = {} /\ shared_user_found = Undef
    /\ machine_has_device = FALSE /\ is_attached = FALSE

-----------------------------------------------------------------------------
(* The server.  Places of a row, and what each change leaves.  _fix_default *)
(* makes the default when the first grant is added; later, in the list of   *)
(* LDAP it moves it one place down, in the other one to the end.            *)
Places(list, id) == {i \in DOMAIN list : list[i].id = id}
Swap(list, i, j) == [list EXCEPT ![i] = list[j], ![j] = list[i]]
FreeIds == (1..MaxRows) \ {r.id : r \in UNION {ToSet(rows[k]) : k \in Kinds}}

NewDefault(k, row) == [id |-> Star, allowed |-> k = "ldap", last |-> k = "ldap" /\ ~row.allowed]
FixedDefaultOnce(longer, k, row) ==
    IF Places(longer, Star) = {} THEN Append(longer, NewDefault(k, row)) ELSE longer
FixedDefault(longer, k, row) ==
    LET at == Places(longer, Star)
        i == CHOOSE i \in at : TRUE
    IN IF at = {} THEN Append(longer, NewDefault(k, row))
       ELSE IF k = "ldap" THEN Swap(longer, i, i + 1)
       ELSE Append(RemoveAt(longer, i), longer[i])
Added(list, k, row) == FixedDefault(Append(list, row), k, row)

(* The list without the row at one of these places: no two rows have an id. *)
Without(list, at) == IF at = {} THEN list ELSE RemoveAt(list, CHOOSE i \in at : TRUE)
Deleted(list, id) ==
    LET shorter == Without(list, Places(list, id))
    IN IF Len(shorter) = 1 /\ shorter[1].id = Star THEN <<>> ELSE shorter

(* An unknown id, or a place out of the list, is an error; of LDAP, to      *)
(* delete and to set an unknown one is not.                                 *)
Fails(c) ==
    CASE c.op = "move" -> \A i \in Places(rows[c.on], c.arg) : i + c.more \notin DOMAIN rows[c.on]
      [] c.op = "delete" -> c.on = "client" /\ Places(rows[c.on], c.arg) = {}
      [] OTHER -> FALSE

Changed(c) ==
    LET list == rows[c.on]
    IN CASE c.op = "add" -> Added(list, c.on, [id |-> c.arg, allowed |-> c.more, last |-> TRUE])
         [] c.op = "delete" -> Deleted(list, c.arg)
         [] c.op = "move" -> LET i == CHOOSE i \in Places(list, c.arg) : TRUE IN Swap(list, i, i + c.more)
         [] c.op = "set" -> [i \in DOMAIN list |-> IF list[i].id = c.arg
                                                   THEN [list[i] EXCEPT !.allowed = c.more[1], !.last = c.more[2]]
                                                   ELSE list[i]]

Loaded(c) ==
    CASE c.op \in {"list", "check"} -> rows[c.on]
      [] c.op = "groups" -> granted
      [] c.op = "shares" -> shared_with
      [] c.op = "search" -> c.arg

ServerHandles(i) ==
    LET c == asked[i] IN
    /\ ~c.answered
    /\ IF c.op \in Changes /\ Fails(c) THEN asked' = RemoveAt(asked, i)
       ELSE IF c.op \in Loads THEN asked' = [asked EXCEPT ![i].answered = TRUE, ![i].data = Loaded(c)]
       ELSE asked' = [asked EXCEPT ![i].answered = TRUE]
    /\ rows' = IF c.op \in Changes /\ ~Fails(c) THEN [rows EXCEPT ![c.on] = Changed(c)] ELSE rows
    /\ granted' = CASE c.op = "grant" -> granted \cup {c.arg}
                    [] c.op = "revoke" -> granted \ {c.arg}
                    [] OTHER -> granted
    /\ shared_with' = CASE c.op = "share" -> shared_with \cup {c.arg}
                        [] c.op = "unshare" -> shared_with \ {c.arg}
                        [] OTHER -> shared_with
    /\ attached' = CASE c.op = "attach" -> TRUE [] c.op = "detach" -> FALSE [] OTHER -> attached
    /\ UNCHANGED <<access_left, lists, names, boxes>>

(* A message of machine_info tells the devices of the machine.              *)
DeviceIsKnown ==
    /\ machine_has_device # attached
    /\ machine_has_device' = attached
    /\ UNCHANGED <<access_left, grants, asked, lists, names, is_attached>>

-----------------------------------------------------------------------------
(* The page: what each answer does.  After a change, the list is loaded and *)
(* access is checked again (init_ldap_access and init_domain_access).       *)
ReloadClient(c) == IF c.op \in Changes THEN <<Load("list", "client"), Load("check", "client")>> ELSE <<>>
Reload(c) ==
    CASE c.op \in Changes -> <<Load("list", c.on), Load("check", c.on)>>
      [] c.op \in {"grant", "revoke"} -> <<Load("groups", c.on)>>
      [] c.op \in {"share", "unshare"} -> <<Load("shares", c.on)>>
      [] OTHER -> <<>>

(* The default is taken apart: of LDAP, when it is the last; of the other,   *)
(* wherever it is.                                                          *)
DefaultPlaces(list, k) == IF k = "ldap" THEN Places(list, Star) \cap {Len(list)} ELSE Places(list, Star)
ShowList(k, list) ==
    LET at == DefaultPlaces(list, k)
    IN /\ access_list' = [access_list EXCEPT ![k] = Without(list, at)]
       /\ access_default' = [access_default EXCEPT ![k] =
             IF at = {} THEN NoRow ELSE list[CHOOSE i \in at : TRUE]]

OnAnswer(i) ==
    LET c == asked[i] IN
    /\ c.answered
    /\ asked' = RemoveAt(asked, i) \o Reload(c)
    /\ IF c.op = "list" THEN ShowList(c.on, c.data) ELSE UNCHANGED <<access_list, access_default>>
    /\ access_checked' = IF c.op = "check" THEN [access_checked EXCEPT ![c.on] = c.data] ELSE access_checked
    /\ access_groups' = IF c.op = "groups" THEN c.data ELSE access_groups
    /\ shares' = IF c.op = "shares" THEN c.data ELSE shares
    /\ shared_user_found' = IF c.op = "search" THEN c.data ELSE shared_user_found
    /\ UNCHANGED <<access_left, grants, wanted_groups, boxes>>

-----------------------------------------------------------------------------
(* The page: what the user clicks.                                          *)
Click(topic) ==
    /\ access_left.clicks[topic] > 0
    /\ access_left.clicks[topic] > access_left.hasty => asked = <<>> /\ machine_has_device = attached
    /\ access_left' = [access_left EXCEPT !.clicks[topic] = @ - 1]
Post(calls) == asked' = asked \o calls

AddAccess(k) ==
    /\ Click(k)
    /\ LET free == FreeIds \ {asked[i].arg : i \in {n \in DOMAIN asked : asked[n].op = "add"}}
       IN \E id \in free, allowed \in BOOLEAN :
             /\ \A other \in free : id <= other
             /\ Post(<<Ask("add", k, id, allowed)>>)
    /\ UNCHANGED <<grants, lists, names, boxes>>

DeleteAccess(k) ==
    /\ Click(k)
    /\ \E row \in ToSet(access_list[k]) : Post(<<Ask("delete", k, row.id, 0)>>)
    /\ UNCHANGED <<grants, lists, names, boxes>>

(* Up and down, but not past the ends of the list shown.                    *)
MoveAccess(k) ==
    /\ Click(k)
    /\ \E i \in DOMAIN access_list[k], by \in {-1, 1} :
        /\ i + by \in DOMAIN access_list[k]
        /\ Post(<<Ask("move", k, access_list[k][i].id, by)>>)
    /\ UNCHANGED <<grants, lists, names, boxes>>

(* A click turns one of the two; the default is sent without "last", which *)
(* the server takes for true of LDAP and for false of the other list.       *)
SetAccess(k) ==
    /\ Click(k)
    /\ \/ \E row \in ToSet(access_list[k]), both \in BOOLEAN \X BOOLEAN :
             /\ IF row.allowed THEN (both[1] = row.allowed) # (both[2] = row.last)
                ELSE both = <<TRUE, row.last>>
             /\ Post(<<Ask("set", k, row.id, both)>>)
       \/ /\ access_default[k] # NoRow
          /\ Post(<<Ask("set", k, Star, <<~access_default[k].allowed, k = "ldap">>)>>)
    /\ UNCHANGED <<grants, lists, names, boxes>>

(* The list of groups is a component that, after a group is added, removes  *)
(* one nobody has "so the form is not pristine": two calls and two loads.   *)
GroupCallsSwapped(g) == <<Ask("grant", "groups", Undef, 0), Ask("revoke", "groups", g, 0)>>
GroupCallsOwn(g) == <<Ask("grant", "groups", g, 0), Ask("revoke", "groups", g, 0)>>
GroupCalls(g) == <<Ask("grant", "groups", g, 0), Ask("revoke", "groups", Undef, 0)>>
AddGroup ==
    /\ Click("groups")
    /\ \E g \in Groups :
        /\ access_groups' = access_groups \cup {g}
        /\ wanted_groups' = wanted_groups \cup {g}
        /\ Post(GroupCalls(g))
    /\ UNCHANGED <<grants, lists, shares, shared_user_found, boxes>>

RemoveGroup ==
    /\ Click("groups")
    /\ \E g \in access_groups :
        /\ access_groups' = access_groups \ {g}
        /\ wanted_groups' = wanted_groups \ {g}
        /\ Post(<<Ask("revoke", "groups", g, 0)>>)
    /\ UNCHANGED <<grants, lists, shares, shared_user_found, boxes>>

SearchSharedUser ==
    /\ Click("shares")
    /\ shared_user_found' = Undef
    /\ \E u \in Groups : Post(<<Ask("search", "shares", u, 0)>>)
    /\ UNCHANGED <<grants, lists, access_groups, wanted_groups, shares, boxes>>

ShareMachine ==
    /\ Click("shares") /\ shared_user_found # Undef
    /\ Post(<<Ask("share", "shares", shared_user_found, 0)>>)
    /\ UNCHANGED <<grants, lists, names, boxes>>

RemoveShareMachine ==
    /\ Click("shares")
    /\ \E u \in shares : Post(<<Ask("unshare", "shares", u, 0)>>)
    /\ UNCHANGED <<grants, lists, names, boxes>>

(* The box follows the click, and the call what the page knew before it.    *)
DeviceCall == IF machine_has_device THEN "detach" ELSE "attach"
ToggleHostDevice ==
    /\ Click("device")
    /\ is_attached' = ~is_attached
    /\ Post(<<Load(DeviceCall, "device")>>)
    /\ UNCHANGED <<grants, lists, names, machine_has_device>>

-----------------------------------------------------------------------------
AccessClicks ==
    \/ \E k \in Kinds : AddAccess(k) \/ DeleteAccess(k) \/ MoveAccess(k) \/ SetAccess(k)
    \/ AddGroup \/ RemoveGroup
    \/ SearchSharedUser \/ ShareMachine \/ RemoveShareMachine
    \/ ToggleHostDevice
AccessAnswers == DeviceIsKnown \/ \E i \in DOMAIN asked : ServerHandles(i) \/ OnAnswer(i)
AccessNext == AccessClicks \/ AccessAnswers

AccessTypeOK ==
    /\ access_left \in AccessStory
    /\ rows \in [Kinds -> Seq(Row)] /\ access_list \in [Kinds -> Seq(Row)]
    /\ access_checked \in [Kinds -> Seq(Row)]
    /\ access_default \in [Kinds -> Row \cup {NoRow}]
    /\ granted \cup access_groups \cup wanted_groups \cup shares \cup shared_with \subseteq Groups
    /\ shared_user_found \in Groups \cup {Undef}
    /\ {attached, machine_has_device, is_attached} \subseteq BOOLEAN

(* What the page shows of the ordered lists, the shares and the devices is  *)
(* what the server has.                                                     *)
ListsAgree ==
    /\ \A k \in Kinds :
        /\ access_checked[k] = rows[k]
        /\ IF access_default[k] = NoRow THEN access_list[k] = rows[k]
           ELSE access_list[k] \o <<access_default[k]>> = rows[k]
    /\ shares = shared_with
    /\ is_attached = attached /\ machine_has_device = attached

(* The default is the last row of its list, so that it holds "if none of    *)
(* the previous match".                                                     *)
DefaultsLast == \A k \in Kinds : \A i \in Places(rows[k], Star) : i = Len(rows[k])
=============================================================================
