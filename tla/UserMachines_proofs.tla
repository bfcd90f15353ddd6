------------------------ MODULE UserMachines_proofs ------------------------
(***************************************************************************)
(* Theorems about UserMachines, for all bases, machines and clones, tables *)
(* of the server, and any number of changes and of lists on their way.     *)
(*                                                                         *)
(*   MachinesTyped     every variable stays in its type                    *)
(*   ClonesPresent     ClonePresent                                        *)
(*   ChoiceStays       ChoiceKept                                          *)
(***************************************************************************)
EXTENDS UserMachines, Sorting_proofs, SequenceTheorems, TLAPS

(* What the server sends, and machines of the page whose clone is right.    *)
Sent == [id: MachineIds, is_base: BOOLEAN, is_active: Activity, list_clones: Seq(Clone)]
SentList == {list \in Seq(Sent) : Len(list) <= Len(Order)}
RightClone(m) ==
    IF m.list_clones = <<>> THEN m.clone = 0 ELSE m.clone \in DOMAIN m.list_clones
RightMachine == {m \in Machine : RightClone(m)}

-----------------------------------------------------------------------------
(* Merging one machine.                                                     *)

\* set_one_clone takes one of the clones, if there are any.
LEMMA ChosenType ==
  ASSUME NEW list \in Seq(Clone)
  PROVE  IF list = <<>> THEN Chosen(list) = 0 ELSE Chosen(list) \in DOMAIN list
<1> DEFINE active == {i \in DOMAIN list : list[i].is_active = "up"}
<1>1. CASE list = <<>>
  BY <1>1 DEF Chosen
<1>2. CASE list # <<>> /\ active = {}
  <2>1. Chosen(list) = 1
    BY <1>2 DEF Chosen
  <2>2. 1 \in DOMAIN list
    BY <1>2
  <2> QED BY <1>2, <2>1, <2>2
<1>3. CASE list # <<>> /\ active # {}
  <2>1. DOMAIN list = 1 .. Len(list) /\ Len(list) \in Nat
    OBVIOUS
  <2>2. active \in SUBSET Nat /\ active \in SUBSET (1 .. Len(list))
    BY <2>1
  <2>3. IsFiniteSet(active)
    <3>1. IsFiniteSet(1 .. Len(list))
      BY <2>1, FS_Interval
    <3> HIDE DEF active
    <3> QED BY <2>2, <3>1, FS_Subset
  <2>4. \E i \in active : \A j \in active : i <= j
    <3> HIDE DEF active
    <3> QED BY <1>3, <2>2, <2>3, LeastOf
  <2>5. Chosen(list) = CHOOSE i \in active : \A j \in active : i <= j
    BY <1>3 DEF Chosen
  <2>6. Chosen(list) \in active
    BY <2>4, <2>5
  <2> QED BY <1>3, <2>6
<1> QED BY <1>1, <1>2, <1>3

LEMMA SetOneCloneType ==
  ASSUME NEW m \in Machine
  PROVE  SetOneClone(m) \in RightMachine
<1> DEFINE one == Chosen(m.list_clones)
           power == IF one = 0 THEN m.is_active ELSE m.list_clones[one].is_active
<1>1. m.list_clones \in Seq(Clone)
  BY DEF Machine
<1>2. IF m.list_clones = <<>> THEN one = 0 ELSE one \in DOMAIN m.list_clones
  BY <1>1, ChosenType
<1>3. one \in Nat /\ (one # 0 => one \in DOMAIN m.list_clones)
  BY <1>1, <1>2
<1> HIDE DEF one
<1>4. power \in Activity
  <2>1. CASE one = 0
    BY <2>1 DEF Machine
  <2>2. CASE one # 0
    <3>1. m.list_clones[one] \in Clone
      BY <1>1, <1>3, <2>2, ElementOfSeq
    <3> QED BY <2>2, <3>1 DEF Clone, Activity
  <2> QED BY <2>1, <2>2
<1>5. SetOneClone(m) = [m EXCEPT !.clone = one, !.is_active = power]
  BY DEF SetOneClone, one
<1> HIDE DEF power
<1>6. SetOneClone(m) \in Machine
  BY <1>3, <1>4, <1>5 DEF Machine
<1>7. /\ SetOneClone(m).clone = one
      /\ SetOneClone(m).list_clones = m.list_clones
  BY <1>5 DEF Machine
<1> QED BY <1>2, <1>6, <1>7 DEF RightMachine, RightClone

LEMMA AddedType ==
  ASSUME NEW data \in Sent
  PROVE  Added(data) \in RightMachine
<1> DEFINE m == [id |-> data.id, is_base |-> data.is_base, is_active |-> data.is_active,
                 list_clones |-> data.list_clones, clone |-> 0, action |-> "none",
                 pending_shutdown |-> FALSE, host_restore |-> Nobody]
<1>1. m \in Machine
  BY DEF Sent, Machine
<1>2. Added(data) = SetOneClone(m)
  BY DEF Added
<1> HIDE DEF m
<1> QED BY <1>1, <1>2, SetOneCloneType

\* The clones of a machine after a list are those of the list, and a place
\* keeps its clone when the list has the same one there.
LEMMA CopyClonesType ==
  ASSUME NEW old \in Seq(Clone), NEW new \in Seq(Clone)
  PROVE  /\ CopyClones(old, new) \in Seq(Clone)
         /\ DOMAIN CopyClones(old, new) = DOMAIN new
         /\ \A i \in DOMAIN new : CopyClones(old, new)[i].id = new[i].id
<1>1. /\ DOMAIN new = 1 .. Len(new) /\ Len(new) \in Nat
      /\ \A i \in DOMAIN new : new[i] \in Clone
      /\ \A i \in DOMAIN old : old[i] \in Clone
  OBVIOUS
<1>2. CASE Len(new) < Len(old)
  BY <1>2 DEF CopyClones
<1>3. CASE ~(Len(new) < Len(old))
  <2> DEFINE at(i) == IF SameClone(old, new, i) THEN CopyClone(old[i], new[i]) ELSE new[i]
  <2>1. CopyClones(old, new) = [i \in DOMAIN new |-> at(i)]
    BY <1>3 DEF CopyClones
  <2>2. ASSUME NEW i \in DOMAIN new PROVE at(i) \in Clone /\ at(i).id = new[i].id
    <3>1. CASE SameClone(old, new, i)
      <4>1. old[i] \in Clone /\ new[i] \in Clone /\ old[i].id = new[i].id
        BY <1>1, <3>1 DEF SameClone
      <4>2. at(i) = [old[i] EXCEPT !.is_active = new[i].is_active]
        BY <3>1 DEF CopyClone
      <4> HIDE DEF at
      <4> QED BY <4>1, <4>2 DEF Clone
    <3>2. CASE ~SameClone(old, new, i)
      BY <1>1, <3>2
    <3> QED BY <3>1, <3>2
  <2> HIDE DEF at
  <2> QED BY <1>1, <2>1, <2>2
<1> QED BY <1>2, <1>3

\* A machine merged with what the list says of it: its clone is lost only
\* when set_one_clone chooses again.
LEMMA MergedType ==
  ASSUME NEW m \in RightMachine, NEW data \in Sent
  PROVE  Merged(m, data) \in RightMachine
<1> DEFINE old == m.list_clones
           new == data.list_clones
           copied == [m EXCEPT !.is_base = data.is_base, !.is_active = data.is_active,
                               !.list_clones = CopyClones(old, new), !.clone = Kept(m, new)]
<1>1. m \in Machine /\ RightClone(m) /\ old \in Seq(Clone) /\ new \in Seq(Clone)
  BY DEF RightMachine, Machine, Sent
<1>2. Kept(m, new) \in Nat
  BY <1>1 DEF Kept, Lost, Machine
<1>3. CopyClones(old, new) \in Seq(Clone) /\ DOMAIN CopyClones(old, new) = DOMAIN new
  BY <1>1, CopyClonesType
<1>4. copied \in Machine
  <2> HIDE DEF old, new
  <2> QED BY <1>1, <1>2, <1>3 DEF Machine, Sent
<1>5. copied.list_clones = CopyClones(old, new) /\ copied.clone = Kept(m, new)
  BY <1>1 DEF Machine
<1>6. Merged(m, data) = IF NeedsReload(old, new) THEN SetOneClone(copied) ELSE copied
  BY DEF Merged
<1>7. CASE NeedsReload(old, new)
  <2> HIDE DEF copied
  <2> QED BY <1>4, <1>6, <1>7, SetOneCloneType
<1>8. CASE ~NeedsReload(old, new)
  <2>1. Len(new) >= Len(old) /\ \A i \in DOMAIN new : i \in DOMAIN old /\ SameClone(old, new, i)
    BY <1>1, <1>8 DEF NeedsReload, SameClone
  <2>2. DOMAIN new = DOMAIN old
    BY <1>1, <2>1
  <2>3. CASE old = <<>>
    <3>1. m.clone = 0
      BY <1>1, <2>3 DEF RightClone
    <3>2. DOMAIN CopyClones(old, new) = {}
      BY <1>3, <2>2, <2>3
    <3>3. copied.list_clones = <<>> /\ copied.clone = 0
      BY <1>3, <1>5, <3>1, <3>2 DEF Kept
    <3> HIDE DEF copied
    <3> QED BY <1>4, <1>6, <1>8, <3>3 DEF RightMachine, RightClone
  <2>4. CASE old # <<>>
    <3>1. m.clone \in DOMAIN old
      BY <1>1, <2>4 DEF RightClone
    <3>2. Kept(m, new) = m.clone
      BY <2>1, <2>2, <3>1 DEF Kept
    <3>3. copied.clone \in DOMAIN copied.list_clones
      BY <1>3, <1>5, <2>2, <3>1, <3>2
    <3>4. copied.list_clones # <<>>
      BY <1>3, <1>5, <3>3
    <3> HIDE DEF copied
    <3> QED BY <1>4, <1>6, <1>8, <3>3, <3>4 DEF RightMachine, RightClone
  <2> QED BY <2>3, <2>4
<1> QED BY <1>7, <1>8

-----------------------------------------------------------------------------
(* Lists: what the server sends, and the page after one.                    *)

LEMMA ConstantTypes ==
  /\ Order \in Seq(MachineIds) /\ CloneOrder \in Seq(CloneIds)
  /\ \A c \in CloneIds : BaseOf[c] \in MachineIds
  /\ MachineIds \subseteq Ids /\ CloneIds \subseteq Ids
BY OrderAssumption DEF Ids

LEMMA ClonesOfType ==
  ASSUME NEW m
  PROVE  ClonesOf(m) \in Seq(Clone)
<1> DEFINE own == Where(CloneOrder, {c \in clones : BaseOf[c] = m})
<1>1. own \in Seq(CloneIds \cap {c \in clones : BaseOf[c] = m})
  BY ConstantTypes, WhereType
<1>2. own \in Seq(CloneIds)
  <2> HIDE DEF own
  <2> QED BY <1>1, SeqMonotonic
<1>3. ASSUME NEW c \in CloneIds PROVE RowOfClone[c] \in Clone
  BY DEF RowOfClone, Clone, Power
<1>4. CASE m \notin bases
  BY <1>4 DEF ClonesOf
<1>5. CASE m \in bases
  <2>1. ClonesOf(m) = [i \in DOMAIN own |-> RowOfClone[own[i]]]
    BY <1>5 DEF ClonesOf
  <2> HIDE DEF own
  <2>2. DOMAIN own = 1 .. Len(own) /\ Len(own) \in Nat /\ \A i \in DOMAIN own : own[i] \in CloneIds
    BY <1>2
  <2> QED BY <1>3, <2>1, <2>2
<1> QED BY <1>4, <1>5

\* The server sends machines it knows, each with clones it knows, and no more
\* than there are.
LEMMA ListMachinesUserType == ListMachinesUser \in SentList
<1> DEFINE shown == Where(Order, listed)
<1>1. shown \in Seq(MachineIds \cap listed) /\ Len(shown) <= Len(Order)
  BY ConstantTypes, WhereType
<1>2. ListMachinesUser = [i \in DOMAIN shown |-> RowOf[shown[i]]]
  BY DEF ListMachinesUser
<1> HIDE DEF shown
<1>3. DOMAIN shown = 1 .. Len(shown) /\ Len(shown) \in Nat
      /\ \A i \in DOMAIN shown : shown[i] \in MachineIds
  BY <1>1
<1>4. ASSUME NEW m \in MachineIds PROVE RowOf[m] \in Sent
  <2>1. ClonesOf(m) \in Seq(Clone)
    BY ClonesOfType
  <2> QED BY <2>1 DEF RowOf, Sent, Power, Activity
<1>5. ListMachinesUser \in Seq(Sent) /\ Len(ListMachinesUser) = Len(shown)
  BY <1>2, <1>3, <1>4
<1> QED BY <1>1, <1>5 DEF SentList

\* The machines of the page, in a form the steps use.
LEMMA RightMachines ==
  machines \in Seq(Machine) /\ ClonePresent <=> machines \in Seq(RightMachine)
<1>1. ASSUME machines \in Seq(Machine), ClonePresent PROVE machines \in Seq(RightMachine)
  <2>1. DOMAIN machines = 1 .. Len(machines) /\ Len(machines) \in Nat
        /\ \A i \in DOMAIN machines : machines[i] \in Machine
    BY <1>1
  <2>2. \A i \in DOMAIN machines : machines[i] \in RightMachine
    BY <1>1, <2>1 DEF ClonePresent, RightMachine, RightClone
  <2> QED BY <1>1, <2>1, <2>2, IsASeq
<1>2. ASSUME machines \in Seq(RightMachine) PROVE machines \in Seq(Machine) /\ ClonePresent
  <2>1. RightMachine \subseteq Machine
    BY DEF RightMachine
  <2>2. \A i \in DOMAIN machines : machines[i] \in RightMachine
    BY <1>2
  <2> QED BY <1>2, <2>1, <2>2, SeqMonotonic DEF ClonePresent, RightMachine, RightClone
<1> QED BY <1>1, <1>2

LEMMA ShownType ==
  ASSUME NEW list \in SentList, machines \in Seq(RightMachine)
  PROVE  Shown(list) \in Seq(RightMachine) /\ Len(Shown(list)) = Len(list)
<1>1. /\ DOMAIN list = 1 .. Len(list) /\ Len(list) \in Nat
      /\ \A i \in DOMAIN list : list[i] \in Sent
  BY DEF SentList
<1>2. ASSUME NEW i \in DOMAIN list, KeptAt(list, i) PROVE machines[i] \in RightMachine
  <2>1. i \in 1 .. Len(machines)
    BY <1>1, <1>2 DEF KeptAt
  <2> QED BY <2>1
<1> DEFINE at(i) == IF KeptAt(list, i) THEN Merged(machines[i], list[i]) ELSE Added(list[i])
<1>3. ASSUME NEW i \in DOMAIN list PROVE at(i) \in RightMachine
  BY <1>1, <1>2, MergedType, AddedType
<1>4. Shown(list) = [i \in DOMAIN list |-> at(i)]
  BY DEF Shown
<1> HIDE DEF at
<1> QED BY <1>1, <1>3, <1>4

\* What is started is the chosen clone, or the machine.
LEMMA TargetType ==
  ASSUME NEW m \in Machine
  PROVE  Target(m) \in Ids
<1>1. m.list_clones \in Seq(Clone) /\ m.id \in MachineIds
  BY DEF Machine
<1>2. CASE HasClone(m)
  <2>1. m.list_clones[m.clone] \in Clone
    BY <1>1, <1>2 DEF HasClone
  <2> QED BY <1>2, <2>1, ConstantTypes DEF Target, ItsClone, Clone
<1>3. CASE ~HasClone(m)
  BY <1>1, <1>3, ConstantTypes DEF Target
<1> QED BY <1>2, <1>3

\* The clone of a machine whose clone is right, when it has any.
LEMMA ItsCloneType ==
  ASSUME NEW m \in Machine, HasClone(m)
  PROVE  ItsClone(m) \in Clone
<1>1. m.list_clones \in Seq(Clone)
  BY DEF Machine
<1> QED BY <1>1 DEF HasClone, ItsClone

-----------------------------------------------------------------------------
(* The invariant, in parts that the steps keep.  The lists on their way are *)
(* lists of the server, of any time.                                        *)

Reference == [at: DOMAIN Order \cup {0, Lost}, state: {"none", "sent", "room", "full"},
              id: Ids \cup {Nobody}]
TablesInv ==
    /\ listed \subseteq MachineIds /\ bases \subseteq MachineIds
    /\ clones \subseteq CloneIds /\ up \subseteq Ids /\ changes \in 0 .. MaxChanges
MachinesInv == machines \in Seq(RightMachine) /\ Len(machines) <= Len(Order)
ReferencesInv == check \in Reference /\ confirming \in Reference
WayInv == under_way \in Seq(SentList)
LinkInv == ws_connected \in BOOLEAN /\ ws_fail \in BOOLEAN /\ left \in Ids \cup {Nobody}

Inv == TablesInv /\ MachinesInv /\ ReferencesInv /\ WayInv /\ LinkInv

LEMMA InvGives == Inv => TypeOK /\ ClonePresent
BY RightMachines
   DEF Inv, TypeOK, TablesInv, MachinesInv, ReferencesInv, WayInv, LinkInv, Reference

LEMMA StartsRight == Init => Inv
<1> SUFFICES ASSUME Init PROVE Inv
  OBVIOUS
<1>1. TablesInv
  <2>1. PICK t \in Tables : listed = t.listed /\ clones = t.clones /\ up = t.up
    BY DEF Init
  <2>2. t.listed \subseteq MachineIds /\ t.clones \subseteq CloneIds /\ t.up \subseteq Ids
    BY TablesAssumption DEF Ids
  <2>3. bases \subseteq MachineIds
    BY ConstantTypes DEF Init
  <2>4. changes \in 0 .. MaxChanges
    BY OrderAssumption DEF Init
  <2> QED BY <2>1, <2>2, <2>3, <2>4 DEF TablesInv
<1>2. MachinesInv /\ WayInv
  <2>1. Len(Order) \in Nat
    BY ConstantTypes
  <2> QED BY <2>1 DEF Init, MachinesInv, WayInv
<1>3. ReferencesInv /\ LinkInv
  BY DEF Init, ReferencesInv, LinkInv, Reference, NoCheck
<1> QED BY <1>1, <1>2, <1>3 DEF Inv

\* A machine of the page changed: the others stay as they were.
LEMMA OneMachine ==
  ASSUME MachinesInv, NEW i \in DOMAIN machines, NEW m \in RightMachine,
         machines' = [machines EXCEPT ![i] = m]
  PROVE  MachinesInv'
BY ExceptSeq DEF MachinesInv

LEMMA MachineAt ==
  ASSUME MachinesInv, NEW i \in DOMAIN machines
  PROVE  /\ machines[i] \in Machine /\ RightClone(machines[i])
         /\ i \in DOMAIN Order
<1>1. Len(Order) \in Nat /\ DOMAIN Order = 1 .. Len(Order)
  BY ConstantTypes
<1>2. machines[i] \in RightMachine /\ i \in 1 .. Len(machines) /\ Len(machines) \in Nat
  BY DEF MachinesInv
<1> QED BY <1>1, <1>2 DEF MachinesInv, RightMachine

\* A machine of which anything but its clones changed.
LEMMA StillRight ==
  ASSUME NEW m \in Machine, RightClone(m), NEW n \in Machine,
         n.list_clones = m.list_clones, n.clone = m.clone
  PROVE  n \in RightMachine
BY DEF RightMachine, RightClone

-----------------------------------------------------------------------------
(* The steps.                                                               *)

LEMMA ServerSteps ==
  ASSUME Inv, Server
  PROVE  Inv'
<1>1. TablesInv /\ MachinesInv /\ ReferencesInv /\ WayInv /\ LinkInv
  BY DEF Inv
<1>2. ASSUME Change PROVE /\ changes' \in 0 .. MaxChanges
                          /\ MachinesInv' /\ ReferencesInv' /\ WayInv' /\ LinkInv'
  <2>1. changes' \in 0 .. MaxChanges
    BY <1>1, <1>2, OrderAssumption DEF Change, TablesInv
  <2> QED BY <1>1, <1>2, <2>1 DEF Change, page, MachinesInv, ReferencesInv, WayInv, LinkInv
<1>3. ASSUME NEW m \in MachineIds, Publish(m) PROVE Inv'
  <2>1. TablesInv'
    BY <1>1, <1>2, <1>3 DEF Publish, TablesInv
  <2> QED BY <1>2, <1>3, <2>1 DEF Inv, Publish
<1>4. ASSUME NEW m \in MachineIds, PreparedBase(m) PROVE Inv'
  <2>1. TablesInv'
    BY <1>1, <1>2, <1>4 DEF PreparedBase, TablesInv
  <2> QED BY <1>2, <1>4, <2>1 DEF Inv, PreparedBase
<1>5. ASSUME NEW c \in CloneIds, ChangeClone(c) PROVE Inv'
  <2>1. TablesInv'
    BY <1>1, <1>2, <1>5 DEF ChangeClone, TablesInv
  <2> QED BY <1>2, <1>5, <2>1 DEF Inv, ChangeClone
<1>6. ASSUME NEW id \in Ids, SwitchPower(id) PROVE Inv'
  <2>1. TablesInv'
    BY <1>1, <1>2, <1>6 DEF SwitchPower, TablesInv
  <2> QED BY <1>2, <1>6, <2>1 DEF Inv, SwitchPower
<1>7. ASSUME Tick PROVE Inv'
  <2>1. WayInv'
    BY <1>1, <1>7, ListMachinesUserType, AppendProperties DEF Tick, WayInv
  <2> QED BY <1>1, <1>7, <2>1
          DEF Inv, Tick, server, page, TablesInv, MachinesInv, ReferencesInv, LinkInv
<1>8. ASSUME ServerAnswers PROVE Inv'
  <2>1. ReferencesInv'
    BY <1>1, <1>8 DEF ServerAnswers, ReferencesInv, Reference
  <2> QED BY <1>1, <1>8, <2>1
          DEF Inv, ServerAnswers, server, TablesInv, MachinesInv, WayInv, LinkInv
<1> QED BY <1>3, <1>4, <1>5, <1>6, <1>7, <1>8 DEF Server

\* The browser handles a list.
LEMMA OnListStep ==
  ASSUME Inv, OnList
  PROVE  Inv'
<1> DEFINE list == Head(under_way)
<1>1. TablesInv /\ MachinesInv /\ ReferencesInv /\ WayInv /\ LinkInv
  BY DEF Inv
<1>2. list \in SentList /\ Tail(under_way) \in Seq(SentList)
  BY <1>1, HeadTailProperties DEF OnList, WayInv
<1>3. MachinesInv'
  <2>1. machines' = Shown(list)
    BY DEF OnList
  <2> HIDE DEF list
  <2>2. Shown(list) \in Seq(RightMachine) /\ Len(Shown(list)) = Len(list)
    BY <1>1, <1>2, ShownType DEF MachinesInv
  <2> QED BY <1>2, <2>1, <2>2 DEF MachinesInv, SentList
<1>4. ASSUME NEW ref \in Reference PROVE Forget(ref, list) \in Reference
  <2> HIDE DEF list
  <2> QED BY <1>4 DEF Forget, Reference
<1>5. ReferencesInv'
  BY <1>1, <1>4 DEF OnList, ReferencesInv
<1> HIDE DEF list
<1> QED BY <1>1, <1>2, <1>3, <1>5 DEF Inv, OnList, server, TablesInv, WayInv, LinkInv, list

\* The page is left, or loaded again.
LEMMA EmptyStep ==
  ASSUME Inv, Empty, left' \in Ids \cup {Nobody}
  PROVE  Inv'
<1>1. TablesInv /\ MachinesInv /\ ReferencesInv /\ WayInv /\ LinkInv
  BY DEF Inv
<1>2. Len(Order) \in Nat
  BY ConstantTypes
<1>3. MachinesInv' /\ WayInv'
  BY <1>2 DEF Empty, MachinesInv, WayInv
<1>4. ReferencesInv' /\ LinkInv' /\ TablesInv'
  BY <1>1 DEF Empty, ReferencesInv, LinkInv, TablesInv, Reference, NoCheck, server
<1> QED BY <1>3, <1>4 DEF Inv

LEMMA StartIdType ==
  ASSUME Inv, NEW ref \in Reference
  PROVE  StartId(ref) \in Ids \cup {Nobody}
<1>1. MachinesInv
  BY DEF Inv
<1>2. CASE ref.at \in DOMAIN machines
  BY <1>1, <1>2, MachineAt, TargetType DEF StartId
<1>3. CASE ref.at \notin DOMAIN machines
  BY <1>3 DEF StartId, Reference
<1> QED BY <1>2, <1>3

\* The page moves to a machine.
LEMMA LeaveStep ==
  ASSUME Inv, NEW id \in Ids \cup {Nobody}, LeaveTo(id)
  PROVE  Inv'
BY EmptyStep DEF LeaveTo

\* The connection, and the answers of the server.
LEMMA AnswerSteps ==
  ASSUME Inv,
         OnOpen \/ OpenTimeout \/ OnRoom \/ OnFull \/ OnCheckError
         \/ ConfirmingStopDone \/ ConfirmingStopCancelled
  PROVE  Inv'
<1>1. TablesInv /\ MachinesInv /\ ReferencesInv /\ WayInv /\ LinkInv
  BY DEF Inv
<1>2. CASE OnOpen \/ OpenTimeout
  BY <1>1, <1>2
     DEF Inv, OnOpen, OpenTimeout, server, TablesInv, MachinesInv, ReferencesInv, WayInv, LinkInv
<1>3. CASE OnRoom
  <2>1. StartId(check) \in Ids \cup {Nobody}
    BY <1>1, StartIdType DEF ReferencesInv
  <2> QED BY <1>3, <2>1, LeaveStep DEF OnRoom
<1>4. CASE OnFull
  <2>1. NoCheck \in Reference
    BY DEF NoCheck, Reference
  <2> QED BY <1>1, <1>4, <2>1
          DEF Inv, OnFull, server, TablesInv, MachinesInv, ReferencesInv, WayInv, LinkInv
<1>5. CASE OnCheckError
  <2>1. left' \in Ids \cup {Nobody}
    BY <1>1, <1>5 DEF OnCheckError, LinkInv
  <2> QED BY <1>5, <2>1, EmptyStep DEF OnCheckError
<1>6. CASE ConfirmingStopDone
  <2>1. StartId(confirming) \in Ids \cup {Nobody}
    BY <1>1, StartIdType DEF ReferencesInv
  <2> QED BY <1>6, <2>1, LeaveStep DEF ConfirmingStopDone
<1>7. CASE ConfirmingStopCancelled
  <2>1. NoCheck \in Reference
    BY DEF NoCheck, Reference
  <2> QED BY <1>1, <1>7, <2>1
          DEF Inv, ConfirmingStopCancelled, server, TablesInv, MachinesInv, ReferencesInv, WayInv, LinkInv
<1> QED BY <1>2, <1>3, <1>4, <1>5, <1>6, <1>7

\* What the user does with a machine of the page, when it is still there with
\* a clone of its own and nothing else of the page changed.
LEMMA UserStep ==
  ASSUME Inv, NEW i \in DOMAIN machines, NEW m \in RightMachine,
         machines' = [machines EXCEPT ![i] = m],
         UNCHANGED <<server, under_way, confirming, ws_connected, ws_fail, left>>,
         check' \in Reference
  PROVE  Inv'
<1>1. MachinesInv'
  BY OneMachine DEF Inv
<1> QED BY <1>1 DEF Inv, server, TablesInv, ReferencesInv, WayInv, LinkInv

LEMMA UserSteps ==
  ASSUME Inv, NEW i \in Places,
         \/ \E j \in DOMAIN CloneOrder : SelectClone(i, j)
         \/ StartActive(i) \/ CheckMaxMachines(i) \/ Shutdown(i) \/ ShutdownAnswered(i)
         \/ AskRestore(i) \/ RestoreAnswered(i) \/ AskPrepare(i) \/ PrepareBase(i)
  PROVE  Inv'
<1> DEFINE m == machines[i]
<1>1. i \in DOMAIN machines
  BY DEF SelectClone, StartActive, CheckMaxMachines, Shutdown, ShutdownAnswered,
         AskRestore, RestoreAnswered, AskPrepare, PrepareBase, User
<1>2. /\ MachinesInv /\ m \in Machine /\ RightClone(m)
      /\ i \in DOMAIN Order /\ check \in Reference
  BY <1>1, MachineAt DEF Inv, ReferencesInv
<1>3. Target(m) \in Ids
  BY <1>2, TargetType
<1>4. CASE \E j \in DOMAIN CloneOrder : SelectClone(i, j)
  <2>1. PICK j \in DOMAIN CloneOrder : SelectClone(i, j)
    BY <1>4
  <2> DEFINE n == [m EXCEPT !.clone = j]
  <2>2. machines' = [machines EXCEPT ![i] = n] /\ j \in DOMAIN m.list_clones
    BY <2>1 DEF SelectClone
  <2>3. m.list_clones \in Seq(Clone)
    BY <1>2 DEF Machine
  <2>4. j \in Nat /\ m.list_clones # <<>>
    BY <2>2, <2>3
  <2> HIDE DEF m
  <2>5. n \in Machine /\ n.list_clones = m.list_clones /\ n.clone = j
    BY <1>2, <2>4 DEF Machine
  <2> HIDE DEF n
  <2>6. n \in RightMachine
    BY <2>2, <2>4, <2>5 DEF RightMachine, RightClone
  <2> QED BY <1>1, <1>2, <2>1, <2>2, <2>6, UserStep DEF SelectClone
<1>5. CASE StartActive(i)
  BY <1>3, <1>5, LeaveStep DEF StartActive
<1>6. CASE CheckMaxMachines(i)
  <2> DEFINE n == [m EXCEPT !.action = "none"]
  <2>1. machines' = [machines EXCEPT ![i] = n]
    BY <1>6 DEF CheckMaxMachines
  <2>2. check' = [at |-> i, state |-> "sent", id |-> Target(m)]
    BY <1>6 DEF CheckMaxMachines
  <2> HIDE DEF m
  <2>3. check' \in Reference
    BY <1>2, <1>3, <2>2 DEF Reference
  <2>4. n \in Machine /\ n.list_clones = m.list_clones /\ n.clone = m.clone
    BY <1>2 DEF Machine
  <2> HIDE DEF n
  <2>5. n \in RightMachine
    BY <1>2, <2>4, StillRight
  <2> QED BY <1>1, <1>6, <2>1, <2>3, <2>5, UserStep DEF CheckMaxMachines
<1>7. CASE Shutdown(i)
  <2> DEFINE n == [m EXCEPT !.action = "none", !.pending_shutdown = AsksShutdown(m)]
  <2>1. machines' = [machines EXCEPT ![i] = n]
    BY <1>7 DEF Shutdown
  <2> HIDE DEF m
  <2>2. AsksShutdown(m) \in BOOLEAN
    BY <1>2, ItsCloneType DEF AsksShutdown, Clone
  <2>3. n \in Machine /\ n.list_clones = m.list_clones /\ n.clone = m.clone
    BY <1>2, <2>2 DEF Machine
  <2> HIDE DEF n
  <2>4. n \in RightMachine
    BY <1>2, <2>3, StillRight
  <2> QED BY <1>1, <1>2, <1>7, <2>1, <2>4, UserStep DEF Shutdown
<1>8. CASE ShutdownAnswered(i)
  <2> DEFINE n == [m EXCEPT !.pending_shutdown = FALSE]
  <2>1. machines' = [machines EXCEPT ![i] = n]
    BY <1>8 DEF ShutdownAnswered
  <2> HIDE DEF m
  <2>2. n \in Machine /\ n.list_clones = m.list_clones /\ n.clone = m.clone
    BY <1>2 DEF Machine
  <2> HIDE DEF n
  <2>3. n \in RightMachine
    BY <1>2, <2>2, StillRight
  <2> QED BY <1>1, <1>2, <1>8, <2>1, <2>3, UserStep DEF ShutdownAnswered
<1>9. CASE AskRestore(i)
  <2> DEFINE act == IF ItsClone(m).is_active = "up" THEN m.action ELSE "restore"
             n == [m EXCEPT !.host_restore = ItsClone(m).id, !.action = act]
  <2>1. machines' = [machines EXCEPT ![i] = n] /\ HasClone(m)
    BY <1>9 DEF AskRestore
  <2> HIDE DEF m
  <2>2. ItsClone(m).id \in CloneIds
    BY <1>2, <2>1, ItsCloneType DEF Clone
  <2>3. act \in {"none", "prepare", "restore"}
    BY <1>2 DEF Machine
  <2> HIDE DEF act
  <2>4. n \in Machine /\ n.list_clones = m.list_clones /\ n.clone = m.clone
    BY <1>2, <2>2, <2>3 DEF Machine
  <2> HIDE DEF n
  <2>5. n \in RightMachine
    BY <1>2, <2>4, StillRight
  <2> QED BY <1>1, <1>2, <1>9, <2>1, <2>5, UserStep DEF AskRestore
<1>10. CASE RestoreAnswered(i)
  <2> DEFINE n == [m EXCEPT !.host_restore = Nobody, !.action = "none"]
  <2>1. machines' = [machines EXCEPT ![i] = n]
    BY <1>10 DEF RestoreAnswered
  <2> HIDE DEF m
  <2>2. n \in Machine /\ n.list_clones = m.list_clones /\ n.clone = m.clone
    BY <1>2 DEF Machine
  <2> HIDE DEF n
  <2>3. n \in RightMachine
    BY <1>2, <2>2, StillRight
  <2> QED BY <1>1, <1>2, <1>10, <2>1, <2>3, UserStep DEF RestoreAnswered
<1>11. CASE AskPrepare(i)
  <2> DEFINE n == [m EXCEPT !.action = "prepare"]
  <2>1. machines' = [machines EXCEPT ![i] = n]
    BY <1>11 DEF AskPrepare
  <2> HIDE DEF m
  <2>2. n \in Machine /\ n.list_clones = m.list_clones /\ n.clone = m.clone
    BY <1>2 DEF Machine
  <2> HIDE DEF n
  <2>3. n \in RightMachine
    BY <1>2, <2>2, StillRight
  <2> QED BY <1>1, <1>2, <1>11, <2>1, <2>3, UserStep DEF AskPrepare
<1>12. CASE PrepareBase(i)
  <2>1. PICK yes \in BOOLEAN :
          machines' = [machines EXCEPT ![i].action = "none", ![i].is_base = @ \/ yes]
    BY <1>12 DEF PrepareBase
  <2> DEFINE base == m.is_base \/ yes
             n == [m EXCEPT !.action = "none", !.is_base = base]
  <2>2. machines' = [machines EXCEPT ![i] = n]
    BY <2>1
  <2> HIDE DEF m
  <2>3. base \in BOOLEAN
    OBVIOUS
  <2> HIDE DEF base
  <2>4. n \in Machine /\ n.list_clones = m.list_clones /\ n.clone = m.clone
    BY <1>2, <2>3 DEF Machine
  <2> HIDE DEF n
  <2>5. n \in RightMachine
    BY <1>2, <2>4, StillRight
  <2> QED BY <1>1, <1>2, <1>12, <2>2, <2>5, UserStep DEF PrepareBase
<1> HIDE DEF m
<1> QED BY <1>4, <1>5, <1>6, <1>7, <1>8, <1>9, <1>10, <1>11, <1>12

LEMMA NextStep == Inv /\ [Next]_vars => Inv'
<1> SUFFICES ASSUME Inv, [Next]_vars PROVE Inv'
  OBVIOUS
<1>1. CASE Server
  BY <1>1, ServerSteps
<1>2. CASE Page
  BY <1>2, OnListStep, AnswerSteps, UserSteps DEF Page
<1>3. CASE UNCHANGED vars
  BY <1>3 DEF vars, server, page, Inv, TablesInv, MachinesInv, ReferencesInv, WayInv, LinkInv
<1> QED BY <1>1, <1>2, <1>3 DEF Next

LEMMA Invariance == Spec => []Inv
BY StartsRight, NextStep, PTL DEF Spec

-----------------------------------------------------------------------------
(* Every variable stays in its type, of the tables of the server, of what   *)
(* the page shows and of the questions it has open.                         *)
THEOREM MachinesTyped == Spec => []TypeOK
BY Invariance, InvGives, PTL

(* The clone of each machine, which start, shutdown and restore act on, is  *)
(* one of its list, after any sequence of lists: merging a list that grows,  *)
(* shrinks or has others in its places never leaves it pointing at an object *)
(* that was replaced (copy_machine_data, set_one_clone).                    *)
THEOREM ClonesPresent == Spec => []ClonePresent
BY Invariance, InvGives, PTL

\* What the page starts is the same clone after a list with the same clones.
LEMMA SameTarget ==
  ASSUME NEW m \in RightMachine, NEW data \in Sent, m.id = data.id,
         CloneIdsAt(data) = CloneIdsAt(m)
  PROVE  Target(Merged(m, data)) = Target(m)
<1> DEFINE old == m.list_clones
           new == data.list_clones
<1>1. m \in Machine /\ RightClone(m) /\ old \in Seq(Clone) /\ new \in Seq(Clone)
  BY DEF RightMachine, Machine, Sent
<1>2. DOMAIN new = DOMAIN old /\ \A i \in DOMAIN new : new[i].id = old[i].id
  <2>1. DOMAIN CloneIdsAt(data) = DOMAIN new /\ DOMAIN CloneIdsAt(m) = DOMAIN old
    BY DEF CloneIdsAt
  <2>2. \A i \in DOMAIN new : CloneIdsAt(data)[i] = new[i].id
    BY DEF CloneIdsAt
  <2>3. \A i \in DOMAIN old : CloneIdsAt(m)[i] = old[i].id
    BY DEF CloneIdsAt
  <2> QED BY <2>1, <2>2, <2>3
<1>3. Len(new) = Len(old)
  BY <1>1, <1>2
<1>4. ~NeedsReload(old, new)
  <2>1. ~(Len(new) < Len(old))
    BY <1>1, <1>3
  <2> QED BY <1>2, <2>1 DEF NeedsReload, SameClone
<1> DEFINE after == Merged(m, data)
<1>5. after = [m EXCEPT !.is_base = data.is_base, !.is_active = data.is_active,
                        !.list_clones = CopyClones(old, new), !.clone = Kept(m, new)]
  BY <1>4 DEF Merged
<1>6. /\ after.id = m.id /\ after.clone = Kept(m, new)
      /\ after.list_clones = CopyClones(old, new)
  BY <1>1, <1>5 DEF Machine
<1>7. Kept(m, new) = m.clone
  <2>1. old = <<>> \/ m.clone \in DOMAIN old
    BY <1>1 DEF RightClone
  <2>2. old = <<>> => m.clone = 0
    BY <1>1 DEF RightClone
  <2>3. Len(new) >= Len(old)
    BY <1>1, <1>3
  <2> QED BY <1>2, <2>1, <2>2, <2>3 DEF Kept, SameClone
<1>8. /\ DOMAIN CopyClones(old, new) = DOMAIN new
      /\ \A i \in DOMAIN new : CopyClones(old, new)[i].id = new[i].id
  BY <1>1, CopyClonesType
<1> HIDE DEF after, old, new
<1>9. DOMAIN after.list_clones = DOMAIN old /\ \A i \in DOMAIN old : after.list_clones[i].id = old[i].id
  BY <1>2, <1>6, <1>8
<1> QED BY <1>6, <1>7, <1>9 DEF Target, HasClone, ItsClone, after, old

(* The clone the user chose stays chosen while the list brings the same     *)
(* machines and the same clones, however their activity changes: what she   *)
(* starts afterwards is what she would have started before.                 *)
THEOREM ChoiceStays == Spec => ChoiceKept
<1> DEFINE list == Head(under_way)
           Kept1 == \A i \in DOMAIN list :
             KeptAt(list, i) /\ CloneIdsAt(list[i]) = CloneIdsAt(machines[i])
               => Target(machines'[i]) = Target(machines[i])
<1>1. ASSUME Inv, OnList PROVE Kept1
  <2>1. MachinesInv /\ WayInv /\ machines' = Shown(list)
    BY <1>1 DEF Inv, OnList
  <2>2. list \in SentList
    BY <1>1, <2>1, HeadTailProperties DEF OnList, WayInv
  <2> HIDE DEF list
  <2> SUFFICES ASSUME NEW i \in DOMAIN list, KeptAt(list, i),
                      CloneIdsAt(list[i]) = CloneIdsAt(machines[i])
               PROVE  Target(machines'[i]) = Target(machines[i])
    OBVIOUS
  <2>3. list[i] \in Sent /\ i \in 1 .. Len(list) /\ Len(list) \in Nat
    BY <2>2 DEF SentList
  <2>4. machines[i] \in RightMachine
    BY <2>1, <2>3 DEF KeptAt, MachinesInv
  <2>5. machines'[i] = Merged(machines[i], list[i])
    BY <2>1 DEF Shown
  <2>6. machines[i].id = list[i].id
    BY DEF KeptAt
  <2> QED BY <2>3, <2>4, <2>5, <2>6, SameTarget
<1>2. Inv /\ [Next]_vars => [OnList => Kept1]_vars
  BY <1>1
<1>3. Spec => [][OnList => Kept1]_vars
  <2> HIDE DEF Kept1
  <2> QED BY <1>2, Invariance, PTL DEF Spec
<1> QED BY <1>3 DEF ChoiceKept
=============================================================================
