------------------------ MODULE MachineList_proofs ------------------------
(***************************************************************************)
(* Theorems about MachineList, for every set of machines, filters and      *)
(* names, any number of sockets, and stories of any length.                *)
(*                                                                         *)
(*   ListTyped       every variable stays in its type                      *)
(*   EachShownOnce   ShownOnce                                             *)
(***************************************************************************)
EXTENDS MachineList, Sorting_proofs, SequenceTheorems, TLAPS

(* Rows with each machine once, a message of the server, and of the page.   *)
Once(data) == \A i, j \in DOMAIN data : data[i].id = data[j].id => i = j
RowsOnce == {data \in Seq(Row) : Len(data) <= Cardinality(Machines) /\ Once(data)}
ListMessage == [action: {"new", "refresh"}, n_active: 0..Cardinality(Machines), data: RowsOnce]
Command ==
    [do: {"list"}, id: {NoFilter}, value: {TRUE}]
    \cup [do: {"show_clones"}, id: Bases, value: BOOLEAN]
    \cup [do: {"show_active"}, id: {NoFilter}, value: BOOLEAN]
    \cup [do: {"show_name"}, id: Filters, value: {TRUE}]
Channel == [state: {"closed", "opening", "open"}, sent: Seq(Command), queue: Seq(ListMessage)]

(* The invariant.  Names tell machines apart, so that the server can sort    *)
(* them; every list on its way has each machine once; the rows up to length  *)
(* are of different machines; and what may still happen bounds what has.     *)
TableInv ==
    /\ left \in Story
    /\ alive \subseteq Machines /\ active \subseteq alive
    /\ name \in [Machines -> 1..MaxNames]
    /\ \A m, o \in Machines : name[m] = name[o] => m = o
    /\ date_changed \in [Machines -> 0..MaxEvents]
    /\ now \in Nat /\ now + left.changes <= MaxEvents
ClientInv == client \in [Sockets -> Client]
ChannelInv == channel \in [Sockets -> Channel]
RowsInv ==
    /\ list_machines \in Seq(Row) /\ Len(list_machines) <= Cardinality(Machines)
    /\ length \in Nat /\ length <= Len(list_machines)
    /\ ShownOnce
ScopeInv ==
    /\ show_active \in BOOLEAN /\ filter \in Filters
    /\ show_clones \in [Bases -> {"unset", "true", "false"}] /\ show_machine \subseteq Machines
    /\ n_active \in 0..Cardinality(Machines) /\ modalOpened \in BOOLEAN
LinkInv ==
    /\ ws_list_machines \in Sockets /\ ws_connection_lost \in BOOLEAN
    /\ timers \in Nat /\ timers + MaxSockets * left.losses <= MaxSockets * MaxEvents
Inv == TableInv /\ ClientInv /\ ChannelInv /\ RowsInv /\ ScopeInv /\ LinkInv

-----------------------------------------------------------------------------
(* Constants.                                                               *)

LEMMA MachinesFinite ==
  /\ IsFiniteSet(Machines) /\ Cardinality(Machines) \in Nat
  /\ \A set \in SUBSET Machines : IsFiniteSet(set) /\ Cardinality(set) \in 0..Cardinality(Machines)
<1>1. IsFiniteSet(Machines) /\ Cardinality(Machines) \in Nat
  BY MachinesAssumption, FS_CardinalityType
<1>2. ASSUME NEW set \in SUBSET Machines
      PROVE  IsFiniteSet(set) /\ Cardinality(set) \in 0..Cardinality(Machines)
  <2>1. IsFiniteSet(set) /\ Cardinality(set) <= Cardinality(Machines)
    BY <1>1, FS_Subset
  <2>2. Cardinality(set) \in Nat
    BY <2>1, FS_CardinalityType
  <2> QED BY <1>1, <2>1, <2>2
<1> QED BY <1>1, <1>2

LEMMA BasesType ==
  /\ Clones \subseteq Machines /\ Bases \subseteq Machines
  /\ \A m \in Clones : BaseOf[m] \in Bases
  /\ \A m \in Machines : RootOf(m) \in Machines
BY MachinesAssumption DEF Clones, Bases, RootOf

LEMMA BoundTypes ==
  MaxNames \in Nat /\ MaxEvents \in Nat /\ MaxSockets \in Nat \ {0}
BY BoundsAssumption

-----------------------------------------------------------------------------
(* The server: a list has each machine once.                                *)

\* Names tell machines apart: bases by name, each before its clones by name.
LEMMA BeforeOrder ==
  ASSUME TableInv, NEW set \in SUBSET Machines
  PROVE  IsOrderOf(set, {pair \in set \X set : Before(pair[1], pair[2])})
<1> DEFINE order == {pair \in set \X set : Before(pair[1], pair[2])}
<1>1. \A m, o \in set : <<m, o>> \in order <=> Before(m, o)
  OBVIOUS
<1>2. \A m \in Machines : name[m] \in Int /\ RootOf(m) \in Machines
  BY BasesType DEF TableInv
<1>3. ASSUME NEW m \in set PROVE ~Before(m, m)
  BY DEF Before
<1>4. ASSUME NEW m \in set, NEW o \in set PROVE m = o \/ Before(m, o) \/ Before(o, m)
  <2>1. CASE RootOf(m) # RootOf(o)
    <3>1. name[RootOf(m)] # name[RootOf(o)]
      BY <1>2, <2>1 DEF TableInv
    <3>2. name[RootOf(m)] < name[RootOf(o)] \/ name[RootOf(o)] < name[RootOf(m)]
      BY <1>2, <3>1
    <3> QED BY <2>1, <3>2 DEF Before
  <2>2. CASE RootOf(m) = RootOf(o) /\ m # o
    <3>1. name[m] # name[o]
      BY <2>2 DEF TableInv
    <3>2. name[m] < name[o] \/ name[o] < name[m]
      BY <1>2, <3>1
    <3> QED BY <2>2, <3>2 DEF Before
  <2> QED BY <2>1, <2>2
<1>5. ASSUME NEW m \in set, NEW o \in set, NEW p \in set, Before(m, o), Before(o, p)
      PROVE  Before(m, p)
  <2> DEFINE M == name[RootOf(m)]
             O == name[RootOf(o)]
             P == name[RootOf(p)]
  <2>1. M \in Int /\ O \in Int /\ P \in Int /\ name[m] \in Int /\ name[o] \in Int /\ name[p] \in Int
    BY <1>2
  <2>2. CASE RootOf(m) = RootOf(o) /\ RootOf(o) = RootOf(p)
    <3>1. o # m /\ (m = RootOf(m) \/ (o # RootOf(o) /\ name[m] < name[o]))
      BY <1>5, <2>2 DEF Before
    <3>2. p # o /\ (o = RootOf(o) \/ (p # RootOf(p) /\ name[o] < name[p]))
      BY <1>5, <2>2 DEF Before
    <3>3. o # RootOf(o)
      BY <2>2, <3>1
    <3>4. p # RootOf(p) /\ name[o] < name[p]
      BY <3>2, <3>3
    <3>5. CASE m = RootOf(m)
      BY <2>2, <3>4, <3>5 DEF Before
    <3>6. CASE name[m] < name[o]
      <4>1. name[m] < name[p]
        BY <2>1, <3>4, <3>6
      <4>2. p # m
        BY <2>1, <4>1
      <4> QED BY <2>2, <3>4, <4>1, <4>2 DEF Before
    <3> QED BY <3>1, <3>5, <3>6
  <2>3. CASE RootOf(m) # RootOf(o) \/ RootOf(o) # RootOf(p)
    <3>1. RootOf(m) = RootOf(o) \/ M < O
      BY <1>5 DEF Before
    <3>2. RootOf(o) = RootOf(p) \/ O < P
      BY <1>5 DEF Before
    <3>3. (RootOf(m) = RootOf(o) => M = O) /\ (RootOf(o) = RootOf(p) => O = P)
      OBVIOUS
    <3>4. M < P
      <4> HIDE DEF M, O, P
      <4> QED BY <2>1, <2>3, <3>1, <3>2, <3>3
    <3>5. RootOf(m) # RootOf(p)
      BY <2>1, <3>4
    <3> QED BY <3>4, <3>5 DEF Before
  <2> QED BY <2>2, <2>3
<1> HIDE DEF order
<1>6. IsOrderOf(set, order)
  BY <1>1, <1>3, <1>4, <1>5 DEF IsOrderOf
<1> QED BY <1>6 DEF order

LEMMA DataType ==
  ASSUME TableInv, NEW set \in SUBSET Machines
  PROVE  Data(set) \in RowsOnce
<1> DEFINE order == {pair \in set \X set : Before(pair[1], pair[2])}
           sorted == Sorted(set, order)
           n == Cardinality(set)
<1>1. IsOrderOf(set, order)
  BY BeforeOrder
<1>2. IsFiniteSet(set) /\ n \in 0..Cardinality(Machines) /\ Cardinality(Machines) \in Nat
  BY MachinesFinite
<1>3. /\ sorted \in [1 .. n -> set]
      /\ \A i, j \in 1 .. n : sorted[i] = sorted[j] => i = j
  <2> HIDE DEF order
  <2> QED BY <1>1, <1>2, SortedType
<1>4. Data(set) = [i \in DOMAIN sorted |-> RowOf(sorted[i])]
  BY DEF Data
<1> HIDE DEF order, sorted, n
<1>5. ASSUME NEW m \in set PROVE RowOf(m) \in Row /\ RowOf(m).id = m
  BY DEF TableInv, RowOf, Row
<1>6. Data(set) = [i \in 1 .. n |-> RowOf(sorted[i])]
  BY <1>3, <1>4
<1>7. Data(set) \in [1 .. n -> Row] /\ \A i \in 1 .. n : Data(set)[i].id = sorted[i]
  BY <1>3, <1>5, <1>6
<1>8. Data(set) \in Seq(Row) /\ Len(Data(set)) = n /\ DOMAIN Data(set) = 1 .. n
  BY <1>2, <1>7
<1>9. Once(Data(set))
  BY <1>3, <1>7, <1>8 DEF Once
<1> QED BY <1>2, <1>8, <1>9 DEF RowsOnce

LEMMA ListType ==
  ASSUME TableInv, NEW set \in SUBSET Machines, NEW kind \in {"new", "refresh"}
  PROVE  List(kind, set) \in ListMessage
<1>1. Cardinality(active) \in 0..Cardinality(Machines)
  BY MachinesFinite DEF TableInv
<1> QED BY <1>1, DataType DEF List, ListMessage

LEMMA AskedType ==
  ASSUME TableInv, NEW c
  PROVE  Asked(c) \in SUBSET Machines
BY DEF Asked, TableInv

\* A client after a whole list, and after a command.
LEMMA AfterWholeType ==
  ASSUME TableInv, NEW c \in Client, NEW time \in 0..3
  PROVE  AfterWhole(c, time) \in Client
<1> DEFINE parents == Parents(c, Asked(c))
           t == IF parents = {} THEN time ELSE 1
<1>1. parents \subseteq Bases
  BY BasesType DEF Parents
<1>2. t \in 0..3
  OBVIOUS
<1>3. AfterWhole(c, time) =
        [c EXCEPT !.show_clones = c.show_clones \cup parents, !.changed = {}, !.time = t]
  BY DEF AfterWhole
<1> HIDE DEF parents, t
<1> QED BY <1>1, <1>2, <1>3 DEF Client

LEMMA ManagedType ==
  ASSUME NEW c \in Client, NEW cmd \in Command
  PROVE  Managed(c, cmd) \in Client
<1>1. CASE ~c.known
  BY <1>1 DEF Managed, Client
<1>2. CASE c.known /\ cmd.do = "show_clones"
  <2>1. cmd.id \in Bases /\ cmd.value \in BOOLEAN
    BY <1>2 DEF Command
  <2> DEFINE sc == IF cmd.value THEN c.show_clones \cup {cmd.id} ELSE c.show_clones \ {cmd.id}
  <2>2. sc \subseteq Bases
    BY <2>1 DEF Client
  <2>3. Managed(c, cmd) = [c EXCEPT !.show_clones = sc]
    BY <1>2 DEF Managed, Applied
  <2> HIDE DEF sc
  <2> QED BY <2>2, <2>3 DEF Client
<1>3. CASE c.known /\ cmd.do = "show_active"
  <2>1. cmd.value \in BOOLEAN
    BY <1>3 DEF Command
  <2> DEFINE sc == IF cmd.value THEN {} ELSE c.show_clones
  <2>2. sc \subseteq Bases
    BY DEF Client
  <2>3. Managed(c, cmd) = [c EXCEPT !.show_active = cmd.value, !.show_clones = sc]
    BY <1>3 DEF Managed, Applied
  <2> HIDE DEF sc
  <2> QED BY <2>1, <2>2, <2>3 DEF Client
<1>4. CASE c.known /\ cmd.do = "show_name"
  <2>1. cmd.id \in Filters
    BY <1>4 DEF Command
  <2>2. Managed(c, cmd) = [c EXCEPT !.show_name = cmd.id]
    BY <1>4 DEF Managed, Applied
  <2> QED BY <2>1, <2>2 DEF Client
<1>5. CASE c.known /\ cmd.do \notin {"show_clones", "show_active", "show_name"}
  BY <1>5 DEF Managed, Applied
<1> QED BY <1>1, <1>2, <1>3, <1>4, <1>5

-----------------------------------------------------------------------------
(* The page: commands.                                                      *)

\* SetToSeq gives the elements of a finite set in some order.
LEMMA SetToSeqType ==
  ASSUME NEW S, IsFiniteSet(S)
  PROVE  SetToSeq(S) \in Seq(S)
<1>1. Cardinality(S) \in Nat /\ ExistsBijection(1..Cardinality(S), S)
  BY FS_CardinalityType
<1>2. \E f \in [1..Cardinality(S) -> S] : IsInjective(f)
  BY <1>1 DEF ExistsBijection, Bijection, Injection
<1>3. SetToSeq(S) \in [1..Cardinality(S) -> S]
  BY <1>2 DEF SetToSeq
<1> QED BY <1>1, <1>3

LEMMA CommandTypes ==
  /\ ListCmd \in Command
  /\ \A b \in Bases, value \in BOOLEAN : ShowClonesCmd(b, value) \in Command
  /\ \A value \in BOOLEAN : ShowActiveCmd(value) \in Command
  /\ \A f \in Filters : ShowNameCmd(f) \in Command
BY DEF Command, ListCmd, ShowClonesCmd, ShowActiveCmd, ShowNameCmd

LEMMA HideCmdsType ==
  HideCmds \in Seq(Command) /\ ToSet(BasesIn) \subseteq Bases
<1> DEFINE those == {b \in Bases : \E i \in Rows : list_machines[i].id = b}
<1>1. those \in SUBSET Machines
  BY BasesType
<1>2. IsFiniteSet(those)
  <2> HIDE DEF those
  <2> QED BY <1>1, MachinesFinite
<1>3. BasesIn \in Seq(those)
  BY <1>2, SetToSeqType DEF BasesIn
<1>4. those \subseteq Bases
  OBVIOUS
<1> HIDE DEF those
<1>5. BasesIn \in Seq(Bases)
  BY <1>3, <1>4, SeqMonotonic
<1>6. \A i \in DOMAIN BasesIn : BasesIn[i] \in Bases
  BY <1>5
<1>7. DOMAIN BasesIn = 1..Len(BasesIn) /\ Len(BasesIn) \in Nat
  BY <1>5
<1>8. ToSet(BasesIn) \subseteq Bases
  BY <1>6 DEF ToSet
<1> DEFINE at(i) == ShowClonesCmd(BasesIn[i], FALSE)
<1>9. \A i \in DOMAIN BasesIn : at(i) \in Command
  BY <1>6, CommandTypes
<1>10. HideCmds = [i \in DOMAIN BasesIn |-> at(i)]
  BY DEF HideCmds
<1> HIDE DEF at
<1>11. HideCmds \in Seq(Command)
  BY <1>7, <1>9, <1>10
<1> QED BY <1>8, <1>11

LEMMA RefreshShowClonesType == RefreshShowClones \in Seq(Command)
<1> DEFINE those == {b \in Bases : show_clones[b] # "unset"}
           n == Len(SetBases)
           at(i) == LET b == SetBases[(i + 1) \div 2]
                    IN ShowClonesCmd(b, i % 2 = 0 /\ show_clones[b] = "true")
           cmds == [i \in 1..(2 * n) |-> at(i)]
<1>1. those \in SUBSET Machines
  BY BasesType
<1>2. IsFiniteSet(those)
  <2> HIDE DEF those
  <2> QED BY <1>1, MachinesFinite
<1>3. SetBases \in Seq(those)
  BY <1>2, SetToSeqType DEF SetBases
<1>4. those \subseteq Bases
  OBVIOUS
<1>5. SetBases \in Seq(Bases)
  <2> HIDE DEF those
  <2> QED BY <1>3, <1>4, SeqMonotonic
<1>6. n \in Nat /\ \A k \in 1..n : SetBases[k] \in Bases
  BY <1>5
<1>7. RefreshShowClones = <<ListCmd>> \o cmds
  BY DEF RefreshShowClones
<1>8. ASSUME NEW i \in 1..(2 * n) PROVE at(i) \in Command
  <2>1. (i + 1) \div 2 \in 1..n
    <3> HIDE DEF n
    <3> QED BY <1>6
  <2>2. SetBases[(i + 1) \div 2] \in Bases
    BY <1>6, <2>1
  <2>3. (i % 2 = 0 /\ show_clones[SetBases[(i + 1) \div 2]] = "true") \in BOOLEAN
    OBVIOUS
  <2> QED BY <2>2, <2>3, CommandTypes
<1> HIDE DEF at
<1>9. 2 * n \in Nat
  <2> HIDE DEF n
  <2> QED BY <1>6
<1> HIDE DEF n
<1>10. cmds \in Seq(Command)
  BY <1>8, <1>9
<1>11. <<ListCmd>> \in Seq(Command)
  BY CommandTypes
<1> HIDE DEF cmds
<1> QED BY <1>7, <1>10, <1>11, ConcatProperties

-----------------------------------------------------------------------------
(* The page: rows.                                                          *)

\* Rows of the same machines in the same places.
SameIds(rows, others) ==
    DOMAIN rows = DOMAIN others /\ \A i \in DOMAIN others : rows[i].id = others[i].id

\* Rows that keep their places can be shown as the rows before them.
LEMMA RowsKept ==
  ASSUME RowsInv, NEW rows \in Seq(Row), SameIds(rows, list_machines),
         list_machines' = rows, length' = length
  PROVE  RowsInv'
<1>1. Len(rows) = Len(list_machines)
  BY DEF SameIds, RowsInv
<1>2. \A i \in 1..length : i \in DOMAIN list_machines
  BY DEF RowsInv
<1>3. ShownOnce'
  BY <1>2 DEF SameIds, RowsInv, ShownOnce
<1> QED BY <1>1, <1>3 DEF RowsInv

LEMMA ShowOnlyType ==
  ASSUME NEW rows \in Seq(Row), NEW ids
  PROVE  ShowOnly(rows, ids) \in Seq(Row) /\ SameIds(ShowOnly(rows, ids), rows)
<1>1. DOMAIN rows = 1..Len(rows) /\ Len(rows) \in Nat /\ \A i \in DOMAIN rows : rows[i] \in Row
  OBVIOUS
<1> DEFINE at(i) == [rows[i] EXCEPT !.show = rows[i].id \in ids]
<1>2. ASSUME NEW i \in DOMAIN rows PROVE at(i) \in Row /\ at(i).id = rows[i].id
  <2> DEFINE shown == rows[i].id \in ids
  <2>1. shown \in BOOLEAN
    OBVIOUS
  <2>2. at(i) = [rows[i] EXCEPT !.show = shown]
    OBVIOUS
  <2> HIDE DEF shown, at
  <2> QED BY <1>1, <2>1, <2>2 DEF Row
<1>3. ShowOnly(rows, ids) = [i \in DOMAIN rows |-> at(i)]
  BY DEF ShowOnly
<1> HIDE DEF at
<1> QED BY <1>1, <1>2, <1>3 DEF SameIds

LEMMA WithClonesType ==
  ASSUME NEW rows \in Seq(Row), NEW b, NEW value \in BOOLEAN
  PROVE  WithClones(rows, b, value) \in Seq(Row) /\ SameIds(WithClones(rows, b, value), rows)
<1>1. DOMAIN rows = 1..Len(rows) /\ Len(rows) \in Nat /\ \A i \in DOMAIN rows : rows[i] \in Row
  OBVIOUS
<1>2. ASSUME NEW i \in DOMAIN rows
      PROVE  /\ [rows[i] EXCEPT !.show = value] \in Row
             /\ [rows[i] EXCEPT !.show = value].id = rows[i].id
  BY <1>1 DEF Row
<1> QED BY <1>1, <1>2 DEF WithClones, SameIds

LEMMA WithShowType ==
  ASSUME NEW row \in Row
  PROVE  WithShow(row) \in Row /\ WithShow(row).id = row.id
<1>1. ShownBy(row) \in BOOLEAN
  BY DEF ShownBy
<1> QED BY <1>1 DEF WithShow, Row

\* A list of changes leaves each machine in its place.
LEMMA RefreshedRowsType ==
  ASSUME RowsInv, NEW data \in RowsOnce
  PROVE  RefreshedRows(data) \in Seq(Row) /\ SameIds(RefreshedRows(data), list_machines)
<1>1. /\ Rows = 1..Len(list_machines) /\ Len(list_machines) \in Nat
      /\ \A i \in Rows : list_machines[i] \in Row
  BY DEF RowsInv, Rows
<1>2. \A i \in DOMAIN data : data[i] \in Row
  BY DEF RowsOnce
<1> DEFINE at(i) == IF list_machines[i].id \in IdsOf(data)
                    THEN WithShow(ChangeOf(data, list_machines[i].id)) ELSE list_machines[i]
<1>3. ASSUME NEW i \in Rows PROVE at(i) \in Row /\ at(i).id = list_machines[i].id
  <2>1. CASE list_machines[i].id \in IdsOf(data)
    <3> DEFINE id == list_machines[i].id
    <3>1. \E row \in {data[k] : k \in DOMAIN data} : row.id = id
      BY <2>1 DEF IdsOf
    <3>2. ChangeOf(data, id) \in Row /\ ChangeOf(data, id).id = id
      BY <1>2, <3>1 DEF ChangeOf
    <3> QED BY <2>1, <3>2, WithShowType
  <2>2. CASE list_machines[i].id \notin IdsOf(data)
    BY <1>1, <2>2
  <2> QED BY <2>1, <2>2
<1>4. RefreshedRows(data) = [i \in Rows |-> at(i)]
  BY DEF RefreshedRows
<1> HIDE DEF at
<1> QED BY <1>1, <1>3, <1>4 DEF SameIds, Rows

\* A whole list puts each machine in the place the list gives it, and leaves
\* what was after its end.
LEMMA NewRowsType ==
  ASSUME RowsInv, NEW data \in RowsOnce
  PROVE  /\ NewRows(data) \in Seq(Row)
         /\ Len(NewRows(data)) >= Len(data) /\ Len(NewRows(data)) <= Cardinality(Machines)
         /\ \A i \in 1..Len(data) : NewRows(data)[i].id = data[i].id
<1>1. /\ Rows = 1..Len(list_machines) /\ Len(list_machines) \in Nat
      /\ Len(list_machines) <= Cardinality(Machines)
      /\ \A i \in Rows : list_machines[i] \in Row
  BY DEF RowsInv, Rows
<1>2. /\ DOMAIN data = 1..Len(data) /\ Len(data) \in Nat /\ Len(data) <= Cardinality(Machines)
      /\ \A i \in DOMAIN data : data[i] \in Row
  BY DEF RowsOnce
<1> DEFINE n == IF Len(data) > Len(list_machines) THEN Len(data) ELSE Len(list_machines)
           at(i) == IF i > Len(data) \/ SameRow(i, data[i]) THEN list_machines[i] ELSE WithShow(data[i])
<1>3. n \in Nat /\ n >= Len(data) /\ n <= Cardinality(Machines)
  BY <1>1, <1>2
<1>4. ASSUME NEW i \in 1..n, i > Len(data) PROVE at(i) \in Row
  <2>1. i \in Rows
    BY <1>1, <1>2, <1>4
  <2> QED BY <1>1, <1>4, <2>1
<1>5. ASSUME NEW i \in 1..Len(data) PROVE at(i) \in Row /\ at(i).id = data[i].id
  <2>1. ~(i > Len(data)) /\ data[i] \in Row
    BY <1>2
  <2>2. CASE SameRow(i, data[i])
    BY <1>1, <2>2 DEF SameRow
  <2>3. CASE ~SameRow(i, data[i])
    BY <2>1, <2>3, WithShowType
  <2> QED BY <2>2, <2>3
<1>6. \A i \in 1..n : i > Len(data) \/ i \in 1..Len(data)
  BY <1>2, <1>3
<1>7. NewRows(data) = [i \in 1..n |-> at(i)]
  BY DEF NewRows
<1> HIDE DEF at, n
<1>8. NewRows(data) \in Seq(Row) /\ Len(NewRows(data)) = n
  BY <1>3, <1>4, <1>5, <1>6, <1>7
<1>9. \A i \in 1..Len(data) : i \in 1..n
  BY <1>2, <1>3
<1> QED BY <1>3, <1>5, <1>7, <1>8, <1>9

-----------------------------------------------------------------------------
(* What a step leaves alone.                                                *)

LEMMA KeptParts ==
  ASSUME Inv
  PROVE  /\ UNCHANGED <<left, table>> => TableInv'
         /\ UNCHANGED client => ClientInv'
         /\ UNCHANGED channel => ChannelInv'
         /\ UNCHANGED <<list_machines, length>> => RowsInv'
         /\ UNCHANGED <<scope, modalOpened>> => ScopeInv' /\ RowsInv'
         /\ UNCHANGED <<left, link>> => LinkInv'
<1>1. UNCHANGED <<left, table>> => TableInv'
  BY DEF Inv, TableInv, table
<1>2. UNCHANGED client => ClientInv'
  BY DEF Inv, ClientInv
<1>3. UNCHANGED channel => ChannelInv'
  BY DEF Inv, ChannelInv
<1>4. UNCHANGED <<list_machines, length>> => RowsInv'
  BY DEF Inv, RowsInv, ShownOnce
<1>5. UNCHANGED <<scope, modalOpened>> => ScopeInv'
  BY DEF Inv, ScopeInv, scope
<1>6. UNCHANGED <<left, link>> => LinkInv'
  BY DEF Inv, LinkInv, link
<1> QED BY <1>1, <1>2, <1>3, <1>4, <1>5, <1>6 DEF scope

Kinds == {"changes", "clicks", "dialogs", "reloads", "losses"}

LEMMA HappensType ==
  ASSUME left \in Story, NEW what \in Kinds, Happens(what)
  PROVE  /\ left' \in Story
         /\ left'.changes = IF what = "changes" THEN left.changes - 1 ELSE left.changes
         /\ left'.losses = IF what = "losses" THEN left.losses - 1 ELSE left.losses
<1>1. MaxEvents \in Nat
  BY BoundTypes
<1>2. CASE what = "changes"
  BY <1>1, <1>2 DEF Happens, Story
<1>3. CASE what = "clicks"
  BY <1>1, <1>3 DEF Happens, Story
<1>4. CASE what = "dialogs"
  BY <1>1, <1>4 DEF Happens, Story
<1>5. CASE what = "reloads"
  BY <1>1, <1>5 DEF Happens, Story
<1>6. CASE what = "losses"
  BY <1>1, <1>6 DEF Happens, Story
<1> QED BY <1>2, <1>3, <1>4, <1>5, <1>6 DEF Kinds

LEMMA KeptHappens ==
  ASSUME Inv, NEW what \in Kinds, Happens(what)
  PROVE  /\ what # "changes" /\ UNCHANGED table => TableInv'
         /\ what # "losses" /\ UNCHANGED link => LinkInv'
<1>1. left \in Story
  BY DEF Inv, TableInv
<1>2. /\ left' \in Story
      /\ what # "changes" => left'.changes = left.changes
      /\ what # "losses" => left'.losses = left.losses
  BY <1>1, HappensType
<1>3. what # "changes" /\ UNCHANGED table => TableInv'
  BY <1>2 DEF Inv, TableInv, table
<1>4. what # "losses" /\ UNCHANGED link => LinkInv'
  BY <1>2 DEF Inv, LinkInv, link
<1> QED BY <1>3, <1>4

-----------------------------------------------------------------------------
(* The steps of the server.                                                 *)

LEMMA ChangedKeeps ==
  ASSUME Inv, NEW m \in Machines, Changed(m),
         alive' \subseteq Machines, active' \subseteq alive', name' \in [Machines -> 1..MaxNames],
         \A o, p \in Machines : name'[o] = name'[p] => o = p
  PROVE  Inv'
<1>1. Happens("changes") /\ now' = now + 1
  BY DEF Changed
<1>2. left \in Story /\ left.changes \in Nat /\ left.changes > 0
  BY <1>1, BoundTypes DEF Inv, TableInv, Story, Happens
<1>3. left' \in Story /\ left'.changes = left.changes - 1 /\ left'.losses = left.losses
  BY <1>1, <1>2, HappensType DEF Kinds
<1>4. /\ now \in Nat /\ now + left.changes <= MaxEvents /\ MaxEvents \in Nat
      /\ date_changed \in [Machines -> 0..MaxEvents]
  BY BoundTypes DEF Inv, TableInv
<1>5. now + 1 \in 0..MaxEvents
  BY <1>2, <1>4
<1>6. date_changed' \in [Machines -> 0..MaxEvents]
  <2>1. PICK date \in {date_changed[m], now + 1} : date_changed' = [date_changed EXCEPT ![m] = date]
    BY DEF Changed
  <2>2. date \in 0..MaxEvents
    BY <1>4, <1>5, <2>1
  <2> QED BY <1>4, <2>1, <2>2
<1>7. now' \in Nat /\ now' + left'.changes <= MaxEvents
  BY <1>1, <1>2, <1>3, <1>4
<1>8. TableInv'
  BY <1>3, <1>6, <1>7 DEF TableInv
<1>9. ClientInv'
  <2> DEFINE after(s) == [client[s] EXCEPT !.changed = @ \cup {m}]
  <2>1. client' = [s \in Sockets |-> after(s)]
    BY DEF Changed
  <2>2. \A s \in Sockets : after(s) \in Client
    BY DEF Inv, ClientInv, Client
  <2> HIDE DEF after
  <2> QED BY <2>1, <2>2 DEF ClientInv
<1>10. UNCHANGED <<channel, scope, modalOpened, link>>
  BY DEF Changed
<1>11. LinkInv'
  BY <1>3, <1>10 DEF Inv, LinkInv, link
<1> QED BY <1>8, <1>9, <1>10, <1>11, KeptParts DEF Inv

LEMMA SwitchPowerStep == ASSUME Inv, NEW m \in Machines, SwitchPower(m) PROVE Inv'
<1>1. alive' = alive /\ name' = name /\ m \in alive /\ Changed(m)
  BY DEF SwitchPower
<1>2. active' \subseteq alive'
  BY <1>1 DEF SwitchPower, Inv, TableInv
<1> QED BY <1>1, <1>2, ChangedKeeps DEF Inv, TableInv

LEMMA RenameStep == ASSUME Inv, NEW m \in Machines, Rename(m) PROVE Inv'
<1>1. alive' = alive /\ active' = active /\ Changed(m)
  BY DEF Rename
<1>2. PICK n \in 1..MaxNames : (\A o \in Machines : name[o] # n) /\ name' = [name EXCEPT ![m] = n]
  BY DEF Rename
<1>3. name \in [Machines -> 1..MaxNames] /\ \A o, p \in Machines : name[o] = name[p] => o = p
  BY DEF Inv, TableInv
<1>4. name' \in [Machines -> 1..MaxNames]
  BY <1>2, <1>3
<1>5. \A o, p \in Machines : name'[o] = name'[p] => o = p
  BY <1>2, <1>3
<1> QED BY <1>1, <1>4, <1>5, ChangedKeeps DEF Inv, TableInv

LEMMA AddOrRemoveStep == ASSUME Inv, NEW m \in Machines, AddOrRemove(m) PROVE Inv'
<1>1. name' = name /\ Changed(m)
  BY DEF AddOrRemove
<1>2. alive' \subseteq Machines /\ active' \subseteq alive'
  BY DEF AddOrRemove, Inv, TableInv
<1> QED BY <1>1, <1>2, ChangedKeeps DEF Inv, TableInv

\* A list put in a channel.
LEMMA PutKeeps ==
  ASSUME Inv, NEW s \in Sockets, NEW c \in Client, NEW list \in ListMessage, Put(s, c, list)
  PROVE  Inv'
<1>1. ClientInv'
  <2> DEFINE after == [c EXCEPT !.answered = FALSE]
  <2>1. after \in Client
    BY DEF Client
  <2>2. client' = [client EXCEPT ![s] = after]
    BY DEF Put
  <2> HIDE DEF after
  <2> QED BY <2>1, <2>2 DEF Inv, ClientInv
<1>2. ChannelInv'
  <2>1. channel[s] \in Channel
    BY DEF Inv, ChannelInv
  <2> DEFINE queue == Append(channel[s].queue, list)
  <2>2. queue \in Seq(ListMessage)
    BY <2>1 DEF Channel
  <2>3. channel' = [channel EXCEPT ![s].queue = queue]
    BY DEF Put
  <2> HIDE DEF queue
  <2> QED BY <2>2, <2>3 DEF Inv, ChannelInv, Channel
<1> QED BY <1>1, <1>2, KeptParts DEF Inv, Put

LEMMA TickWholeStep == ASSUME Inv, NEW s \in Sockets, TickWhole(s) PROVE Inv'
<1> DEFINE c == AfterWhole(client[s], 2)
           count == IF client[s].time >= 2 THEN Cardinality(alive) ELSE c.count
           after == [c EXCEPT !.count = count]
<1>1. Put(s, after, List("new", Asked(c)))
  BY DEF TickWhole
<1>2. TableInv /\ client[s] \in Client
  BY DEF Inv, ClientInv
<1>3. c \in Client
  BY <1>2, AfterWholeType
<1>4. List("new", Asked(c)) \in ListMessage
  BY <1>2, AskedType, ListType
<1>5. Cardinality(alive) \in 0..Cardinality(Machines) + 1
  BY <1>2, MachinesFinite DEF TableInv
<1> HIDE DEF c
<1>6. count \in 0..Cardinality(Machines) + 1
  BY <1>3, <1>5 DEF Client
<1> HIDE DEF count
<1>7. after \in Client
  BY <1>3, <1>6 DEF Client
<1> HIDE DEF after
<1> QED BY <1>1, <1>4, <1>7, PutKeeps

LEMMA TickRefreshStep == ASSUME Inv, NEW s \in Sockets, TickRefresh(s) PROVE Inv'
<1> DEFINE c == client[s]
<1>1. PICK older \in {{}, Machines} :
        LET rows == Asked(c) \cap (c.changed \cup older)
        IN IF Parents(c, rows) = {}
           THEN Put(s, [c EXCEPT !.time = 3, !.changed = {}], List("refresh", rows))
           ELSE Put(s, AfterWhole(c, 1), WholeList(c))
  BY DEF TickRefresh
<1>2. TableInv /\ c \in Client
  BY DEF Inv, ClientInv
<1> HIDE DEF c
<1> DEFINE rows == Asked(c) \cap (c.changed \cup older)
<1>3. rows \in SUBSET Machines
  BY <1>2, AskedType
<1>4. CASE Parents(c, rows) = {}
  <2> DEFINE after == [c EXCEPT !.time = 3, !.changed = {}]
  <2>1. after \in Client
    <3>1. 3 \in 0..3 /\ {} \in SUBSET Machines
      OBVIOUS
    <3>2. after.time = 3 /\ after.changed = {} /\ after = [c EXCEPT !.time = after.time, !.changed = after.changed]
      BY <1>2 DEF Client
    <3> HIDE DEF after
    <3> QED BY <1>2, <3>1, <3>2 DEF Client
  <2>2. List("refresh", rows) \in ListMessage
    BY <1>2, <1>3, ListType
  <2>3. Put(s, after, List("refresh", rows))
    BY <1>1, <1>4
  <2> HIDE DEF after, rows
  <2> QED BY <2>1, <2>2, <2>3, PutKeeps
<1>5. CASE Parents(c, rows) # {}
  <2>1. AfterWhole(c, 1) \in Client
    BY <1>2, AfterWholeType
  <2>2. WholeList(c) \in ListMessage
    BY <1>2, AskedType, ListType DEF WholeList
  <2>3. Put(s, AfterWhole(c, 1), WholeList(c))
    BY <1>1, <1>5
  <2> QED BY <2>1, <2>2, <2>3, PutKeeps
<1> QED BY <1>4, <1>5

LEMMA TickTooSoonStep == ASSUME Inv, NEW s \in Sockets, TickTooSoon(s) PROVE Inv'
<1>1. client[s] \in Client
  BY DEF Inv, ClientInv
<1>2. List("new", {}) \in ListMessage
  BY ListType DEF Inv
<1> QED BY <1>1, <1>2, PutKeeps DEF TickTooSoon

LEMMA ServerReceivesStep == ASSUME Inv, NEW s \in Sockets, ServerReceives(s) PROVE Inv'
<1> DEFINE cmd == Head(channel[s].sent)
           c == AfterWhole(Managed(client[s], cmd), IF client[s].time = 0 THEN 1 ELSE 2)
           list == List("new", Asked(c))
           sent == Tail(channel[s].sent)
           old == channel[s].queue
           queue == IF old # <<>> /\ Last(old) = list THEN old ELSE Append(old, list)
           after == [c EXCEPT !.answered = TRUE]
<1>1. TableInv /\ client[s] \in Client /\ channel[s] \in Channel
  BY DEF Inv, ClientInv, ChannelInv
<1>2. channel[s].sent \in Seq(Command) /\ channel[s].sent # <<>> /\ old \in Seq(ListMessage)
  BY <1>1 DEF Channel, ServerReceives
<1>3. cmd \in Command /\ sent \in Seq(Command)
  BY <1>2
<1>4. client' = [client EXCEPT ![s] = after]
  BY DEF ServerReceives
<1>5. channel' = [channel EXCEPT ![s].sent = sent, ![s].queue = queue]
  BY DEF ServerReceives
<1>6. UNCHANGED <<left, table, scope, modalOpened, link>>
  BY DEF ServerReceives
<1> HIDE DEF cmd
<1>7. Managed(client[s], cmd) \in Client
  BY <1>1, <1>3, ManagedType
<1>8. (IF client[s].time = 0 THEN 1 ELSE 2) \in 0..3
  OBVIOUS
<1>9. c \in Client
  BY <1>1, <1>7, <1>8, AfterWholeType
<1> HIDE DEF c
<1>10. list \in ListMessage
  BY <1>1, AskedType, ListType
<1> HIDE DEF list, sent
<1>11. queue \in Seq(ListMessage)
  BY <1>2, <1>10
<1> HIDE DEF queue
<1>12. after \in Client
  BY <1>9 DEF Client
<1> HIDE DEF after
<1>13. ClientInv'
  BY <1>4, <1>12 DEF Inv, ClientInv
<1>14. ChannelInv'
  BY <1>3, <1>5, <1>11 DEF Inv, ChannelInv, Channel
<1> QED BY <1>6, <1>13, <1>14, KeptParts DEF Inv

-----------------------------------------------------------------------------
(* Messages at the page.                                                    *)

LEMMA DroppedStep == ASSUME Inv, NEW s \in Sockets, Dropped(s) PROVE Inv'
<1> DEFINE queue == Tail(channel[s].queue)
<1>1. channel[s] \in Channel
  BY DEF Inv, ChannelInv
<1>2. queue \in Seq(ListMessage)
  BY <1>1 DEF Channel, Dropped, Message
<1>3. channel' = [channel EXCEPT ![s].queue = queue]
  BY DEF Dropped
<1> HIDE DEF queue
<1>4. ChannelInv'
  BY <1>2, <1>3 DEF Inv, ChannelInv, Channel
<1> QED BY <1>4, KeptParts DEF Inv, Dropped

\* The rows up to the length kept are of different machines.
LEMMA RowsFit ==
  ASSUME NEW rows \in Seq(Row), Len(rows) <= Cardinality(Machines),
         list_machines' \in Seq(Row), SameIds(list_machines', rows),
         length' \in Nat, length' <= Len(rows),
         \A i, j \in 1..length' : rows[i].id = rows[j].id => i = j
  PROVE  RowsInv'
<1>1. Len(list_machines') = Len(rows)
  BY DEF SameIds
<1>2. \A i \in 1..length' : i \in DOMAIN rows
  OBVIOUS
<1>3. ShownOnce'
  BY <1>2 DEF SameIds, ShownOnce
<1> QED BY <1>1, <1>3 DEF RowsInv

LEMMA SameIdsSelf == ASSUME NEW rows PROVE SameIds(rows, rows)
BY DEF SameIds

LEMMA DoShowActiveKeeps ==
  ASSUME Inv, NEW rows \in Seq(Row), DoShowActive(rows),
         n_active' \in 0..Cardinality(Machines), UNCHANGED <<show_clones, modalOpened>>
  PROVE  ScopeInv' /\ list_machines' \in Seq(Row) /\ SameIds(list_machines', rows)
<1>1. list_machines' \in Seq(Row) /\ SameIds(list_machines', rows)
  BY ShowOnlyType DEF DoShowActive
<1>2. show_machine' \subseteq Machines
  <2>1. {BaseOf[m] : m \in ActiveIds(rows) \cap Clones} \subseteq Machines
    BY BasesType
  <2> QED BY <2>1 DEF Inv, ScopeInv, DoShowActive
<1>3. filter' \in Filters /\ show_active' \in BOOLEAN
  BY FiltersAssumption DEF DoShowActive
<1> QED BY <1>1, <1>2, <1>3 DEF Inv, ScopeInv

LEMMA OnMessageStep == ASSUME Inv, NEW s \in Sockets, OnMessage(s) PROVE Inv'
<1> DEFINE list == Head(channel[s].queue)
           whole == list.action = "new" \/ list_machines = <<>>
           rest == Tail(channel[s].queue)
           rows == IF whole THEN NewRows(list.data) ELSE RefreshedRows(list.data)
           sent == IF ~whole /\ Renamed(list.data) THEN Append(channel[s].sent, ListCmd)
                   ELSE channel[s].sent
<1>1. channel[s] \in Channel /\ channel[s].queue # <<>>
  BY DEF Inv, ChannelInv, OnMessage, Message
<1>2. channel[s].queue \in Seq(ListMessage) /\ channel[s].sent \in Seq(Command)
  BY <1>1 DEF Channel
<1>3. list \in ListMessage /\ rest \in Seq(ListMessage)
  BY <1>1, <1>2
<1>4. n_active' = list.n_active /\ length' = IF whole THEN Len(list.data) ELSE length
  BY DEF OnMessage
<1>5. /\ show_active => DoShowActive(rows)
      /\ ~show_active /\ filter # NoFilter =>
            ShowFilter(rows, filter) /\ UNCHANGED <<filter, show_machine>>
      /\ ~show_active /\ filter = NoFilter =>
            list_machines' = rows /\ UNCHANGED <<filter, show_active, show_machine>>
  BY DEF OnMessage
<1>6. channel' = [channel EXCEPT ![s].queue = rest, ![s].sent = sent]
  BY DEF OnMessage
<1>7. UNCHANGED <<left, table, client, show_clones, modalOpened, link>>
  BY DEF OnMessage
<1> HIDE DEF list
<1>8. list.data \in RowsOnce /\ list.n_active \in 0..Cardinality(Machines)
  BY <1>3 DEF ListMessage
<1>9. sent \in Seq(Command)
  BY <1>2, CommandTypes
<1>10. ChannelInv'
  <2> HIDE DEF sent, rest
  <2> QED BY <1>3, <1>6, <1>9 DEF Inv, ChannelInv, Channel
<1>11. /\ rows \in Seq(Row) /\ Len(rows) <= Cardinality(Machines)
       /\ length' \in Nat /\ length' <= Len(rows)
       /\ \A i, j \in 1..length' : rows[i].id = rows[j].id => i = j
  <2> DEFINE data == list.data
  <2>1. data \in RowsOnce /\ RowsInv
    BY <1>8 DEF Inv
  <2>2. CASE whole
    <3>1. rows = NewRows(data) /\ length' = Len(data)
      BY <1>4, <2>2
    <3>2. data \in Seq(Row) /\ Once(data)
      BY <2>1 DEF RowsOnce
    <3>3. /\ NewRows(data) \in Seq(Row)
          /\ Len(NewRows(data)) >= Len(data) /\ Len(NewRows(data)) <= Cardinality(Machines)
          /\ \A i \in 1..Len(data) : NewRows(data)[i].id = data[i].id
      BY <2>1, NewRowsType
    <3> HIDE DEF data, rows
    <3>4. Len(data) \in Nat /\ \A i, j \in 1..Len(data) : data[i].id = data[j].id => i = j
      BY <3>2 DEF Once
    <3> QED BY <3>1, <3>3, <3>4
  <2>3. CASE ~whole
    <3>1. rows = RefreshedRows(data) /\ length' = length
      BY <1>4, <2>3
    <3>2. rows \in Seq(Row) /\ SameIds(rows, list_machines)
      BY <2>1, <3>1, RefreshedRowsType
    <3>3. /\ list_machines \in Seq(Row) /\ Len(list_machines) <= Cardinality(Machines)
          /\ length \in Nat /\ length <= Len(list_machines)
          /\ \A i, j \in 1..length : list_machines[i].id = list_machines[j].id => i = j
      BY <2>1 DEF RowsInv, ShownOnce
    <3> HIDE DEF data, rows
    <3>4. Len(rows) = Len(list_machines)
      BY <3>2, <3>3 DEF SameIds
    <3>5. \A i \in 1..length : rows[i].id = list_machines[i].id
      BY <3>2, <3>3 DEF SameIds
    <3> QED BY <3>1, <3>2, <3>3, <3>4, <3>5
  <2> QED BY <2>2, <2>3
<1> HIDE DEF rows
<1>12. ScopeInv' /\ list_machines' \in Seq(Row) /\ SameIds(list_machines', rows)
  <2>1. n_active' \in 0..Cardinality(Machines) /\ UNCHANGED <<show_clones, modalOpened>>
    BY <1>4, <1>7, <1>8
  <2>2. CASE show_active
    <3>1. DoShowActive(rows)
      BY <1>5, <2>2
    <3> QED BY <1>11, <2>1, <3>1, DoShowActiveKeeps
  <2>3. CASE ~show_active /\ filter # NoFilter
    <3>1. ShowFilter(rows, filter) /\ UNCHANGED <<filter, show_machine>>
      BY <1>5, <2>3
    <3>2. list_machines' \in Seq(Row) /\ SameIds(list_machines', rows)
      BY <1>11, <3>1, ShowOnlyType DEF ShowFilter
    <3>3. show_active' \in BOOLEAN
      BY <3>1 DEF ShowFilter
    <3> QED BY <2>1, <3>1, <3>2, <3>3 DEF Inv, ScopeInv
  <2>4. CASE ~show_active /\ filter = NoFilter
    <3>1. list_machines' = rows /\ UNCHANGED <<filter, show_active, show_machine>>
      BY <1>5, <2>4
    <3> QED BY <1>11, <2>1, <3>1, SameIdsSelf DEF Inv, ScopeInv
  <2> QED BY <2>2, <2>3, <2>4
<1>13. RowsInv'
  BY <1>11, <1>12, RowsFit
<1> QED BY <1>7, <1>10, <1>12, <1>13, KeptParts DEF Inv

-----------------------------------------------------------------------------
(* What the user asks to see.                                               *)

LEMMA SendKeeps ==
  ASSUME Inv, NEW s \in Sockets, NEW cmds \in Seq(Command), Send(s, cmds)
  PROVE  ChannelInv'
<1>1. channel[s] \in Channel
  BY DEF Inv, ChannelInv
<1> DEFINE sent == channel[s].sent \o cmds
<1>2. sent \in Seq(Command)
  BY <1>1, ConcatProperties DEF Channel
<1>3. channel' = [channel EXCEPT ![s].sent = sent]
  BY DEF Send
<1> HIDE DEF sent
<1> QED BY <1>2, <1>3 DEF Inv, ChannelInv, Channel

\* A click leaves the table and the connection; the rows keep their places.
LEMMA UserKeeps ==
  ASSUME Inv, User, UNCHANGED <<table, client, length, modalOpened, link>>,
         ChannelInv', list_machines' \in Seq(Row), SameIds(list_machines', list_machines),
         ScopeInv'
  PROVE  Inv'
<1>1. Happens("clicks")
  BY DEF User
<1>2. TableInv' /\ LinkInv'
  BY <1>1, KeptHappens DEF Kinds
<1>3. RowsInv'
  BY RowsKept DEF Inv
<1> QED BY <1>2, <1>3, KeptParts DEF Inv

LEMMA WsType == ASSUME Inv PROVE ws \in Sockets
BY DEF ws, Inv, LinkInv

LEMMA ToggleShowClonesStep ==
  ASSUME Inv, NEW b \in Bases, ToggleShowClones(b) PROVE Inv'
<1> DEFINE value == show_clones[b] # "true"
           mark == IF value THEN "true" ELSE "false"
<1>1. User /\ UNCHANGED <<table, client, length, filter, n_active, modalOpened, link>>
  BY DEF ToggleShowClones
<1>2. /\ Send(ws, <<ShowClonesCmd(b, value)>>)
      /\ show_clones' = [show_clones EXCEPT ![b] = mark]
      /\ show_active' = (show_active /\ value)
      /\ list_machines' = WithClones(list_machines, b, value)
      /\ show_machine' = IF value THEN show_machine \cup ClonesIn(list_machines, b)
                         ELSE show_machine \ ClonesIn(list_machines, b)
  BY DEF ToggleShowClones
<1>3. value \in BOOLEAN /\ mark \in {"unset", "true", "false"}
  OBVIOUS
<1> HIDE DEF mark, value
<1>4. <<ShowClonesCmd(b, value)>> \in Seq(Command)
  BY <1>3, CommandTypes
<1>5. ChannelInv'
  BY <1>2, <1>4, WsType, SendKeeps
<1>6. list_machines \in Seq(Row)
  BY DEF Inv, RowsInv
<1>7. list_machines' \in Seq(Row) /\ SameIds(list_machines', list_machines)
  BY <1>2, <1>3, <1>6, WithClonesType
<1>8. show_machine' \subseteq Machines
  BY <1>2, BasesType DEF Inv, ScopeInv, ClonesIn
<1>9. show_clones' \in [Bases -> {"unset", "true", "false"}]
  BY <1>2, <1>3 DEF Inv, ScopeInv
<1>10. show_active' \in BOOLEAN
  BY <1>2, <1>3 DEF Inv, ScopeInv
<1>11. ScopeInv'
  BY <1>1, <1>8, <1>9, <1>10 DEF Inv, ScopeInv
<1> QED BY <1>1, <1>5, <1>7, <1>11, UserKeeps

LEMMA ToggleShowActiveStep == ASSUME Inv, ToggleShowActive PROVE Inv'
<1> DEFINE cmds == <<ShowActiveCmd(~show_active)>> \o (IF show_active THEN HideCmds ELSE <<>>)
<1>1. User /\ UNCHANGED <<table, client, length, n_active, modalOpened, link>> /\ Send(ws, cmds)
  BY DEF ToggleShowActive
<1>2. list_machines \in Seq(Row)
  BY DEF Inv, RowsInv
<1>3. <<ShowActiveCmd(~show_active)>> \in Seq(Command)
  <2> DEFINE value == ~show_active
  <2>1. value \in BOOLEAN
    OBVIOUS
  <2> HIDE DEF value
  <2>2. ShowActiveCmd(value) \in Command
    BY <2>1, CommandTypes
  <2> QED BY <2>2 DEF value
<1>4. (IF show_active THEN HideCmds ELSE <<>>) \in Seq(Command)
  BY HideCmdsType
<1>5. cmds \in Seq(Command)
  BY <1>3, <1>4, ConcatProperties
<1> HIDE DEF cmds
<1>6. ChannelInv'
  BY <1>1, <1>5, WsType, SendKeeps
<1>7. CASE ~show_active
  <2>1. /\ DoShowActive(list_machines) /\ UNCHANGED <<show_clones, modalOpened>>
        /\ n_active' \in 0..Cardinality(Machines)
    BY <1>1, <1>7 DEF ToggleShowActive, Inv, ScopeInv
  <2>2. ScopeInv' /\ list_machines' \in Seq(Row) /\ SameIds(list_machines', list_machines)
    BY <1>2, <2>1, DoShowActiveKeeps
  <2> QED BY <1>1, <1>6, <2>2, UserKeeps
<1>8. CASE show_active
  <2>1. /\ show_active' = FALSE /\ filter' = NoFilter
        /\ list_machines' = ShowOnly(list_machines, Roots)
        /\ show_clones' = [b \in Bases |-> IF b \in ToSet(BasesIn) THEN "false" ELSE show_clones[b]]
        /\ show_machine' = show_machine \ UNION {ClonesIn(list_machines, b) : b \in ToSet(BasesIn)}
    BY <1>8 DEF ToggleShowActive
  <2>2. list_machines' \in Seq(Row) /\ SameIds(list_machines', list_machines)
    BY <1>2, <2>1, ShowOnlyType
  <2>3. show_clones' \in [Bases -> {"unset", "true", "false"}]
    BY <2>1 DEF Inv, ScopeInv
  <2>4. show_machine' \subseteq Machines
    BY <2>1 DEF Inv, ScopeInv
  <2>5. filter' \in Filters
    BY <2>1, FiltersAssumption
  <2>6. ScopeInv'
    BY <1>1, <2>1, <2>3, <2>4, <2>5 DEF Inv, ScopeInv
  <2> QED BY <1>1, <1>6, <2>2, <2>6, UserKeeps
<1> QED BY <1>7, <1>8 DEF Inv, ScopeInv

LEMMA TypeFilterStep == ASSUME Inv, NEW f \in Filters, TypeFilter(f) PROVE Inv'
<1> DEFINE cmds == <<ShowNameCmd(f)>> \o (IF f = NoFilter THEN RefreshShowClones ELSE <<>>)
<1>1. /\ User /\ UNCHANGED <<table, client, length, show_clones, show_machine, n_active, modalOpened, link>>
      /\ Send(ws, cmds) /\ filter' = f /\ ShowFilter(list_machines, f)
  BY DEF TypeFilter
<1>2. list_machines \in Seq(Row)
  BY DEF Inv, RowsInv
<1>3. <<ShowNameCmd(f)>> \in Seq(Command)
  BY CommandTypes
<1>4. (IF f = NoFilter THEN RefreshShowClones ELSE <<>>) \in Seq(Command)
  BY RefreshShowClonesType
<1>5. cmds \in Seq(Command)
  BY <1>3, <1>4, ConcatProperties
<1> HIDE DEF cmds
<1>6. ChannelInv'
  BY <1>1, <1>5, WsType, SendKeeps
<1>7. list_machines' \in Seq(Row) /\ SameIds(list_machines', list_machines) /\ show_active' = FALSE
  BY <1>1, <1>2, ShowOnlyType DEF ShowFilter
<1>8. ScopeInv'
  BY <1>1, <1>7 DEF Inv, ScopeInv
<1> QED BY <1>1, <1>6, <1>7, <1>8, UserKeeps

LEMMA ReloadListStep == ASSUME Inv, ReloadList PROVE Inv'
<1>1. /\ User /\ list_machines' = ShowOnly(list_machines, Roots)
      /\ UNCHANGED <<table, client, channel, length, show_clones, show_machine, n_active, modalOpened, link>>
  BY DEF ReloadList
<1>2. filter' \in Filters /\ show_active' \in BOOLEAN
  BY FiltersAssumption DEF ReloadList, Inv, ScopeInv
<1>3. list_machines \in Seq(Row)
  BY DEF Inv, RowsInv
<1>4. list_machines' \in Seq(Row) /\ SameIds(list_machines', list_machines)
  BY <1>1, <1>3, ShowOnlyType
<1>5. ScopeInv'
  BY <1>1, <1>2 DEF Inv, ScopeInv
<1>6. ChannelInv'
  BY <1>1, KeptParts
<1> QED BY <1>1, <1>4, <1>5, <1>6, UserKeeps

LEMMA ModalSteps == ASSUME Inv, OpenModal \/ CancelModal PROVE Inv'
<1>1. UNCHANGED <<table, client, channel, scope, link>> /\ modalOpened' \in BOOLEAN
  BY DEF OpenModal, CancelModal
<1>2. ScopeInv'
  BY <1>1 DEF Inv, ScopeInv, scope
<1>3. UNCHANGED <<list_machines, length>>
  BY <1>1 DEF scope
<1>4. TableInv' /\ LinkInv'
  <2>1. CASE OpenModal
    BY <1>1, <2>1, KeptHappens DEF OpenModal, Kinds
  <2>2. CASE CancelModal
    BY <2>2, KeptParts DEF CancelModal
  <2> QED BY <2>1, <2>2
<1> QED BY <1>1, <1>2, <1>3, <1>4, KeptParts DEF Inv

-----------------------------------------------------------------------------
(* The connection.                                                          *)

LEMMA SubscribeListMachinesStep ==
  ASSUME Inv, NEW keep \in BOOLEAN, SubscribeListMachines(keep) PROVE Inv'
<1>1. /\ ws < MaxSockets /\ Happens("reloads") /\ ws_list_machines' = ws + 1
      /\ channel' = [channel EXCEPT ![ws + 1].state = "opening"]
      /\ list_machines' = <<>> /\ length' = 0
      /\ filter' = IF keep THEN filter ELSE NoFilter
      /\ UNCHANGED <<table, client, show_active, show_clones, show_machine, n_active, modalOpened,
                     ws_connection_lost, timers>>
  BY DEF SubscribeListMachines
<1>2. ws + 1 \in Sockets /\ ws_list_machines' \in Sockets
  BY <1>1, WsType, BoundTypes DEF Sockets
<1>3. ChannelInv'
  <2>1. channel[ws + 1] \in Channel
    BY <1>2 DEF Inv, ChannelInv
  <2> DEFINE s == ws + 1
  <2>2. channel' = [channel EXCEPT ![s].state = "opening"] /\ s \in Sockets
    BY <1>1, <1>2
  <2> HIDE DEF s
  <2> QED BY <2>2 DEF Inv, ChannelInv, Channel
<1>4. TableInv'
  BY <1>1, KeptHappens DEF Kinds
<1>5. RowsInv'
  <2>1. list_machines' \in Seq(Row) /\ Len(list_machines') = 0 /\ length' = 0
    BY <1>1
  <2>2. ShownOnce'
    BY <1>1 DEF ShownOnce
  <2>3. Cardinality(Machines) \in Nat
    BY MachinesFinite
  <2> QED BY <2>1, <2>2, <2>3 DEF RowsInv
<1>6. ScopeInv'
  BY <1>1, FiltersAssumption DEF Inv, ScopeInv
<1>7. LinkInv'
  <2>1. left'.losses = left.losses
    BY <1>1, HappensType DEF Kinds, Inv, TableInv
  <2> QED BY <1>1, <1>2, <2>1 DEF Inv, LinkInv
<1> QED BY <1>1, <1>3, <1>4, <1>5, <1>6, <1>7, KeptParts DEF Inv

LEMMA OnOpenStep == ASSUME Inv, NEW s \in Sockets, OnOpen(s) PROVE Inv'
<1> DEFINE own == IF show_active THEN <<ShowActiveCmd(TRUE)>> ELSE <<>>
           typed == IF filter # NoFilter THEN <<ShowNameCmd(filter)>> ELSE <<>>
           newest == typed \o RefreshShowClones
           opened == [channel EXCEPT ![s].state = "open", ![s].sent = own]
           all == opened[ws].sent \o newest
           told == IF opened[ws].state = "open" THEN [opened EXCEPT ![ws].sent = all] ELSE opened
           asked == Append(told[s].sent, ListCmd)
           after == IF told[ws].state = "opening" THEN told ELSE [told EXCEPT ![s].sent = asked]
<1>1. channel' = after
  BY DEF OnOpen
<1>2. /\ ws_connection_lost' = FALSE
      /\ UNCHANGED <<left, table, client, scope, modalOpened, ws_list_machines, timers>>
  BY DEF OnOpen
<1>3. ws \in Sockets /\ channel \in [Sockets -> Channel]
  BY WsType DEF Inv, ChannelInv
<1>4. own \in Seq(Command)
  <2>1. ShowActiveCmd(TRUE) \in Command
    BY CommandTypes
  <2> DEFINE cmd == ShowActiveCmd(TRUE)
  <2> HIDE DEF cmd
  <2>2. <<cmd>> \in Seq(Command) /\ <<>> \in Seq(Command)
    <3>1. cmd \in Command
      BY <2>1 DEF cmd
    <3> QED BY <3>1
  <2> QED BY <2>2 DEF cmd, own
<1>5. typed \in Seq(Command)
  BY CommandTypes DEF Inv, ScopeInv
<1> HIDE DEF own, typed
<1>6. newest \in Seq(Command)
  BY <1>5, RefreshShowClonesType, ConcatProperties
<1> HIDE DEF newest
<1>7. opened \in [Sockets -> Channel]
  BY <1>3, <1>4 DEF Channel
<1> HIDE DEF opened
<1>8. all \in Seq(Command)
  <2>1. opened[ws] \in Channel
    BY <1>3, <1>7
  <2> QED BY <1>6, <2>1, ConcatProperties DEF Channel
<1> HIDE DEF all
<1>9. told \in [Sockets -> Channel]
  <2>1. [opened EXCEPT ![ws].sent = all] \in [Sockets -> Channel]
    BY <1>3, <1>7, <1>8 DEF Channel
  <2> QED BY <1>7, <2>1
<1> HIDE DEF told
<1>10. asked \in Seq(Command)
  <2>1. told[s] \in Channel
    BY <1>9
  <2> QED BY <2>1, CommandTypes DEF Channel
<1> HIDE DEF asked
<1>11. after \in [Sockets -> Channel]
  <2>1. [told EXCEPT ![s].sent = asked] \in [Sockets -> Channel]
    BY <1>9, <1>10 DEF Channel
  <2> QED BY <1>9, <2>1
<1> HIDE DEF after
<1>12. ChannelInv'
  BY <1>1, <1>11 DEF ChannelInv
<1>13. LinkInv'
  BY <1>2 DEF Inv, LinkInv
<1> QED BY <1>2, <1>12, <1>13, KeptParts DEF Inv

LEMMA ConnectionLostStep == ASSUME Inv, ConnectionLost PROVE Inv'
<1> DEFINE open == {s \in Sockets : channel[s].state = "open"}
           k == Cardinality(open)
           after(s) == IF channel[s].state = "open" THEN Closed ELSE channel[s]
<1>1. /\ Happens("losses") /\ timers' = timers + k
      /\ channel' = [s \in Sockets |-> after(s)]
      /\ UNCHANGED <<table, client, scope, modalOpened, ws_list_machines, ws_connection_lost>>
  BY DEF ConnectionLost
<1>2. k \in Nat /\ k <= MaxSockets
  <2>1. MaxSockets \in Nat
    BY BoundTypes
  <2>2. IsFiniteSet(Sockets) /\ Cardinality(Sockets) = MaxSockets
    BY <2>1, FS_Interval DEF Sockets
  <2>3. open \subseteq Sockets
    OBVIOUS
  <2> HIDE DEF open
  <2>4. IsFiniteSet(open) /\ Cardinality(open) <= Cardinality(Sockets)
    BY <2>2, <2>3, FS_Subset
  <2> QED BY <2>2, <2>4, FS_CardinalityType
<1> HIDE DEF open, k
<1>3. ChannelInv'
  <2>1. Closed \in Channel
    BY DEF Closed, Channel
  <2>2. \A s \in Sockets : after(s) \in Channel
    BY <2>1 DEF Inv, ChannelInv
  <2> HIDE DEF after
  <2> QED BY <1>1, <2>2 DEF ChannelInv
<1>4. TableInv'
  BY <1>1, KeptHappens DEF Kinds
<1>5. LinkInv'
  <2>1. left \in Story
    BY DEF Inv, TableInv
  <2>2. left.losses \in Nat /\ left.losses > 0
    BY <1>1, <2>1, BoundTypes DEF Happens, Story
  <2>3. left'.losses = left.losses - 1
    BY <1>1, <2>1, HappensType DEF Kinds
  <2>4. timers \in Nat /\ timers + MaxSockets * left.losses <= MaxSockets * MaxEvents
    BY DEF Inv, LinkInv
  <2>5. ASSUME NEW n \in Nat, NEW l \in Nat PROVE n * l = n * (l - 1) + n /\ n * l \in Nat /\ n * (l - 1) \in Int
    OBVIOUS
  <2>6. MaxSockets * left.losses = MaxSockets * (left.losses - 1) + MaxSockets
        /\ MaxSockets * left.losses \in Nat /\ MaxSockets * (left.losses - 1) \in Int
    BY <2>2, <2>5, BoundTypes
  <2>7. MaxSockets * MaxEvents \in Nat
    BY <2>5, BoundTypes
  <2>8. timers' + MaxSockets * left'.losses <= MaxSockets * MaxEvents
    <3> DEFINE before == MaxSockets * left.losses
               then == MaxSockets * (left.losses - 1)
               most == MaxSockets * MaxEvents
    <3>1. /\ before = then + MaxSockets /\ before \in Nat /\ then \in Int /\ most \in Nat
          /\ timers + before <= most /\ MaxSockets \in Nat
      BY <2>4, <2>6, <2>7, BoundTypes
    <3> HIDE DEF before, then, most
    <3>2. timers + k + then <= most
      BY <1>2, <2>4, <3>1
    <3>3. timers' + MaxSockets * left'.losses = timers + k + then
      BY <1>1, <2>3 DEF then
    <3> QED BY <3>2, <3>3 DEF most
  <2>9. timers' \in Nat
    BY <1>1, <1>2, <2>4
  <2> QED BY <1>1, <2>8, <2>9 DEF Inv, LinkInv
<1> QED BY <1>1, <1>3, <1>4, <1>5, KeptParts DEF Inv

LEMMA OnCloseStep == ASSUME Inv, OnClose PROVE Inv'
<1>1. /\ timers > 0 /\ timers' = timers - 1 /\ ws_connection_lost' = TRUE
      /\ UNCHANGED <<left, table, client, channel, scope, modalOpened, ws_list_machines>>
  BY DEF OnClose
<1>2. timers \in Nat /\ left.losses \in Nat /\ left' = left
  BY <1>1, BoundTypes DEF Inv, LinkInv, TableInv, Story
<1> DEFINE rest == MaxSockets * left.losses
           most == MaxSockets * MaxEvents
<1>3. rest \in Nat /\ most \in Nat
  BY <1>2, BoundTypes
<1>4. timers + rest <= most
  BY DEF Inv, LinkInv
<1> HIDE DEF rest, most
<1>5. timers' \in Nat /\ timers' + rest <= most
  BY <1>1, <1>2, <1>3, <1>4
<1>6. LinkInv'
  BY <1>1, <1>2, <1>5 DEF Inv, LinkInv, rest, most
<1> QED BY <1>1, <1>6, KeptParts DEF Inv

-----------------------------------------------------------------------------
(* The beginning, and every step.                                           *)

LEMMA InitInv == ASSUME Init PROVE Inv
<1>1. left \in Story /\ MaxEvents \in Nat /\ MaxNames \in Nat /\ MaxSockets \in Nat \ {0}
  BY StoriesAssumption, BoundTypes DEF Init
<1>2. left.changes \in 0..MaxEvents /\ left.losses \in 0..MaxEvents
  BY <1>1 DEF Story
<1>3. TableInv
  BY <1>1, <1>2, NamesAssumption DEF Init, TableInv
<1>4. Cardinality(Machines) \in Nat
  BY MachinesFinite
<1>5. ClientInv
  <2>1. NewClient \in Client
    BY <1>4, FiltersAssumption DEF NewClient, Client
  <2>2. client = [s \in Sockets |-> NewClient]
    BY DEF Init
  <2> QED BY <2>1, <2>2 DEF ClientInv
<1>6. ChannelInv
  <2> DEFINE opening == [Closed EXCEPT !.state = "opening"]
             at(s) == IF s = 1 THEN opening ELSE Closed
  <2>1. Closed \in Channel
    BY DEF Closed, Channel
  <2>2. opening \in Channel
    BY <2>1 DEF Channel
  <2> HIDE DEF opening
  <2>3. \A s \in Sockets : at(s) \in Channel
    BY <2>1, <2>2
  <2>4. channel = [s \in Sockets |-> at(s)]
    BY DEF Init, opening
  <2> HIDE DEF at
  <2> QED BY <2>3, <2>4 DEF ChannelInv
<1>7. RowsInv
  <2>1. list_machines = <<>> /\ length = 0
    BY DEF Init
  <2> QED BY <1>4, <2>1 DEF RowsInv, ShownOnce
<1>8. ScopeInv
  <2>1. /\ show_active = FALSE /\ filter = NoFilter /\ show_machine = {}
        /\ show_clones = [b \in Bases |-> "unset"] /\ n_active = 0 /\ modalOpened = FALSE
    BY DEF Init
  <2>2. NoFilter \in Filters /\ 0 \in 0..Cardinality(Machines)
    BY <1>4, FiltersAssumption
  <2>3. show_clones \in [Bases -> {"unset", "true", "false"}]
    BY <2>1
  <2>4. show_machine \subseteq Machines
    BY <2>1
  <2> QED BY <2>1, <2>2, <2>3, <2>4 DEF ScopeInv
<1>9. LinkInv
  <2>1. ws_list_machines \in Sockets
    BY <1>1 DEF Init, Sockets
  <2>2. ASSUME NEW n \in Nat, NEW m \in Nat, NEW l \in 0..m PROVE n * l <= n * m
    OBVIOUS
  <2>3. MaxSockets * left.losses <= MaxSockets * MaxEvents
    BY <1>1, <1>2, <2>2
  <2>4. timers = 0 /\ MaxSockets * left.losses \in Nat
    BY <1>1, <1>2 DEF Init
  <2>5. ws_connection_lost \in BOOLEAN
    BY DEF Init
  <2> DEFINE least == MaxSockets * left.losses
             most == MaxSockets * MaxEvents
  <2>6. least \in Nat /\ least <= most
    BY <2>3, <2>4
  <2> HIDE DEF least, most
  <2>7. timers + least <= most
    BY <2>4, <2>6
  <2> QED BY <2>1, <2>4, <2>5, <2>7 DEF LinkInv, least, most
<1> QED BY <1>3, <1>5, <1>6, <1>7, <1>8, <1>9 DEF Inv

LEMMA NextInv == ASSUME Inv, [Next]_vars PROVE Inv'
<1>1. ASSUME NEW m \in Machines, SwitchPower(m) \/ Rename(m) \/ AddOrRemove(m) PROVE Inv'
  BY <1>1, SwitchPowerStep, RenameStep, AddOrRemoveStep
<1>2. ASSUME NEW s \in Sockets, TickWhole(s) \/ TickRefresh(s) \/ TickTooSoon(s) PROVE Inv'
  BY <1>2, TickWholeStep, TickRefreshStep, TickTooSoonStep
<1>3. ASSUME NEW s \in Sockets, ServerReceives(s) \/ OnMessage(s) \/ Dropped(s) \/ OnOpen(s)
      PROVE  Inv'
  BY <1>3, ServerReceivesStep, OnMessageStep, DroppedStep, OnOpenStep
<1>4. ASSUME NEW b \in Bases, ToggleShowClones(b) PROVE Inv'
  BY <1>4, ToggleShowClonesStep
<1>5. CASE ToggleShowActive \/ ReloadList \/ OpenModal \/ CancelModal
  BY <1>5, ToggleShowActiveStep, ReloadListStep, ModalSteps
<1>6. ASSUME NEW f \in Filters, TypeFilter(f) PROVE Inv'
  BY <1>6, TypeFilterStep
<1>7. ASSUME NEW keep \in BOOLEAN, SubscribeListMachines(keep) PROVE Inv'
  BY <1>7, SubscribeListMachinesStep
<1>8. CASE ConnectionLost \/ OnClose
  BY <1>8, ConnectionLostStep, OnCloseStep
<1>9. CASE UNCHANGED vars
  BY <1>9, KeptParts DEF Inv, vars
<1> QED BY <1>1, <1>2, <1>3, <1>4, <1>5, <1>6, <1>7, <1>8, <1>9 DEF Next

LEMMA Invariance == Spec => []Inv
<1>1. Init => Inv
  BY InitInv
<1>2. Inv /\ [Next]_vars => Inv'
  BY NextInv
<1> QED BY <1>1, <1>2, PTL DEF Spec

LEMMA InvTyped == Inv => TypeOK
<1> SUFFICES ASSUME Inv PROVE TypeOK
  OBVIOUS
<1>1. left \in Story /\ left.changes \in Nat /\ left.losses \in Nat
  BY BoundTypes DEF Inv, TableInv, Story
<1>2. now \in 0..MaxEvents
  BY <1>1, BoundTypes DEF Inv, TableInv
<1>3. timers \in 0..(MaxSockets * MaxEvents)
  <2> DEFINE rest == MaxSockets * left.losses
             most == MaxSockets * MaxEvents
  <2>1. rest \in Nat /\ most \in Nat
    BY <1>1, BoundTypes
  <2>2. timers \in Nat /\ timers + rest <= most
    BY DEF Inv, LinkInv
  <2> HIDE DEF rest, most
  <2>3. timers \in 0..most
    BY <2>1, <2>2
  <2> QED BY <2>3 DEF most
<1>4. /\ list_machines \in Seq(Row) /\ length \in 0..Cardinality(Machines)
      /\ Len(list_machines) \in length..Cardinality(Machines)
  BY MachinesFinite DEF Inv, RowsInv
<1>5. \A s \in Sockets : channel[s].state \in {"closed", "opening", "open"}
  BY DEF Inv, ChannelInv, Channel
<1> QED BY <1>1, <1>2, <1>3, <1>4, <1>5 DEF Inv, TableInv, ClientInv, ScopeInv, LinkInv, TypeOK

(* Every variable stays in its type: machinesPageC never shows more rows    *)
(* than there are machines, and its $scope.length never passes the rows.    *)
THEOREM ListTyped == Spec => []TypeOK
BY Invariance, InvTyped, PTL

(* The merges of whole lists by place and of changes by id, from one socket *)
(* or several, never leave a machine in two of the rows shown.              *)
THEOREM EachShownOnce == Spec => []ShownOnce
<1>1. Inv => ShownOnce
  BY DEF Inv, RowsInv
<1> QED BY <1>1, Invariance, PTL
=============================================================================
