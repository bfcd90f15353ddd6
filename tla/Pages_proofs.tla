---------------------------- MODULE Pages_proofs ----------------------------
(***************************************************************************)
(* What is proved of the composition of the pages, for every value of its   *)
(* constants.  It has three parts.                                          *)
(*                                                                          *)
(* The invariant of the lists of grants of a machine, for any groups, ids   *)
(* of grants and stories.  AccessBase is of every user: no two rows of a    *)
(* list have an id, which is what makes "the place of a row" and the        *)
(* changes of a list well defined.  PatientInv is of one who waits: a       *)
(* change is under way alone, a list that is not being loaded again is      *)
(* shown as the server has it, and so the buttons, which move a row among   *)
(* those shown, never move one past the default.                            *)
(*                                                                          *)
(* The invariant of the pages of the administrator, for any nodes, devices, *)
(* filters, files, names and backends, and any story.  AdminTypes gives the *)
(* type of all that is kept and of every call; of the pages it says that    *)
(* only that of volumes asks for volumes.  Paging is of that page when no   *)
(* volume is removed: one call is under way or all that was asked for is    *)
(* listed, and each page is asked for from the last file of the one before. *)
(*                                                                          *)
(* The theorems of Spec: each page leaves the two others alone, so that     *)
(* these invariants and that of Booking_proofs are of their own page.       *)
(***************************************************************************)
EXTENDS Pages, Booking_proofs

-----------------------------------------------------------------------------
(* THE LISTS OF GRANTS.                                                     *)

(* A call under way, and what its fields are.                               *)
AccessCall ==
    [op: Changes \cup Loads \cup {"grant", "revoke", "share", "unshare", "attach", "detach"},
     on: Topics, arg: (0..MaxRows) \cup Groups \cup {Undef},
     more: BOOLEAN \cup (BOOLEAN \X BOOLEAN) \cup {-1, 0, 1}, answered: BOOLEAN,
     data: Seq(Row) \cup (SUBSET Groups) \cup Groups]
AccessCallOK(c) ==
    /\ c.op \in Changes \cup {"list", "check"} => c.on \in Kinds
    /\ c.op = "add" => c.arg \in 1..MaxRows /\ c.more \in BOOLEAN
    /\ c.op \in {"delete", "move", "set"} => c.arg \in 0..MaxRows
    /\ c.op = "move" => c.more \in {-1, 1}
    /\ c.op = "set" => c.more \in BOOLEAN \X BOOLEAN
    /\ c.op \in {"grant", "share", "search"} => c.arg \in Groups
    /\ c.answered /\ c.op \in {"list", "check"} => c.data \in Seq(Row)
    /\ c.answered /\ c.op \in {"groups", "shares"} => c.data \in SUBSET Groups
    /\ c.answered /\ c.op = "search" => c.data \in Groups

(* No two rows of a list have an id, nor will the next ones have a taken one. *)
Ids(list) == {list[i].id : i \in DOMAIN list}
Unique(list) == \A i, j \in DOMAIN list : list[i].id = list[j].id => i = j
StarLast(list) == \A i \in Places(list, Star) : i = Len(list)
Adding(c) == c.op = "add" /\ ~c.answered
AddsNew ==
    /\ \A i \in DOMAIN asked : Adding(asked[i]) => \A k \in Kinds : asked[i].arg \notin Ids(rows[k])
    /\ \A i, j \in DOMAIN asked :
            Adding(asked[i]) /\ Adding(asked[j]) /\ asked[i].arg = asked[j].arg => i = j
AskedOK == asked \in Seq(AccessCall) /\ \A i \in DOMAIN asked : AccessCallOK(asked[i])
RowsOK == \A k \in Kinds : Unique(rows[k])
AccessBase == AccessTypeOK /\ AskedOK /\ RowsOK /\ AddsNew

(* Of a patient user: a change is under way alone; a row that moves does not *)
(* change places with the default; and each list that is not being loaded   *)
(* again is shown as the server has it.                                     *)
MoveOK(c) ==
    c.op = "move" /\ ~c.answered =>
        \A i \in Places(rows[c.on], c.arg) :
            /\ c.arg # Star
            /\ i + c.more \in DOMAIN rows[c.on] => rows[c.on][i + c.more].id # Star
ListOK(c) == c.op = "list" /\ c.answered => c.data = rows[c.on]
Reloads(c, k) == c.on = k /\ (c.op = "list" \/ (c.op \in Changes /\ c.answered))
Reloading(k) == \E i \in DOMAIN asked : Reloads(asked[i], k)
Whole(list, shown, default) ==
    IF default = NoRow THEN shown = list /\ Star \notin Ids(list)
    ELSE default.id = Star /\ shown \o <<default>> = list
ShownWhole(k) == Whole(rows[k], access_list[k], access_default[k])
PatientInv ==
    /\ \A k \in Kinds : StarLast(rows[k])
    /\ \A i \in DOMAIN asked : asked[i].op \in Changes => Len(asked) = 1
    /\ \A i \in DOMAIN asked : MoveOK(asked[i]) /\ ListOK(asked[i])
    /\ \A k \in Kinds : Reloading(k) \/ ShownWhole(k)
Waits == access_left.hasty = 0
AccessInv == AccessBase /\ (Waits => PatientInv)

-----------------------------------------------------------------------------
(* What the changes of a list leave of it.                                  *)
LEMMA RowFacts == ASSUME NEW r \in Row
                  PROVE  r.id \in 0..MaxRows /\ r.allowed \in BOOLEAN /\ r.last \in BOOLEAN /\ r # NoRow
BY AccessAssumption DEF Row, NoRow

(* Without takes one row, if any, and leaves the rest in their order.        *)
LEMMA WithoutFacts ==
    ASSUME NEW list \in Seq(Row), Unique(list), NEW at \in SUBSET DOMAIN list
    PROVE  /\ Without(list, at) \in Seq(Row)
           /\ Unique(Without(list, at))
           /\ Ids(Without(list, at)) \subseteq Ids(list)
           /\ StarLast(list) => StarLast(Without(list, at))
           /\ at # {} => list[CHOOSE i \in at : TRUE].id \notin Ids(Without(list, at))
<1>1. CASE at = {}
    BY <1>1 DEF Without
<1>2. CASE at # {}
    <2> DEFINE i == CHOOSE i \in at : TRUE
               s == RemoveAt(list, i)
    <2>1. i \in 1..Len(list) /\ DOMAIN list = 1..Len(list) /\ Len(list) \in Nat
        BY <1>2
    <2>2. Without(list, at) = s
        BY <1>2 DEF Without
    <2> HIDE DEF i
    <2>3. /\ s \in Seq(Row) /\ Len(s) = Len(list) - 1
          /\ \A k \in 1..Len(list) - 1 : s[k] = list[IF k < i THEN k ELSE k + 1]
        BY <2>1, RemoveAtFacts
    <2> HIDE DEF s
    <2>4. DOMAIN s = 1..Len(list) - 1
        BY <2>3
    <2>5. \A k \in DOMAIN s : \E n \in DOMAIN list : s[k] = list[n] /\ n \in {k, k + 1} /\ n # i /\ (n = k <=> k < i)
        BY <2>1, <2>3, <2>4
    <2>6. Unique(s)
        <3> SUFFICES ASSUME NEW j \in DOMAIN s, NEW k \in DOMAIN s, s[j].id = s[k].id PROVE j = k
            BY DEF Unique
        <3>1. s[j] = list[IF j < i THEN j ELSE j + 1] /\ s[k] = list[IF k < i THEN k ELSE k + 1]
            BY <2>3, <2>4
        <3>2. (IF j < i THEN j ELSE j + 1) = (IF k < i THEN k ELSE k + 1)
            BY <3>1, <2>1, <2>4 DEF Unique
        <3> QED BY <3>2, <2>1, <2>4
    <2>7. Ids(s) \subseteq Ids(list)
        BY <2>5 DEF Ids
    <2>8. StarLast(list) => StarLast(s)
        BY <2>1, <2>3, <2>4, <2>5 DEF StarLast, Places
    <2>9. list[i].id \notin Ids(s)
        BY <2>1, <2>5 DEF Ids, Unique
    <2> QED BY <2>2, <2>3, <2>6, <2>7, <2>8, <2>9 DEF i
<1> QED BY <1>1, <1>2

LEMMA DeletedFacts ==
    ASSUME NEW list \in Seq(Row), Unique(list), NEW id
    PROVE  /\ Deleted(list, id) \in Seq(Row)
           /\ Unique(Deleted(list, id))
           /\ Ids(Deleted(list, id)) \subseteq Ids(list)
           /\ StarLast(list) => StarLast(Deleted(list, id))
<1> DEFINE s == Without(list, Places(list, id))
<1>1. /\ s \in Seq(Row) /\ Unique(s) /\ Ids(s) \subseteq Ids(list)
      /\ StarLast(list) => StarLast(s)
    <2>1. Places(list, id) \in SUBSET DOMAIN list
        BY DEF Places
    <2> QED BY <2>1, WithoutFacts
<1>2. Deleted(list, id) = IF Len(s) = 1 /\ s[1].id = Star THEN <<>> ELSE s
    BY DEF Deleted
<1> HIDE DEF s
<1>3. <<>> \in Seq(Row) /\ Unique(<<>>) /\ Ids(<<>>) = {} /\ StarLast(<<>>)
    BY DEF Unique, Ids, StarLast, Places
<1> QED BY <1>1, <1>2, <1>3

(* Two rows change places; the default keeps its own.                       *)
LEMMA SwapFacts ==
    ASSUME NEW list \in Seq(Row), NEW i \in DOMAIN list, NEW j \in DOMAIN list
    PROVE  /\ Swap(list, i, j) \in Seq(Row)
           /\ Len(Swap(list, i, j)) = Len(list)
           /\ DOMAIN Swap(list, i, j) = DOMAIN list
           /\ \A k \in DOMAIN list :
                Swap(list, i, j)[k] = list[IF k = j THEN i ELSE IF k = i THEN j ELSE k]
           /\ Ids(Swap(list, i, j)) \subseteq Ids(list)
           /\ Unique(list) => Unique(Swap(list, i, j))
           /\ StarLast(list) /\ list[i].id # Star /\ list[j].id # Star => StarLast(Swap(list, i, j))
<1> DEFINE s == Swap(list, i, j)
<1>1. /\ s \in Seq(Row) /\ Len(s) = Len(list) /\ DOMAIN s = DOMAIN list
      /\ \A k \in DOMAIN list : s[k] = list[IF k = j THEN i ELSE IF k = i THEN j ELSE k]
    BY DEF Swap
<1> HIDE DEF s
<1>2. Ids(s) \subseteq Ids(list)
    BY <1>1 DEF Ids
<1>3. ASSUME Unique(list) PROVE Unique(s)
    <2> SUFFICES ASSUME NEW k \in DOMAIN s, NEW n \in DOMAIN s, s[k].id = s[n].id PROVE k = n
        BY DEF Unique
    <2>1. (IF k = j THEN i ELSE IF k = i THEN j ELSE k) = (IF n = j THEN i ELSE IF n = i THEN j ELSE n)
        BY <1>1, <1>3 DEF Unique
    <2> QED BY <2>1
<1>4. StarLast(list) /\ list[i].id # Star /\ list[j].id # Star => StarLast(s)
    BY <1>1 DEF StarLast, Places
<1> QED BY <1>1, <1>2, <1>3, <1>4 DEF s

LEMMA AppendRow ==
    ASSUME NEW list \in Seq(Row), NEW row \in Row, Unique(list), row.id \notin Ids(list)
    PROVE  /\ Append(list, row) \in Seq(Row)
           /\ Len(Append(list, row)) = Len(list) + 1
           /\ \A i \in 1..Len(list) : Append(list, row)[i] = list[i]
           /\ Append(list, row)[Len(list) + 1] = row
           /\ Unique(Append(list, row))
           /\ Ids(Append(list, row)) = Ids(list) \cup {row.id}
           /\ row.id = Star => StarLast(Append(list, row))
<1> DEFINE s == Append(list, row)
<1>1. /\ s \in Seq(Row) /\ Len(s) = Len(list) + 1 /\ s[Len(list) + 1] = row
      /\ \A i \in 1..Len(list) : s[i] = list[i]
      /\ DOMAIN s = 1..Len(list) + 1 /\ DOMAIN list = 1..Len(list) /\ Len(list) \in Nat
    OBVIOUS
<1> HIDE DEF s
<1>2. \A i \in 1..Len(list) : list[i].id # row.id
    BY <1>1 DEF Ids
<1>3. Unique(s)
    BY <1>1, <1>2 DEF Unique
<1>4. Ids(s) = Ids(list) \cup {row.id}
    <2>1. \A i \in DOMAIN s : s[i].id \in Ids(list) \cup {row.id}
        BY <1>1 DEF Ids
    <2>2. row.id \in Ids(s) /\ \A i \in DOMAIN list : list[i].id \in Ids(s)
        BY <1>1 DEF Ids
    <2> QED BY <2>1, <2>2 DEF Ids
<1>5. row.id = Star => StarLast(s)
    BY <1>1, <1>2 DEF StarLast, Places
<1> QED BY <1>1, <1>3, <1>4, <1>5 DEF s

(* A grant more, and the default, which is there from now on, at its end.   *)
LEMMA AddedFacts ==
    ASSUME NEW list \in Seq(Row), Unique(list), NEW k \in Kinds,
           NEW row \in Row, row.id # Star, row.id \notin Ids(list)
    PROVE  /\ Added(list, k, row) \in Seq(Row)
           /\ Unique(Added(list, k, row))
           /\ Ids(Added(list, k, row)) \subseteq Ids(list) \cup {row.id, Star}
           /\ StarLast(list) => StarLast(Added(list, k, row))
<1> DEFINE longer == Append(list, row)
           at == Places(longer, Star)
           i == CHOOSE i \in at : TRUE
           s == Added(list, k, row)
<1>1. /\ longer \in Seq(Row) /\ Len(longer) = Len(list) + 1 /\ Len(list) \in Nat
      /\ \A n \in 1..Len(list) : longer[n] = list[n]
      /\ longer[Len(list) + 1] = row
      /\ Unique(longer) /\ Ids(longer) = Ids(list) \cup {row.id}
    BY AppendRow
<1>2. s = IF at = {} THEN Append(longer, NewDefault(k, row))
          ELSE IF k = "ldap" THEN Swap(longer, i, i + 1)
          ELSE Append(RemoveAt(longer, i), longer[i])
    BY DEF Added, FixedDefault
<1> HIDE DEF longer, s
<1>3. CASE at = {}
    <2>1. NewDefault(k, row) \in Row /\ NewDefault(k, row).id = Star
        BY AccessAssumption, RowFacts DEF NewDefault, Row, Star
    <2>2. Star \notin Ids(longer)
        BY <1>3 DEF Places, Ids
    <2>3. s = Append(longer, NewDefault(k, row))
        BY <1>2, <1>3
    <2>4. /\ s \in Seq(Row) /\ Unique(s) /\ Ids(s) = Ids(longer) \cup {Star} /\ StarLast(s)
        BY <1>1, <2>1, <2>2, <2>3, AppendRow
    <2> QED BY <1>1, <2>4 DEF s
<1>4. CASE at # {}
    <2>1. i \in at
        BY <1>4
    <2>2. i \in DOMAIN longer /\ longer[i].id = Star /\ at = {i}
        BY <2>1, <1>1 DEF Places, Unique
    <2>3. i \in 1..Len(list)
        BY <2>2, <1>1
    <2>4. longer[i] \in Row
        BY <1>1, <2>2
    <2>5. CASE k = "ldap"
        <3>1. s = Swap(longer, i, i + 1)
            BY <1>2, <1>4, <2>5
        <3> HIDE DEF i
        <3>2. i + 1 \in DOMAIN longer
            BY <1>1, <2>3
        <3>3. /\ s \in Seq(Row) /\ Unique(s) /\ Ids(s) \subseteq Ids(longer)
              /\ Len(s) = Len(longer) /\ DOMAIN s = DOMAIN longer
              /\ \A n \in DOMAIN longer :
                    s[n] = longer[IF n = i + 1 THEN i ELSE IF n = i THEN i + 1 ELSE n]
            <4> DEFINE j == i + 1
            <4> HIDE DEF at
            <4>1. i \in DOMAIN longer /\ j \in DOMAIN longer /\ s = Swap(longer, i, j)
                BY <2>2, <3>1, <3>2
            <4> HIDE DEF j
            <4>2. /\ s \in Seq(Row) /\ Unique(s) /\ Ids(s) \subseteq Ids(longer)
                  /\ Len(s) = Len(longer) /\ DOMAIN s = DOMAIN longer
                  /\ \A n \in DOMAIN longer :
                        s[n] = longer[IF n = j THEN i ELSE IF n = i THEN j ELSE n]
                <5>1. longer \in Seq(Row) /\ Unique(longer)
                    BY <1>1
                <5>2. /\ Swap(longer, i, j) \in Seq(Row)
                      /\ Len(Swap(longer, i, j)) = Len(longer)
                      /\ DOMAIN Swap(longer, i, j) = DOMAIN longer
                      /\ \A n \in DOMAIN longer :
                           Swap(longer, i, j)[n] = longer[IF n = j THEN i ELSE IF n = i THEN j ELSE n]
                      /\ Ids(Swap(longer, i, j)) \subseteq Ids(longer)
                      /\ Unique(longer) => Unique(Swap(longer, i, j))
                    BY <4>1, <5>1, SwapFacts
                <5> QED BY <5>1, <5>2, <4>1
            <4> QED BY <4>2 DEF j
        <3>4. ASSUME StarLast(list) PROVE StarLast(s)
            <4>1. i = Len(list)
                BY <3>4, <2>2, <2>3, <1>1 DEF StarLast, Places
            <4>2. \A n \in DOMAIN s : s[n].id = Star => n = i + 1
                BY <3>2, <3>3, <2>2, <1>1 DEF Unique
            <4> QED BY <4>1, <4>2, <3>3, <1>1 DEF StarLast, Places
        <3> QED BY <3>3, <3>4, <1>1 DEF s
    <2>6. CASE k # "ldap"
        <3>1. /\ s = Append(RemoveAt(longer, i), longer[i])
              /\ RemoveAt(longer, i) = Without(longer, at)
            BY <1>2, <1>4, <2>6 DEF Without
        <3> HIDE DEF i
        <3>2. /\ RemoveAt(longer, i) \in Seq(Row) /\ Unique(RemoveAt(longer, i))
              /\ Ids(RemoveAt(longer, i)) \subseteq Ids(longer)
              /\ longer[i].id \notin Ids(RemoveAt(longer, i))
            <4>1. at \in SUBSET DOMAIN longer
                BY DEF Places
            <4>2. (CHOOSE n \in at : TRUE) = i
                BY DEF i
            <4> HIDE DEF at
            <4> QED BY <1>1, <1>4, <3>1, <4>1, <4>2, WithoutFacts
        <3> DEFINE rest == RemoveAt(longer, i)
                   star == longer[i]
        <3>3. rest \in Seq(Row) /\ Unique(rest) /\ star \in Row /\ star.id = Star /\ star.id \notin Ids(rest)
            BY <3>2, <2>2, <2>4
        <3>4. s = Append(rest, star) /\ Ids(rest) \subseteq Ids(list) \cup {row.id}
            BY <3>1, <3>2, <1>1
        <3> HIDE DEF rest, star
        <3>5. s \in Seq(Row) /\ Unique(s) /\ Ids(s) = Ids(rest) \cup {Star} /\ StarLast(s)
            BY <3>3, <3>4, AppendRow
        <3> QED BY <3>4, <3>5 DEF s
    <2> QED BY <2>5, <2>6
<1> QED BY <1>3, <1>4 DEF s

(* A change of a call that does not fail, to a list that has no two rows of *)
(* an id.                                                                   *)
LEMMA ChangedFacts ==
    ASSUME rows \in [Kinds -> Seq(Row)], NEW c, c.op \in Changes, AccessCallOK(c), ~Fails(c),
           Unique(rows[c.on]), c.op = "add" => c.arg \notin Ids(rows[c.on])
    PROVE  /\ Changed(c) \in Seq(Row)
           /\ Unique(Changed(c))
           /\ Ids(Changed(c)) \subseteq Ids(rows[c.on]) \cup {Star} \cup (IF c.op = "add" THEN {c.arg} ELSE {})
           /\ StarLast(rows[c.on]) /\ (~c.answered => MoveOK(c)) /\ ~c.answered => StarLast(Changed(c))
<1> DEFINE list == rows[c.on]
<1>1. c.on \in Kinds /\ list \in Seq(Row) /\ c.op \in {"add", "delete", "move", "set"}
    BY DEF AccessCallOK, Changes
<1>2. CASE c.op = "add"
    <2> DEFINE row == [id |-> c.arg, allowed |-> c.more, last |-> TRUE]
    <2>1. Changed(c) = Added(list, c.on, row)
        BY <1>2 DEF Changed
    <2>2. row \in Row /\ row.id = c.arg /\ row.id # Star
        BY <1>2, AccessAssumption DEF AccessCallOK, Row, Star
    <2> HIDE DEF row
    <2> QED BY <1>1, <1>2, <2>1, <2>2, AddedFacts
<1>3. CASE c.op = "delete"
    <2>1. Changed(c) = Deleted(list, c.arg)
        BY <1>3 DEF Changed
    <2> QED BY <1>1, <1>3, <2>1, DeletedFacts
<1>4. CASE c.op = "move"
    <2> DEFINE i == CHOOSE i \in Places(list, c.arg) : TRUE
    <2>1. Changed(c) = Swap(list, i, i + c.more)
        BY <1>4 DEF Changed
    <2>2. i \in Places(list, c.arg) /\ i + c.more \in DOMAIN list
        <3>1. PICK n \in Places(list, c.arg) : n + c.more \in DOMAIN list
            BY <1>4 DEF Fails
        <3>2. i \in Places(list, c.arg)
            BY <3>1
        <3>3. i = n
            BY <3>1, <3>2 DEF Places, Unique
        <3> QED BY <3>1, <3>2, <3>3
    <2>3. i \in DOMAIN list /\ list[i].id = c.arg
        BY <2>2 DEF Places
    <2> HIDE DEF i
    <2>4. ~c.answered /\ MoveOK(c) => list[i].id # Star /\ list[i + c.more].id # Star
        BY <1>4, <2>2, <2>3 DEF MoveOK
    <2> QED BY <1>1, <1>4, <2>1, <2>2, <2>3, <2>4, SwapFacts
<1>5. CASE c.op = "set"
    <2> DEFINE at(i) == IF list[i].id = c.arg
                        THEN [list[i] EXCEPT !.allowed = c.more[1], !.last = c.more[2]]
                        ELSE list[i]
               s == [i \in DOMAIN list |-> at(i)]
    <2>1. Changed(c) = s
        BY <1>5 DEF Changed
    <2>2. \A i \in DOMAIN list : at(i) \in Row /\ at(i).id = list[i].id
        <3> TAKE i \in DOMAIN list
        <3>1. list[i] \in Row
            BY <1>1
        <3>2. c.more[1] \in BOOLEAN /\ c.more[2] \in BOOLEAN
            BY <1>5 DEF AccessCallOK
        <3> QED BY <3>1, <3>2 DEF Row
    <2> HIDE DEF at
    <2>3. s \in Seq(Row) /\ Len(s) = Len(list) /\ DOMAIN s = DOMAIN list
          /\ \A i \in DOMAIN list : s[i].id = list[i].id
        BY <1>1, <2>2
    <2> HIDE DEF s
    <2>4. Unique(s) /\ Ids(s) \subseteq Ids(list) /\ (StarLast(list) => StarLast(s))
        BY <2>3 DEF Unique, Ids, StarLast, Places
    <2> QED BY <2>1, <2>3, <2>4, <1>5
<1> QED BY <1>1, <1>2, <1>3, <1>4, <1>5

(* What the page makes of a list: the default taken apart, put back at the  *)
(* end, is the list.                                                        *)
LEMMA ShowFacts ==
    ASSUME NEW k \in Kinds, NEW list \in Seq(Row), NEW at, at = DefaultPlaces(list, k),
           NEW default, default = IF at = {} THEN NoRow ELSE list[CHOOSE i \in at : TRUE]
    PROVE  /\ Without(list, at) \in Seq(Row)
           /\ default \in Row \cup {NoRow}
           /\ StarLast(list) => Whole(list, Without(list, at), default)
<1>1. at \in SUBSET Places(list, Star) /\ Places(list, Star) \in SUBSET DOMAIN list
    BY DEF DefaultPlaces, Places
<1>2. StarLast(list) => at = Places(list, Star)
    BY DEF DefaultPlaces, StarLast
<1>3. CASE at = {}
    BY <1>1, <1>2, <1>3 DEF Without, Whole, Places, Ids
<1>4. CASE at # {}
    <2> DEFINE i == CHOOSE i \in at : TRUE
               s == RemoveAt(list, i)
    <2>1. i \in at /\ i \in 1..Len(list) /\ list[i].id = Star /\ list[i] \in Row
        BY <1>1, <1>4 DEF Places
    <2>2. default = list[i] /\ Without(list, at) = s
        BY <1>4 DEF Without
    <2> HIDE DEF i
    <2>3. /\ s \in Seq(Row) /\ Len(s) = Len(list) - 1 /\ Len(list) \in Nat /\ DOMAIN list = 1..Len(list)
          /\ \A n \in 1..Len(list) - 1 : s[n] = list[IF n < i THEN n ELSE n + 1]
        BY <2>1, RemoveAtFacts
    <2> HIDE DEF s
    <2>4. ASSUME StarLast(list) PROVE s \o <<list[i]>> = list
        <3>1. i = Len(list)
            BY <2>1, <2>4, <1>1 DEF StarLast
        <3> DEFINE t == <<list[i]>>
        <3>2. t \in Seq(Row) /\ Len(t) = 1 /\ t[1] = list[i]
            BY <2>1
        <3> HIDE DEF t
        <3>3. /\ s \o t \in Seq(Row) /\ Len(s \o t) = Len(s) + Len(t)
              /\ \A n \in 1..Len(s) + Len(t) : (s \o t)[n] = IF n <= Len(s) THEN s[n] ELSE t[n - Len(s)]
            BY <2>3, <3>2, ConcatProperties
        <3>4. Len(s \o t) = Len(list) /\ \A n \in 1..Len(list) : (s \o t)[n] = list[n]
            BY <3>1, <3>2, <3>3, <2>3
        <3>5. s \o t = list
            <4> DEFINE u == s \o t
            <4>1. u \in Seq(Row) /\ Len(u) = Len(list) /\ \A n \in 1..Len(list) : u[n] = list[n]
                BY <3>3, <3>4
            <4> HIDE DEF u
            <4>2. u = list
                BY <4>1, SeqEqual
            <4> QED BY <4>2 DEF u
        <3> QED BY <3>5 DEF t
    <2>5. list[i] # NoRow
        BY <2>1, RowFacts
    <2> QED BY <2>1, <2>2, <2>3, <2>4, <2>5 DEF Whole
<1> QED BY <1>3, <1>4

-----------------------------------------------------------------------------
(* The calls under way.                                                     *)
Ops == Changes \cup Loads \cup {"grant", "revoke", "share", "unshare", "attach", "detach"}

LEMMA AskType ==
    ASSUME NEW op \in Ops, NEW on \in Topics, NEW arg \in (0..MaxRows) \cup Groups \cup {Undef},
           NEW more \in BOOLEAN \cup (BOOLEAN \X BOOLEAN) \cup {-1, 0, 1}
    PROVE  /\ Ask(op, on, arg, more) \in AccessCall
           /\ Ask(op, on, arg, more).op = op /\ Ask(op, on, arg, more).on = on
           /\ Ask(op, on, arg, more).arg = arg /\ Ask(op, on, arg, more).more = more
           /\ ~Ask(op, on, arg, more).answered
<1>1. <<>> \in Seq(Row)
    OBVIOUS
<1> QED BY <1>1 DEF Ask, AccessCall, Ops

LEMMA LoadType ==
    ASSUME NEW op \in Ops, NEW on \in Topics
    PROVE  /\ Load(op, on) \in AccessCall
           /\ Load(op, on).op = op /\ Load(op, on).on = on /\ ~Load(op, on).answered
<1>1. 0 \in (0..MaxRows) \cup Groups \cup {Undef}
    BY AccessAssumption
<1> QED BY <1>1, AskType DEF Load

LEMMA OneAsked ==
    ASSUME NEW c \in AccessCall
    PROVE  <<c>> \in Seq(AccessCall) /\ Len(<<c>>) = 1 /\ DOMAIN <<c>> = {1} /\ <<c>>[1] = c
OBVIOUS

LEMMA TwoAsked ==
    ASSUME NEW c \in AccessCall, NEW d \in AccessCall
    PROVE  /\ <<c, d>> \in Seq(AccessCall) /\ Len(<<c, d>>) = 2 /\ DOMAIN <<c, d>> = {1, 2}
           /\ <<c, d>>[1] = c /\ <<c, d>>[2] = d
OBVIOUS

(* The loads that follow a call.                                            *)
LEMMA ReloadType ==
    ASSUME NEW c \in AccessCall, AccessCallOK(c)
    PROVE  /\ Reload(c) \in Seq(AccessCall)
           /\ \A m \in DOMAIN Reload(c) :
                /\ Reload(c)[m].op \in Loads \ {"search"} /\ ~Reload(c)[m].answered
                /\ Reload(c)[m].on = c.on /\ AccessCallOK(Reload(c)[m])
           /\ c.op \in Changes => /\ 1 \in DOMAIN Reload(c)
                                  /\ Reload(c)[1].op = "list"
<1>0. c.op \in Ops /\ c.on \in Topics
    BY DEF AccessCall, Ops
<1>1. CASE c.op \in Changes
    <2> DEFINE l == Load("list", c.on)
               h == Load("check", c.on)
    <2>1. /\ l \in AccessCall /\ l.op = "list" /\ l.on = c.on /\ ~l.answered
          /\ h \in AccessCall /\ h.op = "check" /\ h.on = c.on /\ ~h.answered
        BY <1>0, LoadType DEF Ops, Loads
    <2>2. Reload(c) = <<l, h>>
        BY <1>1 DEF Reload, Changes
    <2>3. c.on \in Kinds
        BY <1>1 DEF AccessCallOK
    <2> HIDE DEF l, h
    <2>4. AccessCallOK(l) /\ AccessCallOK(h)
        BY <2>1, <2>3 DEF AccessCallOK, Changes
    <2> QED BY <2>1, <2>2, <2>4, TwoAsked DEF Loads
<1>2. CASE c.op \in {"grant", "revoke"}
    <2> DEFINE l == Load("groups", c.on)
    <2>1. l \in AccessCall /\ l.op = "groups" /\ l.on = c.on /\ ~l.answered
        BY <1>0, LoadType DEF Ops, Loads
    <2>2. Reload(c) = <<l>> /\ c.op \notin Changes
        BY <1>2 DEF Reload, Changes
    <2> HIDE DEF l
    <2>3. AccessCallOK(l)
        BY <2>1 DEF AccessCallOK, Changes
    <2> QED BY <2>1, <2>2, <2>3, OneAsked DEF Loads
<1>3. CASE c.op \in {"share", "unshare"}
    <2> DEFINE l == Load("shares", c.on)
    <2>1. l \in AccessCall /\ l.op = "shares" /\ l.on = c.on /\ ~l.answered
        BY <1>0, LoadType DEF Ops, Loads
    <2>2. Reload(c) = <<l>> /\ c.op \notin Changes
        BY <1>3 DEF Reload, Changes
    <2> HIDE DEF l
    <2>3. AccessCallOK(l)
        BY <2>1 DEF AccessCallOK, Changes
    <2> QED BY <2>1, <2>2, <2>3, OneAsked DEF Loads
<1>4. CASE c.op \notin Changes \cup {"grant", "revoke", "share", "unshare"}
    <2>1. Reload(c) = <<>>
        BY <1>4 DEF Reload
    <2> QED BY <2>1, <1>4
<1> QED BY <1>0, <1>1, <1>2, <1>3, <1>4

(* What comes after what is under way.                                      *)
LEMMA ConcatFacts ==
    ASSUME NEW S, NEW s \in Seq(S), NEW more \in Seq(S)
    PROVE  /\ s \o more \in Seq(S)
           /\ Len(s \o more) = Len(s) + Len(more)
           /\ \A n \in DOMAIN s : n \in DOMAIN (s \o more) /\ (s \o more)[n] = s[n]
           /\ \A m \in DOMAIN more :
                Len(s) + m \in DOMAIN (s \o more) /\ (s \o more)[Len(s) + m] = more[m]
           /\ \A n \in DOMAIN (s \o more) :
                n \in DOMAIN s \/ \E m \in DOMAIN more : n = Len(s) + m
<1> DEFINE t == s \o more
<1>1. /\ t \in Seq(S) /\ Len(t) = Len(s) + Len(more)
      /\ \A n \in 1..Len(s) + Len(more) : t[n] = IF n <= Len(s) THEN s[n] ELSE more[n - Len(s)]
    BY ConcatProperties
<1> HIDE DEF t
<1>2. /\ DOMAIN s = 1..Len(s) /\ Len(s) \in Nat /\ DOMAIN more = 1..Len(more) /\ Len(more) \in Nat
      /\ DOMAIN t = 1..Len(s) + Len(more)
    BY <1>1
<1>3. \A n \in DOMAIN s : n \in DOMAIN t /\ t[n] = s[n]
    BY <1>1, <1>2
<1>4. \A m \in DOMAIN more : Len(s) + m \in DOMAIN t /\ t[Len(s) + m] = more[m]
    <2> TAKE m \in DOMAIN more
    <2>1. Len(s) + m \in 1..Len(s) + Len(more) /\ ~(Len(s) + m <= Len(s)) /\ Len(s) + m - Len(s) = m
        BY <1>2
    <2> QED BY <1>1, <1>2, <2>1
<1>5. \A n \in DOMAIN t : n \in DOMAIN s \/ \E m \in DOMAIN more : n = Len(s) + m
    <2> TAKE n \in DOMAIN t
    <2>1. n \notin DOMAIN s => n - Len(s) \in DOMAIN more /\ n = Len(s) + (n - Len(s))
        BY <1>2
    <2> QED BY <2>1
<1> QED BY <1>1, <1>3, <1>4, <1>5 DEF t

(* The calls of a click are added to those under way.                       *)
LEMMA PostedFacts ==
    ASSUME AskedOK, AddsNew, NEW more \in Seq(AccessCall), asked' = asked \o more, rows' = rows,
           \A m \in DOMAIN more : AccessCallOK(more[m]),
           \A m \in DOMAIN more : more[m].op = "add" =>
                /\ Len(more) = 1
                /\ \A k \in Kinds : more[m].arg \notin Ids(rows[k])
                /\ \A i \in DOMAIN asked : asked[i].op = "add" => asked[i].arg # more[m].arg
    PROVE  AskedOK' /\ AddsNew'
<1> DEFINE t == asked \o more
<1>1. /\ t \in Seq(AccessCall) /\ Len(t) = Len(asked) + Len(more)
      /\ \A n \in DOMAIN asked : n \in DOMAIN t /\ t[n] = asked[n]
      /\ \A m \in DOMAIN more : Len(asked) + m \in DOMAIN t /\ t[Len(asked) + m] = more[m]
      /\ \A n \in DOMAIN t : n \in DOMAIN asked \/ \E m \in DOMAIN more : n = Len(asked) + m
    BY ConcatFacts DEF AskedOK
<1> HIDE DEF t
<1>2. asked' = t
    BY DEF t
<1>3. AskedOK'
    BY <1>1, <1>2 DEF AskedOK, AccessCallOK
<1>4. \A n \in DOMAIN t : Adding(t[n]) => \A k \in Kinds : t[n].arg \notin Ids(rows[k])
    BY <1>1 DEF AddsNew, Adding
<1>5. ASSUME NEW i \in DOMAIN t, NEW j \in DOMAIN t, Adding(t[i]), Adding(t[j]), t[i].arg = t[j].arg
      PROVE  i = j
    <2>1. CASE i \in DOMAIN asked /\ j \in DOMAIN asked
        BY <2>1, <1>1, <1>5 DEF AddsNew
    <2>2. ASSUME NEW m \in DOMAIN more, i = Len(asked) + m PROVE i = j
        <3>1. m = 1 /\ DOMAIN more = {1} /\ more[m].op = "add" /\ t[i] = more[m]
            BY <2>2, <1>1, <1>5 DEF Adding
        <3>2. j \notin DOMAIN asked
            BY <3>1, <1>1, <1>5 DEF Adding
        <3> QED BY <3>1, <3>2, <1>1, <2>2
    <2>3. ASSUME NEW m \in DOMAIN more, j = Len(asked) + m PROVE i = j
        <3>1. m = 1 /\ DOMAIN more = {1} /\ more[m].op = "add" /\ t[j] = more[m]
            BY <2>3, <1>1, <1>5 DEF Adding
        <3>2. i \notin DOMAIN asked
            BY <3>1, <1>1, <1>5 DEF Adding
        <3> QED BY <3>1, <3>2, <1>1, <2>3
    <2> QED BY <2>1, <2>2, <2>3, <1>1
<1> QED BY <1>2, <1>3, <1>4, <1>5 DEF AddsNew

(* An answer is taken from them, and the loads that follow are added.       *)
LEMMA AnsweredFacts ==
    ASSUME AskedOK, AddsNew, NEW i \in DOMAIN asked, NEW more \in Seq(AccessCall),
           asked' = RemoveAt(asked, i) \o more, rows' = rows,
           \A m \in DOMAIN more : AccessCallOK(more[m]) /\ more[m].op # "add"
    PROVE  /\ AskedOK' /\ AddsNew'
           /\ Len(asked') = Len(asked) - 1 + Len(more)
           /\ \A n \in DOMAIN asked' :
                \/ \E m \in DOMAIN asked \ {i} : asked'[n] = asked[m]
                \/ \E m \in DOMAIN more : asked'[n] = more[m]
           /\ \A m \in DOMAIN asked \ {i} : \E n \in DOMAIN asked' : asked'[n] = asked[m]
           /\ \A m \in DOMAIN more : \E n \in DOMAIN asked' : asked'[n] = more[m]
<1> DEFINE rest == RemoveAt(asked, i)
           t == rest \o more
<1>0. rest \in Seq(AccessCall)
    BY RemoveAtFrom DEF AskedOK
<1>1. Len(rest) = Len(asked) - 1 /\ IsRest(rest, asked, i)
    BY RemoveAtFrom DEF AskedOK
<1>2. asked' = t
    OBVIOUS
<1> HIDE DEF rest
<1>3. /\ t \in Seq(AccessCall) /\ Len(t) = Len(rest) + Len(more)
      /\ \A n \in DOMAIN rest : n \in DOMAIN t /\ t[n] = rest[n]
      /\ \A m \in DOMAIN more : Len(rest) + m \in DOMAIN t /\ t[Len(rest) + m] = more[m]
      /\ \A n \in DOMAIN t : n \in DOMAIN rest \/ \E m \in DOMAIN more : n = Len(rest) + m
    BY <1>0, ConcatFacts
<1> HIDE DEF t
<1>4. PICK from \in [DOMAIN rest -> DOMAIN asked \ {i}] :
        /\ \A n \in DOMAIN rest : rest[n] = asked[from[n]]
        /\ \A j, n \in DOMAIN rest : from[j] = from[n] => j = n
        /\ \A j \in DOMAIN asked \ {i} : \E n \in DOMAIN rest : from[n] = j
    BY <1>1 DEF IsRest
<1> HIDE DEF t
<1>5. \A n \in DOMAIN rest : n \in DOMAIN t /\ t[n] = asked[from[n]] /\ from[n] \in DOMAIN asked \ {i}
    BY <1>3, <1>4
<1>6. \A n \in DOMAIN t : \/ \E m \in DOMAIN asked \ {i} : t[n] = asked[m]
                          \/ \E m \in DOMAIN more : t[n] = more[m]
    BY <1>3, <1>5
<1>7. AskedOK'
    <2>1. \A n \in DOMAIN t : AccessCallOK(t[n])
        BY <1>6 DEF AskedOK
    <2> QED BY <1>2, <1>3, <2>1 DEF AskedOK, AccessCallOK
<1>8. \A n \in DOMAIN t : Adding(t[n]) => n \in DOMAIN rest /\ t[n] = asked[from[n]] /\ from[n] \in DOMAIN asked
    BY <1>3, <1>5 DEF Adding
<1>9. AddsNew'
    <2>1. \A n \in DOMAIN t : Adding(t[n]) => \A k \in Kinds : t[n].arg \notin Ids(rows[k])
        BY <1>8 DEF AddsNew
    <2>2. \A j, n \in DOMAIN t : Adding(t[j]) /\ Adding(t[n]) /\ t[j].arg = t[n].arg => j = n
        BY <1>4, <1>8 DEF AddsNew
    <2> QED BY <1>2, <2>1, <2>2 DEF AddsNew
<1>10. /\ \A m \in DOMAIN asked \ {i} : \E n \in DOMAIN t : t[n] = asked[m]
      /\ \A m \in DOMAIN more : \E n \in DOMAIN t : t[n] = more[m]
    <2>1. \A m \in DOMAIN asked \ {i} : \E n \in DOMAIN t : t[n] = asked[m]
        <3> TAKE m \in DOMAIN asked \ {i}
        <3>1. PICK n \in DOMAIN rest : from[n] = m
            BY <1>4
        <3> QED BY <3>1, <1>5
    <2> QED BY <2>1, <1>3
<1> QED BY <1>1, <1>2, <1>3, <1>6, <1>7, <1>9, <1>10

-----------------------------------------------------------------------------
(* What the user clicks.                                                    *)
LEMMA ClickedFacts ==
    ASSUME access_left \in AccessStory, NEW topic \in Topics, Click(topic)
    PROVE  /\ access_left' \in AccessStory
           /\ Waits' = Waits
           /\ Waits => asked = <<>>
<1>1. /\ access_left.clicks \in [Topics -> 0..MaxClicks] /\ access_left.hasty \in 0..MaxClicks
      /\ MaxClicks \in Nat
    BY AccessAssumption DEF AccessStory
<1>2. access_left.clicks[topic] \in 0..MaxClicks /\ access_left.clicks[topic] > 0
    BY <1>1 DEF Click
<1> DEFINE clicks == [access_left.clicks EXCEPT ![topic] = @ - 1]
<1>3. access_left' = [access_left EXCEPT !.clicks = clicks]
    BY DEF Click
<1>4. clicks \in [Topics -> 0..MaxClicks]
    BY <1>1, <1>2
<1> HIDE DEF clicks
<1>5. access_left' \in AccessStory /\ access_left'.hasty = access_left.hasty
    BY <1>3, <1>4 DEF AccessStory
<1>6. Waits => asked = <<>>
    BY <1>1, <1>2 DEF Click, Waits
<1> QED BY <1>5, <1>6 DEF Waits

(* With nothing under way all lists are shown whole, and stay so.           *)
LEMMA ClickStaysPatient ==
    ASSUME PatientInv, asked = <<>>, NEW more \in Seq(AccessCall), Post(more),
           UNCHANGED <<rows, access_list, access_default>>,
           \A m \in DOMAIN more : /\ ~more[m].answered /\ MoveOK(more[m])
                                  /\ more[m].op \in Changes => Len(more) = 1
    PROVE  PatientInv'
<1>1. asked' = more
    BY ConcatEmptySeq DEF Post
<1>2. \A k \in Kinds : ShownWhole(k)
    BY DEF PatientInv, Reloading
<1>3. \A k \in Kinds : ShownWhole(k)'
    BY <1>2 DEF ShownWhole
<1>4. \A m \in DOMAIN asked' : MoveOK(asked[m])' /\ ListOK(asked[m])'
    BY <1>1 DEF MoveOK, ListOK
<1> QED BY <1>1, <1>3, <1>4 DEF PatientInv

(* The rest of a click, whatever the topic: its calls are in order, and the *)
(* lists of the server and of the page as they were.                        *)
LEMMA ClickStep ==
    ASSUME AccessInv, NEW topic \in Topics, Click(topic), NEW more \in Seq(AccessCall), Post(more),
           UNCHANGED <<grants, lists>>, AccessTypeOK',
           \A m \in DOMAIN more : AccessCallOK(more[m]) /\ ~more[m].answered,
           \A m \in DOMAIN more : more[m].op = "add" =>
                /\ \A k \in Kinds : more[m].arg \notin Ids(rows[k])
                /\ \A i \in DOMAIN asked : asked[i].op = "add" => asked[i].arg # more[m].arg,
           \A m \in DOMAIN more : more[m].op \in Changes => Len(more) = 1,
           PatientInv /\ asked = <<>> => \A m \in DOMAIN more : MoveOK(more[m])
    PROVE  AccessInv'
<1>1. Waits' = Waits /\ (Waits => asked = <<>>)
    BY ClickedFacts DEF AccessInv, AccessBase, AccessTypeOK
<1>2. rows' = rows /\ access_list' = access_list /\ access_default' = access_default
    BY DEF grants, lists
<1>3. AskedOK' /\ AddsNew'
    <2>1. \A m \in DOMAIN more : more[m].op = "add" => Len(more) = 1
        BY DEF Changes
    <2> QED BY <1>2, <2>1, PostedFacts DEF Post, AccessInv, AccessBase
<1>4. RowsOK'
    BY <1>2 DEF AccessInv, AccessBase, RowsOK
<1>5. Waits' => PatientInv'
    BY <1>1, <1>2, ClickStaysPatient DEF AccessInv
<1> QED BY <1>3, <1>4, <1>5 DEF AccessInv, AccessBase

(* A row shown is a row of the server, at the same place and not the default, *)
(* when nothing is under way.                                               *)
LEMMA ShownRows ==
    ASSUME AccessBase, PatientInv, asked = <<>>, NEW k \in Kinds, NEW i \in DOMAIN access_list[k]
    PROVE  /\ i \in DOMAIN rows[k] /\ rows[k][i] = access_list[k][i]
           /\ rows[k][i].id # Star
<1>1. Whole(rows[k], access_list[k], access_default[k])
    BY DEF PatientInv, Reloading, ShownWhole
<1>2. access_list[k] \in Seq(Row) /\ rows[k] \in Seq(Row) /\ access_default[k] \in Row \cup {NoRow}
    BY DEF AccessBase, AccessTypeOK
<1>3. CASE access_default[k] = NoRow
    BY <1>1, <1>3 DEF Whole, Ids
<1>4. CASE access_default[k] # NoRow
    <2> DEFINE shown == access_list[k]
               t == <<access_default[k]>>
    <2>1. shown \in Seq(Row) /\ t \in Seq(Row) /\ Len(t) = 1
        BY <1>2, <1>4
    <2>2. shown \o t = rows[k]
        BY <1>1, <1>4 DEF Whole
    <2> HIDE DEF t, shown
    <2>3. /\ Len(shown \o t) = Len(shown) + Len(t)
          /\ \A n \in DOMAIN shown : n \in DOMAIN (shown \o t) /\ (shown \o t)[n] = shown[n]
        BY <2>1, ConcatFacts
    <2>4. i \in DOMAIN rows[k] /\ rows[k][i] = shown[i] /\ i # Len(rows[k])
        BY <2>1, <2>2, <2>3 DEF shown
    <2> QED BY <2>4 DEF PatientInv, StarLast, Places, shown
<1> QED BY <1>3, <1>4

LEMMA AddAccessStep == ASSUME AccessInv, NEW k \in Kinds, AddAccess(k) PROVE AccessInv'
<1> USE DEF AccessInv, AccessBase
<1> DEFINE free == FreeIds \ {asked[i].arg : i \in {n \in DOMAIN asked : asked[n].op = "add"}}
<1>1. PICK id \in free, allowed \in BOOLEAN : Post(<<Ask("add", k, id, allowed)>>)
    BY DEF AddAccess
<1> DEFINE c == Ask("add", k, id, allowed)
           more == <<c>>
<1>2. /\ id \in 1..MaxRows /\ \A n \in Kinds : id \notin Ids(rows[n])
      /\ \A i \in DOMAIN asked : asked[i].op = "add" => asked[i].arg # id
    <2>1. id \in FreeIds /\ \A i \in DOMAIN asked : asked[i].op = "add" => asked[i].arg # id
        OBVIOUS
    <2>2. \A n \in Kinds : \A i \in DOMAIN rows[n] : rows[n][i] \in UNION {ToSet(rows[m]) : m \in Kinds}
        BY DEF ToSet
    <2>3. \A n \in Kinds : \A i \in DOMAIN rows[n] : rows[n][i].id # id
        BY <2>1, <2>2 DEF FreeIds
    <2> QED BY <2>1, <2>3 DEF FreeIds, Ids
<1>3. /\ c \in AccessCall /\ c.op = "add" /\ c.on = k /\ c.arg = id /\ c.more = allowed /\ ~c.answered
    <2>1. /\ "add" \in Ops /\ k \in Topics /\ id \in (0..MaxRows) \cup Groups \cup {Undef}
          /\ allowed \in BOOLEAN \cup (BOOLEAN \X BOOLEAN) \cup {-1, 0, 1}
        BY <1>2, AccessAssumption DEF Ops, Changes, Topics
    <2> QED BY ONLY <2>1, AskType
<1> HIDE DEF free, c
<1>4. more \in Seq(AccessCall) /\ DOMAIN more = {1} /\ more[1] = c /\ Len(more) = 1
    BY <1>3
<1>5. AccessCallOK(c) /\ MoveOK(c)
    BY <1>2, <1>3 DEF AccessCallOK, MoveOK, Changes
<1>6. UNCHANGED <<grants, lists, names, boxes>> /\ Click(k) /\ k \in Topics /\ Post(more)
    BY <1>1 DEF AddAccess, Topics, c
<1> HIDE DEF more
<1>7. AccessTypeOK'
    BY <1>6, ClickedFacts DEF AccessTypeOK, grants, lists, names, boxes
<1> QED BY <1>2, <1>3, <1>4, <1>5, <1>6, <1>7, ClickStep

(* The three others change a list by one call about one of its rows.        *)
LEMMA ChangeStep ==
    ASSUME AccessInv, NEW k \in Kinds, Click(k), NEW op \in {"delete", "move", "set"},
           NEW arg \in 0..MaxRows, NEW by \in {-1, 0, 1} \cup (BOOLEAN \X BOOLEAN),
           Post(<<Ask(op, k, arg, by)>>), UNCHANGED <<grants, lists, names, boxes>>,
           op = "set" => by \in BOOLEAN \X BOOLEAN,
           op = "move" => by \in {-1, 1},
           op = "move" /\ PatientInv /\ asked = <<>> => MoveOK(Ask(op, k, arg, by))
    PROVE  AccessInv'
<1> USE DEF AccessInv, AccessBase
<1> DEFINE c == Ask(op, k, arg, by)
           more == <<c>>
<1>1. c \in AccessCall /\ c.op = op /\ c.on = k /\ c.arg = arg /\ c.more = by /\ ~c.answered
    <2>1. /\ op \in Ops /\ k \in Topics /\ arg \in (0..MaxRows) \cup Groups \cup {Undef}
          /\ by \in BOOLEAN \cup (BOOLEAN \X BOOLEAN) \cup {-1, 0, 1}
        BY DEF Ops, Changes, Topics
    <2> QED BY <2>1, AskType
<1>2. AccessCallOK(c)
    BY <1>1 DEF AccessCallOK, Changes
<1>3. Post(more) /\ (op = "move" /\ PatientInv /\ asked = <<>> => MoveOK(c))
    OBVIOUS
<1> HIDE DEF c
<1>4. more \in Seq(AccessCall) /\ DOMAIN more = {1} /\ more[1] = c /\ Len(more) = 1
    BY <1>1
<1> HIDE DEF more
<1>5. AccessTypeOK'
    BY ClickedFacts DEF AccessTypeOK, grants, lists, names, boxes, Topics
<1>6. op # "move" => MoveOK(c)
    BY <1>1 DEF MoveOK
<1> QED BY <1>1, <1>2, <1>3, <1>4, <1>5, <1>6, ClickStep DEF Topics

LEMMA DeleteAccessStep == ASSUME AccessInv, NEW k \in Kinds, DeleteAccess(k) PROVE AccessInv'
<1>1. PICK row \in ToSet(access_list[k]) : Post(<<Ask("delete", k, row.id, 0)>>)
    BY DEF DeleteAccess
<1>2. row \in Row
    BY DEF ToSet, AccessInv, AccessBase, AccessTypeOK
<1>3. row.id \in 0..MaxRows
    BY <1>2, RowFacts
<1> QED BY <1>1, <1>3, ChangeStep DEF DeleteAccess

LEMMA MoveAccessStep == ASSUME AccessInv, NEW k \in Kinds, MoveAccess(k) PROVE AccessInv'
<1>1. PICK i \in DOMAIN access_list[k], by \in {-1, 1} :
        /\ i + by \in DOMAIN access_list[k]
        /\ Post(<<Ask("move", k, access_list[k][i].id, by)>>)
    BY DEF MoveAccess
<1> DEFINE id == access_list[k][i].id
<1>2. access_list[k] \in Seq(Row) /\ rows[k] \in Seq(Row)
    BY DEF AccessInv, AccessBase, AccessTypeOK
<1>3. id \in 0..MaxRows
    <2>1. access_list[k][i] \in Row
        BY <1>2
    <2> QED BY <2>1, RowFacts
<1>4. ASSUME PatientInv, asked = <<>> PROVE MoveOK(Ask("move", k, id, by))
    <2> DEFINE c == Ask("move", k, id, by)
    <2>1. c.on = k /\ c.arg = id /\ c.more = by
        BY DEF Ask
    <2>2. /\ i \in DOMAIN rows[k] /\ rows[k][i].id = id /\ id # Star
          /\ rows[k][i + by].id # Star
        BY <1>1, <1>4, ShownRows DEF AccessInv
    <2>3. \A n \in Places(rows[k], id) : n = i
        BY <2>2 DEF Places, AccessInv, AccessBase, RowsOK, Unique
    <2> HIDE DEF c, id
    <2>4. MoveOK(c)
        BY <2>1, <2>2, <2>3 DEF MoveOK
    <2> QED BY <2>4 DEF c
<1>5. UNCHANGED <<grants, lists, names, boxes>> /\ Click(k) /\ Post(<<Ask("move", k, id, by)>>)
    BY <1>1 DEF MoveAccess
<1> HIDE DEF id
<1>6. by \in {-1, 0, 1} \cup (BOOLEAN \X BOOLEAN)
    OBVIOUS
<1> QED BY <1>3, <1>4, <1>5, <1>6, ChangeStep

LEMMA SetAccessStep == ASSUME AccessInv, NEW k \in Kinds, SetAccess(k) PROVE AccessInv'
<1>1. PICK id \in 0..MaxRows, both \in BOOLEAN \X BOOLEAN : Post(<<Ask("set", k, id, both)>>)
    <2>1. CASE \E row \in ToSet(access_list[k]), both \in BOOLEAN \X BOOLEAN :
                    Post(<<Ask("set", k, row.id, both)>>)
        <3>1. PICK row \in ToSet(access_list[k]), both \in BOOLEAN \X BOOLEAN :
                    Post(<<Ask("set", k, row.id, both)>>)
            BY <2>1
        <3>2. row \in Row
            BY DEF ToSet, AccessInv, AccessBase, AccessTypeOK
        <3> QED BY <3>1, <3>2, RowFacts
    <2>2. CASE /\ access_default[k] # NoRow
               /\ Post(<<Ask("set", k, Star, <<~access_default[k].allowed, k = "ldap">>)>>)
        <3> DEFINE allowed == ~access_default[k].allowed
                   last == k = "ldap"
        <3>1. allowed \in BOOLEAN /\ last \in BOOLEAN /\ Post(<<Ask("set", k, Star, <<allowed, last>>)>>)
            BY <2>2
        <3> HIDE DEF allowed, last
        <3>2. <<allowed, last>> \in BOOLEAN \X BOOLEAN
            BY <3>1
        <3>3. Star \in 0..MaxRows
            BY AccessAssumption DEF Star
        <3> QED BY <3>1, <3>2, <3>3
    <2> QED BY <2>1, <2>2 DEF SetAccess
<1>2. both \in {-1, 0, 1} \cup (BOOLEAN \X BOOLEAN)
    OBVIOUS
<1> QED BY <1>1, <1>2, ChangeStep DEF SetAccess

(* The groups, the shares and the devices: none of their calls is a change  *)
(* of a list.                                                               *)
LEMMA AskedAlone ==
    ASSUME NEW op \in {"grant", "revoke", "share", "unshare", "attach", "detach", "search"},
           NEW on \in Topics, NEW arg \in (0..MaxRows) \cup Groups \cup {Undef},
           op \in {"grant", "share", "search"} => arg \in Groups,
           NEW c, c = Ask(op, on, arg, 0)
    PROVE  c \in AccessCall /\ AccessCallOK(c) /\ c.op = op /\ c.arg = arg /\ ~c.answered /\ MoveOK(c)
<1>1. op \in Ops /\ 0 \in BOOLEAN \cup (BOOLEAN \X BOOLEAN) \cup {-1, 0, 1}
    BY DEF Ops, Loads
<1>2. c \in AccessCall /\ c.op = op /\ c.arg = arg /\ ~c.answered
    BY <1>1, AskType
<1>3. c.op \notin Changes \cup {"list", "check"}
    BY <1>2 DEF Changes
<1>4. AccessCallOK(c)
    BY <1>2, <1>3 DEF AccessCallOK, Changes
<1>5. MoveOK(c)
    BY <1>2 DEF MoveOK
<1> QED BY <1>2, <1>4, <1>5

LEMMA GrantAlone ==
    ASSUME NEW g \in Groups
    PROVE  LET c == Ask("grant", "groups", g, 0)
           IN  c \in AccessCall /\ AccessCallOK(c) /\ c.op = "grant" /\ ~c.answered /\ MoveOK(c)
<1> DEFINE c == Ask("grant", "groups", g, 0)
           op == "grant"
<1>1. op \in {"grant", "revoke", "share", "unshare", "attach", "detach", "search"} /\ op = "grant"
    OBVIOUS
<1>2. "groups" \in Topics /\ g \in (0..MaxRows) \cup Groups \cup {Undef}
    BY DEF Topics
<1>3. c = Ask(op, "groups", g, 0)
    OBVIOUS
<1> HIDE DEF c, op
<1>4. c \in AccessCall /\ AccessCallOK(c) /\ c.op = op /\ ~c.answered /\ MoveOK(c)
    BY <1>1, <1>2, <1>3, AskedAlone
<1>5. c \in AccessCall /\ AccessCallOK(c) /\ c.op = "grant" /\ ~c.answered /\ MoveOK(c)
    BY <1>1, <1>4
<1> QED BY <1>5 DEF c

LEMMA OtherClickStep ==
    ASSUME AccessInv, NEW topic \in Topics, Click(topic), NEW more \in Seq(AccessCall), Post(more),
           UNCHANGED <<grants, lists>>, AccessTypeOK',
           \A m \in DOMAIN more : /\ AccessCallOK(more[m]) /\ ~more[m].answered /\ MoveOK(more[m])
                                  /\ more[m].op \notin Changes
    PROVE  AccessInv'
<1>1. \A m \in DOMAIN more : more[m].op # "add"
    BY DEF Changes
<1> QED BY <1>1, ClickStep

LEMMA AddGroupStep == ASSUME AccessInv, AddGroup PROVE AccessInv'
<1> USE DEF AccessInv, AccessBase
<1>1. PICK g \in Groups : /\ access_groups' = access_groups \cup {g}
                          /\ wanted_groups' = wanted_groups \cup {g}
                          /\ Post(GroupCalls(g))
    BY DEF AddGroup
<1> DEFINE c == Ask("grant", "groups", g, 0)
           d == Ask("revoke", "groups", Undef, 0)
<1>2. /\ c \in AccessCall /\ AccessCallOK(c) /\ c.op \notin Changes /\ ~c.answered /\ MoveOK(c)
      /\ d \in AccessCall /\ AccessCallOK(d) /\ d.op \notin Changes /\ ~d.answered /\ MoveOK(d)
    <2>1. "groups" \in Topics /\ g \in (0..MaxRows) \cup Groups \cup {Undef}
        BY DEF Topics
    <2>2. c \in AccessCall /\ AccessCallOK(c) /\ c.op = "grant" /\ ~c.answered /\ MoveOK(c)
        BY GrantAlone
    <2>3. d \in AccessCall /\ AccessCallOK(d) /\ d.op = "revoke" /\ ~d.answered /\ MoveOK(d)
        <3>1. Undef \in (0..MaxRows) \cup Groups \cup {Undef}
            OBVIOUS
        <3> DEFINE none == Undef
        <3>2. none \in (0..MaxRows) \cup Groups \cup {Undef} /\ d = Ask("revoke", "groups", none, 0)
            OBVIOUS
        <3> HIDE DEF none, d
        <3> QED BY <2>1, <3>2, AskedAlone
    <2> QED BY <2>2, <2>3 DEF Changes
<1>3. Post(<<c, d>>)
    BY <1>1 DEF GroupCalls
<1> HIDE DEF c, d
<1>4. UNCHANGED <<grants, lists>> /\ Click("groups") /\ "groups" \in Topics
    BY DEF AddGroup, Topics
<1>5. AccessTypeOK'
    BY <1>1, <1>4, ClickedFacts DEF AddGroup, AccessTypeOK, grants, lists, boxes
<1> DEFINE more == <<c, d>>
<1>6. more \in Seq(AccessCall) /\ DOMAIN more = {1, 2} /\ more[1] = c /\ more[2] = d /\ Post(more)
    BY <1>2, <1>3
<1> HIDE DEF more
<1> QED BY <1>2, <1>4, <1>5, <1>6, OtherClickStep

LEMMA OneCallStep ==
    ASSUME AccessInv, NEW topic \in Topics, Click(topic),
           NEW op \in {"grant", "revoke", "share", "unshare", "attach", "detach", "search"},
           NEW arg \in (0..MaxRows) \cup Groups \cup {Undef},
           op \in {"grant", "share", "search"} => arg \in Groups,
           Post(<<Ask(op, topic, arg, 0)>>), UNCHANGED <<grants, lists>>, AccessTypeOK'
    PROVE  AccessInv'
<1> DEFINE c == Ask(op, topic, arg, 0)
<1>1. c \in AccessCall /\ AccessCallOK(c) /\ c.op = op /\ ~c.answered /\ MoveOK(c)
    BY AskedAlone
<1>2. c.op \notin Changes
    BY <1>1 DEF Changes
<1>3. Post(<<c>>)
    OBVIOUS
<1> HIDE DEF c
<1> DEFINE more == <<c>>
<1>4. more \in Seq(AccessCall) /\ DOMAIN more = {1} /\ more[1] = c /\ Post(more)
    BY <1>1, <1>3
<1> HIDE DEF more
<1> QED BY <1>1, <1>2, <1>4, OtherClickStep

LEMMA RemoveGroupStep == ASSUME AccessInv, RemoveGroup PROVE AccessInv'
<1>1. PICK g \in access_groups : /\ access_groups' = access_groups \ {g}
                                 /\ wanted_groups' = wanted_groups \ {g}
                                 /\ Post(<<Ask("revoke", "groups", g, 0)>>)
    BY DEF RemoveGroup
<1>2. UNCHANGED <<grants, lists>> /\ Click("groups") /\ "groups" \in Topics
    BY DEF RemoveGroup, Topics
<1>3. AccessTypeOK' /\ g \in Groups
    BY <1>1, <1>2, ClickedFacts DEF RemoveGroup, AccessTypeOK, grants, lists, boxes, AccessInv, AccessBase
<1> QED BY <1>1, <1>2, <1>3, OneCallStep

LEMMA SearchStep == ASSUME AccessInv, SearchSharedUser PROVE AccessInv'
<1>1. PICK u \in Groups : Post(<<Ask("search", "shares", u, 0)>>)
    BY DEF SearchSharedUser
<1>2. UNCHANGED <<grants, lists>> /\ Click("shares") /\ "shares" \in Topics
    BY DEF SearchSharedUser, Topics
<1>3. AccessTypeOK'
    BY <1>1, <1>2, ClickedFacts DEF SearchSharedUser, AccessTypeOK, grants, lists, boxes, AccessInv, AccessBase
<1> QED BY <1>1, <1>2, <1>3, OneCallStep

LEMMA ShareStep == ASSUME AccessInv, ShareMachine PROVE AccessInv'
<1>1. UNCHANGED <<grants, lists>> /\ Click("shares") /\ "shares" \in Topics
    BY DEF ShareMachine, Topics
<1>2. AccessTypeOK' /\ shared_user_found \in Groups
    BY <1>1, ClickedFacts DEF ShareMachine, AccessTypeOK, grants, lists, names, boxes, AccessInv, AccessBase
<1> QED BY <1>1, <1>2, OneCallStep DEF ShareMachine

LEMMA UnshareStep == ASSUME AccessInv, RemoveShareMachine PROVE AccessInv'
<1>1. PICK u \in shares : Post(<<Ask("unshare", "shares", u, 0)>>)
    BY DEF RemoveShareMachine
<1>2. UNCHANGED <<grants, lists>> /\ Click("shares") /\ "shares" \in Topics
    BY DEF RemoveShareMachine, Topics
<1>3. AccessTypeOK' /\ u \in Groups
    BY <1>2, ClickedFacts DEF RemoveShareMachine, AccessTypeOK, grants, lists, names, boxes, AccessInv, AccessBase
<1> QED BY <1>1, <1>2, <1>3, OneCallStep

LEMMA ToggleStep == ASSUME AccessInv, ToggleHostDevice PROVE AccessInv'
<1>1. UNCHANGED <<grants, lists>> /\ Click("device") /\ "device" \in Topics
    BY DEF ToggleHostDevice, Topics
<1>2. AccessTypeOK'
    BY <1>1, ClickedFacts DEF ToggleHostDevice, AccessTypeOK, grants, lists, names, AccessInv, AccessBase
<1>3. Post(<<Ask(DeviceCall, "device", 0, 0)>>) /\ DeviceCall \in {"attach", "detach"}
    BY DEF ToggleHostDevice, Load, DeviceCall
<1>4. 0 \in (0..MaxRows) \cup Groups \cup {Undef}
    BY AccessAssumption
<1> QED BY <1>1, <1>2, <1>3, <1>4, OneCallStep

-----------------------------------------------------------------------------
(* What the server does, and what each answer does.                         *)

(* Call i marked, and perhaps its answer written in it.                     *)
LEMMA MarkedFacts ==
    ASSUME AskedOK, AddsNew, NEW i \in DOMAIN asked, NEW c \in AccessCall, AccessCallOK(c),
           asked' = [asked EXCEPT ![i] = c],
           c.op = asked[i].op, c.on = asked[i].on, c.answered,
           \A n \in DOMAIN asked \ {i} : Adding(asked[n]) =>
                \A k \in Kinds : asked[n].arg \notin Ids(rows[k])'
    PROVE  /\ AskedOK' /\ AddsNew'
           /\ DOMAIN asked' = DOMAIN asked /\ Len(asked') = Len(asked)
           /\ \A n \in DOMAIN asked : asked'[n].op = asked[n].op /\ asked'[n].on = asked[n].on
           /\ \A n \in DOMAIN asked \ {i} : asked'[n] = asked[n]
           /\ asked'[i] = c
<1> DEFINE t == [asked EXCEPT ![i] = c]
<1>1. /\ t \in Seq(AccessCall) /\ DOMAIN t = DOMAIN asked /\ Len(t) = Len(asked)
      /\ t[i] = c /\ \A n \in DOMAIN asked \ {i} : t[n] = asked[n]
    <2>1. c \in AccessCall /\ asked \in Seq(AccessCall) /\ i \in DOMAIN asked
        BY DEF AskedOK
    <2> QED BY ONLY <2>1
<1> HIDE DEF t
<1>2. asked' = t
    BY DEF t
<1>3. \A n \in DOMAIN t : AccessCallOK(t[n])
    BY <1>1 DEF AskedOK
<1>4. \A n \in DOMAIN t : Adding(t[n]) => n \in DOMAIN asked \ {i}
    BY <1>1 DEF Adding
<1>5. AddsNew'
    BY <1>1, <1>2, <1>4 DEF AddsNew
<1>6. AskedOK'
    BY <1>1, <1>2, <1>3 DEF AskedOK
<1>7. \A n \in DOMAIN asked : t[n].op = asked[n].op /\ t[n].on = asked[n].on
    BY <1>1
<1> QED BY <1>1, <1>2, <1>5, <1>6, <1>7

LEMMA LoadedType ==
    ASSUME AccessTypeOK, NEW c \in AccessCall, AccessCallOK(c), c.op \in Loads
    PROVE  /\ Loaded(c) \in Seq(Row) \cup (SUBSET Groups) \cup Groups
           /\ AccessCallOK([c EXCEPT !.answered = TRUE, !.data = Loaded(c)])
<1> DEFINE data == Loaded(c)
           d == [c EXCEPT !.answered = TRUE, !.data = data]
<1>1. /\ c.op \in {"list", "check"} => c.on \in Kinds /\ data \in Seq(Row)
      /\ c.op \in {"groups", "shares"} => data \in SUBSET Groups
      /\ c.op = "search" => data \in Groups
    BY DEF Loaded, AccessCallOK, AccessTypeOK
<1> HIDE DEF data
<1>2. /\ d.op = c.op /\ d.on = c.on /\ d.arg = c.arg /\ d.more = c.more /\ d.data = data
    BY DEF AccessCall
<1> HIDE DEF d
<1>3. AccessCallOK(d)
    BY <1>1, <1>2 DEF AccessCallOK
<1>4. data \in Seq(Row) \cup (SUBSET Groups) \cup Groups
    <2>1. \/ c.op \in {"list", "check"} \/ c.op \in {"groups", "shares"} \/ c.op = "search"
        BY DEF Loads
    <2>2. CASE c.op \in {"list", "check"}
        BY <1>1, <2>2
    <2>3. CASE c.op \in {"groups", "shares"}
        BY <1>1, <2>3
    <2>4. CASE c.op = "search"
        <3>1. data \in Groups
            BY <1>1, <2>4
        <3> QED BY ONLY <3>1
    <2> QED BY <2>1, <2>2, <2>3, <2>4
<1> QED BY <1>3, <1>4 DEF data, d

(* Reading leaves the server as it is.                                      *)
LEMMA ServerLoads ==
    ASSUME AccessInv, NEW i \in DOMAIN asked, ServerHandles(i), asked[i].op \in Loads
    PROVE  AccessInv'
<1> USE DEF AccessInv, AccessBase
<1> DEFINE c == asked[i]
           data == Loaded(c)
<1>1. c \in AccessCall /\ AccessCallOK(c) /\ c.op \in Loads /\ ~c.answered
    BY DEF AskedOK, ServerHandles
<1>2. /\ asked' = [asked EXCEPT ![i].answered = TRUE, ![i].data = data]
      /\ UNCHANGED <<access_left, grants, lists, names, boxes>>
    BY DEF ServerHandles, Loads, Changes, grants
<1>3. /\ data \in Seq(Row) \cup (SUBSET Groups) \cup Groups
      /\ AccessCallOK([c EXCEPT !.answered = TRUE, !.data = data])
    BY <1>1, LoadedType
<1>4. c.op = "list" => data = rows[c.on]
    BY DEF Loaded
<1> HIDE DEF data
<1> DEFINE d == [c EXCEPT !.answered = TRUE, !.data = data]
<1>5. asked' = [asked EXCEPT ![i] = d]
    BY <1>2
<1>6. d \in AccessCall /\ AccessCallOK(d) /\ d.op = c.op /\ d.on = c.on /\ d.answered /\ d.data = data
    BY <1>1, <1>3 DEF AccessCall
<1> HIDE DEF d
<1>7. AccessTypeOK' /\ rows' = rows /\ Waits' = Waits
    BY <1>2 DEF AccessTypeOK, grants, lists, names, boxes, Waits
<1>8. /\ AskedOK' /\ AddsNew'
      /\ DOMAIN asked' = DOMAIN asked /\ Len(asked') = Len(asked)
      /\ \A n \in DOMAIN asked : asked'[n].op = asked[n].op /\ asked'[n].on = asked[n].on
      /\ \A n \in DOMAIN asked \ {i} : asked'[n] = asked[n]
      /\ asked'[i].answered /\ asked'[i].data = data
    <2>1. \A n \in DOMAIN asked \ {i} : Adding(asked[n]) => \A k \in Kinds : asked[n].arg \notin Ids(rows[k])'
        BY <1>7 DEF AddsNew, Ids
    <2> QED BY <1>5, <1>6, <2>1, MarkedFacts
<1>9. ASSUME PatientInv PROVE PatientInv'
    <2>1. access_list' = access_list /\ access_default' = access_default
        BY <1>2 DEF lists
    <2>2. \A k \in Kinds : StarLast(rows'[k])
        BY <1>7, <1>9 DEF PatientInv
    <2>3. \A n \in DOMAIN asked : MoveOK(asked[n])' /\ ListOK(asked[n])'
        BY <1>1, <1>4, <1>7, <1>8, <1>9 DEF PatientInv, MoveOK, ListOK, Loads
    <2>4. ASSUME NEW k \in Kinds PROVE Reloading(k)' \/ ShownWhole(k)'
        <3>1. CASE Reloading(k)
            <4>1. PICK n \in DOMAIN asked : Reloads(asked[n], k)
                BY <3>1 DEF Reloading
            <4>2. Reloads(asked'[n], k)
                BY <4>1, <1>8 DEF Reloads
            <4> QED BY <4>2, <1>8 DEF Reloading
        <3>2. CASE ShownWhole(k)
            BY <3>2, <1>7, <2>1 DEF ShownWhole
        <3> QED BY <3>1, <3>2, <1>9 DEF PatientInv
    <2> QED BY <1>8, <1>9, <2>2, <2>3, <2>4 DEF PatientInv
<1>10. RowsOK'
    BY <1>7 DEF RowsOK
<1> QED BY <1>7, <1>8, <1>9, <1>10

(* A change marks its call and leaves no two rows with an id; a patient user *)
(* has it alone under way, and so the other lists are shown whole.          *)
LEMMA ServerChangesRows ==
    ASSUME AccessInv, NEW i \in DOMAIN asked, ServerHandles(i),
           asked[i].op \in Changes, ~Fails(asked[i])
    PROVE  AccessInv'
<1> USE DEF AccessInv, AccessBase
<1> DEFINE c == asked[i]
           d == [c EXCEPT !.answered = TRUE]
<1>1. c \in AccessCall /\ AccessCallOK(c) /\ ~c.answered /\ c.op \in Changes /\ ~Fails(c) /\ c.on \in Kinds
    BY DEF AskedOK, ServerHandles, AccessCallOK
<1>2. /\ asked' = [asked EXCEPT ![i] = d]
      /\ rows' = [rows EXCEPT ![c.on] = Changed(c)]
      /\ UNCHANGED <<access_left, granted, shared_with, attached, lists, names, boxes>>
    BY DEF ServerHandles, Loads, Changes
<1>3. d \in AccessCall /\ AccessCallOK(d) /\ d.op = c.op /\ d.on = c.on /\ d.answered
    <2>1. d \in AccessCall /\ d.op = c.op /\ d.on = c.on /\ d.answered /\ d.arg = c.arg /\ d.more = c.more
        BY <1>1 DEF AccessCall
    <2> HIDE DEF d
    <2> QED BY <1>1, <2>1 DEF AccessCallOK, Changes
<1>4. rows \in [Kinds -> Seq(Row)] /\ Unique(rows[c.on])
    BY <1>1 DEF AccessTypeOK, RowsOK
<1>5. c.op = "add" => c.arg \notin Ids(rows[c.on])
    BY <1>1 DEF AddsNew, Adding
<1> DEFINE list == Changed(c)
<1>6. /\ list \in Seq(Row) /\ Unique(list)
      /\ Ids(list) \subseteq Ids(rows[c.on]) \cup {Star} \cup (IF c.op = "add" THEN {c.arg} ELSE {})
      /\ StarLast(rows[c.on]) /\ MoveOK(c) => StarLast(list)
    BY <1>1, <1>4, <1>5, ChangedFacts
<1> HIDE DEF c, d, list
<1>7. /\ rows' \in [Kinds -> Seq(Row)] /\ rows'[c.on] = list
      /\ \A k \in Kinds \ {c.on} : rows'[k] = rows[k]
    BY <1>1, <1>2, <1>4, <1>6 DEF list
<1>8. AccessTypeOK' /\ Waits' = Waits
    BY <1>2, <1>7 DEF AccessTypeOK, lists, names, boxes, Waits
<1>9. RowsOK'
    BY <1>6, <1>7 DEF RowsOK
<1>10. \A n \in DOMAIN asked \ {i} : Adding(asked[n]) => \A k \in Kinds : asked[n].arg \notin Ids(rows[k])'
    <2> SUFFICES ASSUME NEW n \in DOMAIN asked \ {i}, Adding(asked[n]), NEW k \in Kinds
                 PROVE  asked[n].arg \notin Ids(rows'[k])
        OBVIOUS
    <2>1. asked[n].arg \notin Ids(rows[k]) /\ asked[n].arg # Star
        BY DEF AddsNew, Adding, AskedOK, AccessCallOK, Star
    <2>2. c.op = "add" => asked[n].arg # c.arg
        BY <1>1 DEF AddsNew, Adding, c
    <2> QED BY <1>6, <1>7, <2>1, <2>2
<1>11. /\ AskedOK' /\ AddsNew'
       /\ DOMAIN asked' = DOMAIN asked /\ Len(asked') = Len(asked) /\ asked'[i] = d
    BY <1>2, <1>3, <1>10, MarkedFacts DEF c
<1>12. ASSUME PatientInv PROVE PatientInv'
    <2>1. DOMAIN asked = {i} /\ Len(asked) = 1
        <3>1. asked \in Seq(AccessCall) /\ Len(asked) = 1
            BY <1>1, <1>12 DEF PatientInv, c, AskedOK
        <3> QED BY <3>1
    <2>2. \A k \in Kinds : StarLast(rows'[k])
        BY <1>6, <1>7, <1>12 DEF PatientInv, c
    <2>3. \A n \in DOMAIN asked : MoveOK(asked[n])' /\ ListOK(asked[n])'
        BY <1>1, <1>3, <1>11, <2>1 DEF MoveOK, ListOK, Changes
    <2>4. ASSUME NEW k \in Kinds PROVE Reloading(k)' \/ ShownWhole(k)'
        <3>1. CASE k = c.on
            <4>1. Reloads(asked'[i], k)
                BY <1>1, <1>3, <1>11, <3>1 DEF Reloads
            <4> QED BY <4>1, <1>11 DEF Reloading
        <3>2. CASE k # c.on
            <4>1. ShownWhole(k)
                BY <1>12, <2>1, <3>2 DEF PatientInv, Reloading, Reloads, c
            <4> QED BY <4>1, <1>2, <1>7, <3>2 DEF ShownWhole, lists
        <3> QED BY <3>1, <3>2
    <2> QED BY <1>11, <2>1, <2>2, <2>3, <2>4 DEF PatientInv
<1> QED BY <1>8, <1>9, <1>11, <1>12

(* One that fails is gone, and nothing follows.                             *)
LEMMA ServerRefuses ==
    ASSUME AccessInv, NEW i \in DOMAIN asked, ServerHandles(i),
           asked[i].op \in Changes, Fails(asked[i])
    PROVE  AccessInv'
<1> USE DEF AccessInv, AccessBase
<1> DEFINE c == asked[i]
<1>1. c.op \in Changes /\ ~c.answered
    BY DEF ServerHandles
<1>2. asked' = RemoveAt(asked, i) /\ UNCHANGED <<access_left, grants, lists, names, boxes>>
    BY DEF ServerHandles, Changes, grants
<1>3. asked' = RemoveAt(asked, i) \o <<>>
    <2>1. RemoveAt(asked, i) \in Seq(AccessCall)
        BY RemoveAtFrom DEF AskedOK
    <2> QED BY <1>2, <2>1, ConcatEmptySeq
<1>4. rows' = rows /\ AccessTypeOK' /\ RowsOK' /\ Waits' = Waits
    BY <1>2 DEF AccessTypeOK, RowsOK, Waits, grants, lists, names, boxes
<1>5. AskedOK' /\ AddsNew' /\ Len(asked') = Len(asked) - 1
    <2> DEFINE more == <<>>
    <2>1. more \in Seq(AccessCall) /\ DOMAIN more = {} /\ asked' = RemoveAt(asked, i) \o more /\ Len(more) = 0
        BY <1>3
    <2> HIDE DEF more
    <2>2. \A m \in DOMAIN more : AccessCallOK(more[m]) /\ more[m].op # "add"
        BY <2>1
    <2>3. AskedOK' /\ AddsNew' /\ Len(asked') = Len(asked) - 1 + Len(more)
        BY <1>4, <2>1, <2>2, AnsweredFacts
    <2> QED BY <2>1, <2>3 DEF AskedOK
<1>6. ASSUME PatientInv PROVE PatientInv'
    <2>1. DOMAIN asked = {i} /\ Len(asked) = 1
        <3>1. asked \in Seq(AccessCall) /\ Len(asked) = 1
            BY <1>1, <1>6 DEF PatientInv, AskedOK
        <3> QED BY <3>1
    <2>2. DOMAIN asked' = {}
        BY <1>5, <2>1 DEF AskedOK
    <2>3. \A k \in Kinds : ShownWhole(k)
        BY <1>1, <1>6, <2>1 DEF PatientInv, Reloading, Reloads, Changes
    <2>4. \A k \in Kinds : ShownWhole(k)'
        BY <1>2, <1>4, <2>3 DEF ShownWhole, lists
    <2> QED BY <1>4, <1>6, <2>2, <2>4 DEF PatientInv
<1> QED BY <1>4, <1>5, <1>6

(* Groups, shares and devices: the lists of grants are left alone.          *)
LEMMA ServerGrants ==
    ASSUME AccessInv, NEW i \in DOMAIN asked, ServerHandles(i), asked[i].op \notin Changes \cup Loads
    PROVE  AccessInv'
<1> USE DEF AccessInv, AccessBase
<1> DEFINE c == asked[i]
           d == [c EXCEPT !.answered = TRUE]
<1>1. c \in AccessCall /\ AccessCallOK(c) /\ ~c.answered /\ c.op \notin Changes \cup Loads
    BY DEF AskedOK, ServerHandles
<1>2. /\ asked' = [asked EXCEPT ![i] = d]
      /\ UNCHANGED <<access_left, rows, lists, names, boxes>>
    BY DEF ServerHandles
<1>3. d \in AccessCall /\ AccessCallOK(d) /\ d.op = c.op /\ d.on = c.on /\ d.answered
    <2>1. d \in AccessCall /\ d.op = c.op /\ d.on = c.on /\ d.answered /\ d.arg = c.arg /\ d.more = c.more
        BY <1>1 DEF AccessCall
    <2> HIDE DEF d
    <2> QED BY <1>1, <2>1 DEF AccessCallOK, Changes, Loads
<1>4. AccessTypeOK'
    <2>1. c.op \in {"grant", "share"} => c.arg \in Groups
        BY <1>1 DEF AccessCallOK
    <2>2. granted' \subseteq Groups
        BY <2>1 DEF ServerHandles, AccessTypeOK
    <2>3. shared_with' \subseteq Groups
        BY <2>1 DEF ServerHandles, AccessTypeOK
    <2>4. attached' \in BOOLEAN
        BY DEF ServerHandles, AccessTypeOK
    <2> QED BY <1>2, <2>2, <2>3, <2>4 DEF AccessTypeOK, lists, names, boxes
<1> HIDE DEF d
<1>5. RowsOK' /\ Waits' = Waits
    BY <1>2 DEF RowsOK, Waits
<1>6. /\ AskedOK' /\ AddsNew'
      /\ DOMAIN asked' = DOMAIN asked /\ Len(asked') = Len(asked)
      /\ \A n \in DOMAIN asked : asked'[n].op = asked[n].op /\ asked'[n].on = asked[n].on
      /\ \A n \in DOMAIN asked \ {i} : asked'[n] = asked[n]
      /\ asked'[i] = d
    <2>1. \A n \in DOMAIN asked \ {i} : Adding(asked[n]) => \A k \in Kinds : asked[n].arg \notin Ids(rows[k])'
        BY <1>2 DEF AddsNew, Ids
    <2> QED BY <1>2, <1>3, <2>1, MarkedFacts
<1>7. ASSUME PatientInv PROVE PatientInv'
    <2>1. \A n \in DOMAIN asked : MoveOK(asked[n])' /\ ListOK(asked[n])'
        BY <1>1, <1>2, <1>3, <1>6, <1>7 DEF PatientInv, MoveOK, ListOK, Loads, Changes
    <2>2. ASSUME NEW k \in Kinds PROVE Reloading(k)' \/ ShownWhole(k)'
        <3>1. CASE Reloading(k)
            <4>1. PICK n \in DOMAIN asked : Reloads(asked[n], k)
                BY <3>1 DEF Reloading
            <4>2. Reloads(asked'[n], k)
                BY <4>1, <1>1, <1>6 DEF Reloads, Loads
            <4> QED BY <4>2, <1>6 DEF Reloading
        <3>2. CASE ShownWhole(k)
            BY <3>2, <1>2 DEF ShownWhole, lists
        <3> QED BY <3>1, <3>2, <1>7 DEF PatientInv
    <2> QED BY <1>2, <1>6, <1>7, <2>1, <2>2 DEF PatientInv
<1> QED BY <1>4, <1>5, <1>6, <1>7

(* What an answer leaves: the call gone, its loads at the end.              *)
LEMMA OnAnswerFacts ==
    ASSUME AccessInv, NEW i \in DOMAIN asked, OnAnswer(i)
    PROVE  /\ AccessBase' /\ Waits' = Waits /\ rows' = rows
           /\ Len(asked') = Len(asked) - 1 + Len(Reload(asked[i]))
           /\ \A n \in DOMAIN asked' :
                \/ \E m \in DOMAIN asked \ {i} : asked'[n] = asked[m]
                \/ \E m \in DOMAIN Reload(asked[i]) : asked'[n] = Reload(asked[i])[m]
           /\ \A m \in DOMAIN asked \ {i} : \E n \in DOMAIN asked' : asked'[n] = asked[m]
           /\ \A m \in DOMAIN Reload(asked[i]) :
                \E n \in DOMAIN asked' : asked'[n] = Reload(asked[i])[m]
<1> USE DEF AccessInv, AccessBase
<1> DEFINE c == asked[i]
           more == Reload(c)
<1>1. c \in AccessCall /\ AccessCallOK(c) /\ c.answered
    BY DEF AskedOK, OnAnswer
<1>2. asked' = RemoveAt(asked, i) \o more /\ UNCHANGED <<access_left, grants, wanted_groups, boxes>>
    BY DEF OnAnswer
<1>3. /\ more \in Seq(AccessCall)
      /\ \A m \in DOMAIN more : AccessCallOK(more[m]) /\ more[m].op # "add"
    BY <1>1, ReloadType DEF Loads
<1>4. rows' = rows /\ Waits' = Waits /\ RowsOK'
    BY <1>2 DEF grants, Waits, RowsOK
<1>5. AccessTypeOK'
    <2>1. /\ access_list' \in [Kinds -> Seq(Row)]
          /\ access_default' \in [Kinds -> Row \cup {NoRow}]
        <3>1. CASE c.op = "list"
            <4> DEFINE at == DefaultPlaces(c.data, c.on)
                       default == IF at = {} THEN NoRow ELSE c.data[CHOOSE n \in at : TRUE]
                       shown == Without(c.data, at)
            <4>1. c.on \in Kinds /\ c.data \in Seq(Row)
                BY <1>1, <3>1 DEF AccessCallOK
            <4>2. /\ access_list' = [access_list EXCEPT ![c.on] = shown]
                  /\ access_default' = [access_default EXCEPT ![c.on] = default]
                BY <3>1 DEF OnAnswer, ShowList
            <4> HIDE DEF c
            <4>3. shown \in Seq(Row) /\ default \in Row \cup {NoRow}
                BY <4>1, ShowFacts
            <4> HIDE DEF shown, default
            <4> QED BY <4>1, <4>2, <4>3 DEF AccessTypeOK
        <3>2. CASE c.op # "list"
            BY <3>2 DEF OnAnswer, AccessTypeOK
        <3> QED BY <3>1, <3>2
    <2>2. access_checked' \in [Kinds -> Seq(Row)]
        <3>1. c.op = "check" => c.on \in Kinds /\ c.data \in Seq(Row)
            BY <1>1 DEF AccessCallOK
        <3> QED BY <3>1 DEF OnAnswer, AccessTypeOK
    <2>3. access_groups' \subseteq Groups
        <3>1. c.op = "groups" => c.data \in SUBSET Groups
            BY <1>1 DEF AccessCallOK
        <3> QED BY <3>1 DEF OnAnswer, AccessTypeOK
    <2>4. shares' \subseteq Groups
        <3>1. c.op = "shares" => c.data \in SUBSET Groups
            BY <1>1 DEF AccessCallOK
        <3> QED BY <3>1 DEF OnAnswer, AccessTypeOK
    <2>5. shared_user_found' \in Groups \cup {Undef}
        <3>1. c.op = "search" => c.data \in Groups
            BY <1>1 DEF AccessCallOK
        <3> QED BY <3>1 DEF OnAnswer, AccessTypeOK
    <2> QED BY <1>2, <1>4, <2>1, <2>2, <2>3, <2>4, <2>5 DEF AccessTypeOK, grants, boxes
<1> HIDE DEF more
<1>6. /\ AskedOK' /\ AddsNew'
      /\ Len(asked') = Len(asked) - 1 + Len(more)
      /\ \A n \in DOMAIN asked' :
            \/ \E m \in DOMAIN asked \ {i} : asked'[n] = asked[m]
            \/ \E m \in DOMAIN more : asked'[n] = more[m]
      /\ \A m \in DOMAIN asked \ {i} : \E n \in DOMAIN asked' : asked'[n] = asked[m]
      /\ \A m \in DOMAIN more : \E n \in DOMAIN asked' : asked'[n] = more[m]
    BY <1>2, <1>3, <1>4, AnsweredFacts
<1> QED BY <1>4, <1>5, <1>6 DEF more

(* A list is being loaded again from the answer to the change until that to *)
(* the load, which shows it whole.                                          *)
LEMMA OnAnswerStep == ASSUME AccessInv, NEW i \in DOMAIN asked, OnAnswer(i) PROVE AccessInv'
<1> USE DEF AccessInv, AccessBase
<1> DEFINE c == asked[i]
           more == Reload(c)
<1>1. c \in AccessCall /\ AccessCallOK(c) /\ c.answered
    BY DEF AskedOK, OnAnswer
<1>2. /\ AccessBase' /\ Waits' = Waits /\ rows' = rows
      /\ Len(asked') = Len(asked) - 1 + Len(more)
      /\ \A n \in DOMAIN asked' :
            \/ \E m \in DOMAIN asked \ {i} : asked'[n] = asked[m]
            \/ \E m \in DOMAIN more : asked'[n] = more[m]
      /\ \A m \in DOMAIN asked \ {i} : \E n \in DOMAIN asked' : asked'[n] = asked[m]
      /\ \A m \in DOMAIN more : \E n \in DOMAIN asked' : asked'[n] = more[m]
    BY OnAnswerFacts
<1>3. /\ \A m \in DOMAIN more : more[m].op \in Loads /\ ~more[m].answered /\ more[m].on = c.on
      /\ c.op \in Changes => 1 \in DOMAIN more /\ more[1].op = "list"
    BY <1>1, ReloadType
<1>4. ASSUME PatientInv PROVE PatientInv'
    <2>1. \A m \in DOMAIN asked \ {i} : asked[m].op \notin Changes
        <3> SUFFICES ASSUME NEW m \in DOMAIN asked \ {i}, asked[m].op \in Changes PROVE FALSE
            OBVIOUS
        <3>1. asked \in Seq(AccessCall) /\ Len(asked) = 1
            BY <1>4 DEF PatientInv, AskedOK
        <3> QED BY <3>1
    <2> HIDE DEF more
    <2>2. \A n \in DOMAIN asked' : asked'[n].op \notin Changes
        BY <1>2, <1>3, <2>1 DEF Loads, Changes
    <2>3. \A n \in DOMAIN asked' : ListOK(asked'[n])
        BY <1>2, <1>3, <1>4 DEF PatientInv, ListOK
    <2>4. \A n \in DOMAIN asked' : MoveOK(asked[n])' /\ ListOK(asked[n])'
        BY <1>2, <2>2, <2>3 DEF MoveOK, ListOK, Changes
    <2>5. ASSUME NEW k \in Kinds PROVE Reloading(k)' \/ ShownWhole(k)'
        <3>1. CASE k = c.on /\ c.op \in Changes
            <4>1. PICK n \in DOMAIN asked' : asked'[n] = more[1]
                BY <1>2, <1>3, <3>1
            <4>2. Reloads(asked'[n], k)
                BY <4>1, <1>3, <3>1 DEF Reloads
            <4> QED BY <4>2 DEF Reloading
        <3>2. CASE k = c.on /\ c.op = "list"
            <4> DEFINE list == rows[k]
                       at == DefaultPlaces(list, k)
                       default == IF at = {} THEN NoRow ELSE list[CHOOSE n \in at : TRUE]
                       shown == Without(list, at)
            <4>1. c.data = rows[k]
                BY <1>1, <1>4, <3>2 DEF PatientInv, ListOK
            <4>2. access_list'[k] = shown /\ access_default'[k] = default
                <5>1. /\ access_list' = [access_list EXCEPT ![k] = Without(c.data, DefaultPlaces(c.data, k))]
                      /\ access_default' = [access_default EXCEPT ![k] =
                            IF DefaultPlaces(c.data, k) = {} THEN NoRow
                            ELSE c.data[CHOOSE n \in DefaultPlaces(c.data, k) : TRUE]]
                    BY <3>2 DEF OnAnswer, ShowList
                <5>2. /\ access_list' = [access_list EXCEPT ![k] = shown]
                      /\ access_default' = [access_default EXCEPT ![k] = default]
                    BY <4>1, <5>1
                <5> HIDE DEF shown, default
                <5> QED BY <5>2 DEF AccessTypeOK
            <4>3. list \in Seq(Row) /\ StarLast(list)
                BY <1>4 DEF PatientInv, AccessTypeOK
            <4>4. Whole(list, shown, default)
                BY <4>3, ShowFacts
            <4> HIDE DEF shown, default
            <4> QED BY <1>2, <4>2, <4>4 DEF ShownWhole
        <3>3. CASE ~(k = c.on /\ c.op \in Changes \cup {"list"})
            <4>1. CASE Reloading(k)
                <5>1. PICK m \in DOMAIN asked : Reloads(asked[m], k)
                    BY <4>1 DEF Reloading
                <5>2. m # i
                    BY <5>1, <3>3 DEF Reloads
                <5>3. PICK n \in DOMAIN asked' : asked'[n] = asked[m]
                    BY <1>2, <5>2
                <5> QED BY <5>1, <5>3 DEF Reloading
            <4>2. CASE ShownWhole(k)
                <5>1. access_list'[k] = access_list[k] /\ access_default'[k] = access_default[k]
                    BY <3>3 DEF OnAnswer, ShowList, AccessTypeOK
                <5> QED BY <5>1, <1>2, <4>2 DEF ShownWhole
            <4> QED BY <4>1, <4>2, <1>4 DEF PatientInv
        <3> QED BY <3>1, <3>2, <3>3
    <2> QED BY <1>2, <1>4, <2>2, <2>4, <2>5 DEF PatientInv
<1> QED BY <1>2, <1>4

LEMMA DeviceStep == ASSUME AccessInv, DeviceIsKnown PROVE AccessInv'
<1> USE DEF AccessInv, AccessBase
<1>1. /\ UNCHANGED <<access_left, grants, asked, lists, names, is_attached>>
      /\ machine_has_device' = attached
    BY DEF DeviceIsKnown
<1>2. AccessTypeOK'
    BY <1>1 DEF AccessTypeOK, grants, lists, names
<1>3. rows' = rows /\ asked' = asked /\ access_list' = access_list /\ access_default' = access_default
      /\ access_left' = access_left
    BY <1>1 DEF grants, lists
<1>4. AskedOK' /\ AddsNew' /\ RowsOK' /\ Waits' = Waits
    BY <1>3 DEF AskedOK, AddsNew, RowsOK, Waits
<1>5. PatientInv => PatientInv'
    BY <1>3 DEF PatientInv, MoveOK, ListOK, Reloading, ShownWhole
<1> QED BY <1>2, <1>4, <1>5

-----------------------------------------------------------------------------
LEMMA AccessStarts == AccessInit => AccessInv
<1> SUFFICES ASSUME AccessInit PROVE AccessInv
    OBVIOUS
<1> USE DEF AccessInit
<1>1. <<>> \in Seq(Row) /\ rows \in [Kinds -> Seq(Row)] /\ asked = <<>> /\ asked \in Seq(AccessCall)
    OBVIOUS
<1>2. AccessTypeOK
    <2>1. access_left \in AccessStory
        BY AccessAssumption
    <2> QED BY <1>1, <2>1 DEF AccessTypeOK
<1>3. AskedOK /\ AddsNew
    BY <1>1 DEF AskedOK, AddsNew
<1>4. RowsOK
    BY DEF RowsOK, Unique
<1>5. PatientInv
    BY DEF PatientInv, StarLast, Places, Reloading, ShownWhole, Whole, Ids
<1> QED BY <1>2, <1>3, <1>4, <1>5 DEF AccessInv, AccessBase

LEMMA AccessStep == AccessInv /\ [AccessNext]_accessVars => AccessInv'
<1> SUFFICES ASSUME AccessInv, [AccessNext]_accessVars PROVE AccessInv'
    OBVIOUS
<1>1. CASE AccessClicks
    BY <1>1, AddAccessStep, DeleteAccessStep, MoveAccessStep, SetAccessStep, AddGroupStep,
       RemoveGroupStep, SearchStep, ShareStep, UnshareStep, ToggleStep DEF AccessClicks
<1>2. ASSUME NEW i \in DOMAIN asked, ServerHandles(i) PROVE AccessInv'
    BY <1>2, ServerLoads, ServerChangesRows, ServerRefuses, ServerGrants
<1>3. CASE AccessAnswers
    BY <1>2, <1>3, OnAnswerStep, DeviceStep DEF AccessAnswers
<1>4. CASE UNCHANGED accessVars
    <2>1. /\ UNCHANGED <<access_left, grants, asked, lists, names, boxes>>
        BY <1>4 DEF accessVars
    <2>2. AccessTypeOK'
        BY <2>1 DEF AccessInv, AccessBase, AccessTypeOK, grants, lists, names, boxes
    <2>3. rows' = rows /\ asked' = asked /\ access_list' = access_list
          /\ access_default' = access_default /\ access_left' = access_left
        BY <2>1 DEF grants, lists
    <2>4. AskedOK' /\ AddsNew' /\ RowsOK' /\ Waits' = Waits
        BY <2>3 DEF AccessInv, AccessBase, AskedOK, AddsNew, RowsOK, Waits
    <2>5. PatientInv => PatientInv'
        BY <2>3 DEF PatientInv, MoveOK, ListOK, Reloading, ShownWhole
    <2> QED BY <2>2, <2>4, <2>5 DEF AccessInv, AccessBase
<1> QED BY <1>1, <1>3, <1>4 DEF AccessNext

LEMMA DefaultsStay == AccessInv => (Waits => DefaultsLast)
BY DEF AccessInv, PatientInv, StarLast, DefaultsLast

-----------------------------------------------------------------------------
(* THE PAGES OF THE ADMINISTRATOR.                                          *)

(* A call under way.  What it asks, and what it is told, is of many kinds.  *)
HostRow == [id: Nat, filter: Filters, found: Filters \cup {0}, changed: Nat,
            loading: BOOLEAN, confirm: BOOLEAN]
ListedFiles == [files: Seq(1..MaxFiles), more: BOOLEAN]
AskArgs == Nat \cup Nodes \cup Info \cup HostRow \cup (SUBSET (1..MaxFiles)) \cup Backends
AskData == Nat \cup Seq(SUBSET NodeFields) \cup [Nodes -> Node] \cup BOOLEAN \cup ListedFiles \cup Backends
AskOps == NodeOps \cup {"list", "connect", "fetch", "set", "update", "drop", "unused", "purge",
                        "exists", "host", "pools"}
AskCall == [op: AskOps, arg: AskArgs, answered: BOOLEAN, data: AskData]

(* Which of them, with n requests made, when page is open.                  *)
ArgOK(c, n) ==
    /\ c.op \in NodeOps \cup {"connect"} => c.arg \in Nodes
    /\ c.op = "fetch" => c.arg \in 1..n
    /\ c.op = "set" => c.arg \in Info
    /\ c.op = "update" => c.arg \in HostRow
    /\ c.op \in {"drop", "unused"} => c.arg \in Nat
    /\ c.op = "purge" => c.arg \in SUBSET (1..MaxFiles)
    /\ c.op \in {"exists", "host"} => c.arg \in Names
    /\ c.op = "pools" => c.arg \in Backends
DataOK(op, data, n) ==
    /\ op = "list" => data \in [Nodes -> Node]
    /\ op = "connect" => data \in 1..n
    /\ op \in {"fetch", "exists", "host", "set"} => data \in BOOLEAN
    /\ op = "unused" => data \in ListedFiles
    /\ op = "pools" => data \in Backends
AskOK(c, n, page) ==
    /\ ArgOK(c, n)
    /\ c.answered => DataOK(c.op, c.data, n)
    /\ c.op = "set" /\ ~c.answered => c.data \in Seq(SUBSET NodeFields)
    /\ c.op \in {"unused", "purge"} <=> page = "storage"
AllAsked(s, n, page) == s \in Seq(AskCall) /\ \A i \in DOMAIN s : AskOK(s[i], n, page)

-----------------------------------------------------------------------------
(* The types of each page.                                                  *)
NodesType ==
    /\ vms \in [Nodes -> Node] /\ nodes_shown \in [Nodes -> Node]
    /\ switching \subseteq Nodes \X {"start", "shutdown"} /\ reqs \in Seq(BOOLEAN)
    /\ modal_open \in BOOLEAN /\ dialog \in Nodes \cup {NoNode}
    /\ request_shown \in [id: 0..Len(reqs), done: BOOLEAN]
InfoType ==
    /\ info \in Info /\ info_sent \in Info /\ node \in Info /\ old_node \in Info
    /\ info_socket \in Seq(Info) /\ pristine \in BOOLEAN /\ node_error \in BOOLEAN
DevicesType ==
    /\ devices \in Seq(Device) /\ devices_sent \in Seq(Device) /\ devices_socket \in Seq(Seq(Device))
    /\ host_devices \in Seq(HostRow) /\ clock \in Nat /\ daemon \subseteq {"list", "drop"} \X Nat
StorageType ==
    /\ unused \subseteq 1..MaxFiles /\ purging \subseteq 1..MaxFiles /\ start \in Nat
    /\ unused_volumes \in [listed: BOOLEAN, files: Seq(1..MaxFiles)]
    /\ list_more \in BOOLEAN /\ loading_unused \in BOOLEAN
NamesType ==
    /\ taken \subseteq Names /\ name \in Names \cup {0} /\ hostname \in Names \cup {0}
    /\ name_duplicated \in BOOLEAN /\ hostname_duplicated \in BOOLEAN
BackendsType ==
    /\ versions \in [Backends -> Nat] /\ sockets \in Seq([backend: Backends, seen: Nat])
    /\ images \in [backend: Backends, version: Nat]
    /\ backend \in Backends /\ storage_pool \in Backends
AskedType == AllAsked(asking, Len(reqs), admin_left.page)
AdminTypes ==
    /\ admin_left \in AdminStory
    /\ NodesType /\ InfoType /\ DevicesType /\ StorageType /\ NamesType /\ BackendsType
    /\ AskedType

(* The list of volumes no machine uses, when none is removed: one page is   *)
(* asked for at a time, and when it was shown the files up to its last are  *)
(* listed, which is one more than the next one starts at.                   *)
Upto(last) == \A n \in DOMAIN Ascending(unused) : n <= last => Ascending(unused)[n] \in ToSet(unused_volumes.files)
Paging ==
    /\ purging = {}
    /\ Len(asking) = IF loading_unused THEN 1 ELSE 0
    /\ \A i \in DOMAIN asking :
        /\ asking[i].op = "unused" /\ asking[i].arg = start
        /\ asking[i].answered => asking[i].data = [files |-> FilesFrom(start), more |-> MoreFrom(start)]
    /\ Upto(start)
    /\ ~loading_unused => /\ Upto(start + Limit + 1) /\ (list_more <=> MoreFrom(start))
StorageInv ==
    IF admin_left.page = "storage" THEN admin_left.others = 0 => Paging ELSE ~unused_volumes.listed
AdminInv == AdminTypes /\ StorageInv

-----------------------------------------------------------------------------
(* Calls.                                                                   *)
LEMMA AskForType ==
    ASSUME NEW op \in AskOps, NEW arg \in AskArgs
    PROVE  /\ AskFor(op, arg) \in AskCall
           /\ AskFor(op, arg).op = op /\ AskFor(op, arg).arg = arg /\ ~AskFor(op, arg).answered
           /\ AskFor(op, arg).data \in Seq(SUBSET NodeFields)
<1>1. <<>> \in AskData /\ <<>> \in Seq(SUBSET NodeFields)
    BY DEF AskData
<1> QED BY <1>1 DEF AskFor, AskCall

LEMMA ArgType ==
    /\ Nodes \subseteq AskArgs /\ Nat \subseteq AskArgs /\ Info \subseteq AskArgs
    /\ HostRow \subseteq AskArgs /\ SUBSET (1..MaxFiles) \subseteq AskArgs /\ Backends \subseteq AskArgs
BY DEF AskArgs

LEMMA DataType ==
    /\ Nat \subseteq AskData /\ [Nodes -> Node] \subseteq AskData /\ BOOLEAN \subseteq AskData
    /\ ListedFiles \subseteq AskData /\ Backends \subseteq AskData
    /\ Seq(SUBSET NodeFields) \subseteq AskData
BY DEF AskData

LEMMA AppendAsked ==
    ASSUME NEW s, NEW n, NEW page, AllAsked(s, n, page), NEW c \in AskCall, AskOK(c, n, page)
    PROVE  AllAsked(Append(s, c), n, page)
<1> DEFINE t == Append(s, c)
<1>1. s \in Seq(AskCall) /\ \A i \in DOMAIN s : AskOK(s[i], n, page)
    BY DEF AllAsked
<1>2. /\ t \in Seq(AskCall) /\ DOMAIN t = 1..Len(s) + 1 /\ DOMAIN s = 1..Len(s) /\ Len(s) \in Nat
      /\ t[Len(s) + 1] = c /\ \A i \in 1..Len(s) : t[i] = s[i]
    BY <1>1
<1> HIDE DEF t
<1>3. \A i \in DOMAIN t : AskOK(t[i], n, page)
    BY <1>1, <1>2
<1> QED BY <1>2, <1>3 DEF AllAsked, t

LEMMA RestAsked ==
    ASSUME NEW n, NEW page, AllAsked(asking, n, page), NEW i \in DOMAIN asking
    PROVE  AllAsked(Rest(i), n, page) /\ Len(Rest(i)) = Len(asking) - 1
<1> DEFINE r == RemoveAt(asking, i)
<1>1. asking \in Seq(AskCall) /\ \A k \in DOMAIN asking : AskOK(asking[k], n, page)
    BY DEF AllAsked
<1>2. r \in Seq(AskCall) /\ Len(r) = Len(asking) - 1 /\ IsRest(r, asking, i)
    BY <1>1, RemoveAtFrom
<1> HIDE DEF r
<1>3. \A k \in DOMAIN r : AskOK(r[k], n, page)
    BY <1>1, <1>2 DEF IsRest
<1>4. r = Rest(i)
    BY DEF r, Rest
<1> QED BY <1>2, <1>3, <1>4 DEF AllAsked

LEMMA MoreRequests ==
    ASSUME NEW s, NEW n \in Nat, NEW m \in Nat, n <= m, NEW page, AllAsked(s, n, page)
    PROVE  AllAsked(s, m, page)
<1>1. 1..n \subseteq 1..m
    OBVIOUS
<1>2. \A c : AskOK(c, n, page) => AskOK(c, m, page)
    BY <1>1 DEF AskOK, ArgOK, DataOK
<1> QED BY <1>2 DEF AllAsked

(* A call that is answered, with data of its kind.                          *)
LEMMA HandledAsked ==
    ASSUME NEW n, NEW page, AllAsked(asking, n, page), NEW i \in DOMAIN asking, NEW op,
           NEW data \in AskData, DataOK(op, data, n), Handled(i, op, data)
    PROVE  /\ AllAsked(asking', n, page) /\ DOMAIN asking' = DOMAIN asking
           /\ Len(asking') = Len(asking)
           /\ \A k \in DOMAIN asking \ {i} : asking'[k] = asking[k]
           /\ asking'[i].op = op /\ asking'[i].arg = asking[i].arg
           /\ asking'[i].answered /\ asking'[i].data = data
<1> DEFINE c == [asking[i] EXCEPT !.answered = TRUE, !.data = data]
           t == [asking EXCEPT ![i] = c]
<1>1. asking \in Seq(AskCall) /\ asking[i] \in AskCall /\ \A k \in DOMAIN asking : AskOK(asking[k], n, page)
    BY DEF AllAsked
<1>2. /\ c \in AskCall /\ c.op = asking[i].op /\ c.arg = asking[i].arg /\ c.answered /\ c.data = data
    BY <1>1 DEF AskCall
<1>3. asking' = t /\ asking[i].op = op
    BY DEF Handled
<1> HIDE DEF c
<1>4. /\ t \in Seq(AskCall) /\ DOMAIN t = DOMAIN asking /\ Len(t) = Len(asking)
      /\ t[i] = c /\ \A k \in DOMAIN asking \ {i} : t[k] = asking[k]
    <2>1. c \in AskCall /\ asking \in Seq(AskCall) /\ i \in DOMAIN asking
        BY <1>1, <1>2
    <2> QED BY ONLY <2>1
<1> HIDE DEF t
<1>5. AskOK(c, n, page)
    BY <1>1, <1>2, <1>3 DEF AskOK, ArgOK
<1>6. \A k \in DOMAIN t : AskOK(t[k], n, page)
    BY <1>1, <1>4, <1>5
<1> QED BY <1>2, <1>3, <1>4, <1>6 DEF AllAsked

(* What the call of an operation is about.                                  *)
LEMMA AskedFacts ==
    ASSUME AskedType, NEW i \in DOMAIN asking
    PROVE  /\ asking \in Seq(AskCall) /\ asking[i] \in AskCall
           /\ ArgOK(asking[i], Len(reqs))
           /\ asking[i].answered => DataOK(asking[i].op, asking[i].data, Len(reqs))
           /\ asking[i].op = "set" /\ ~asking[i].answered => asking[i].data \in Seq(SUBSET NodeFields)
           /\ asking[i].op \in {"unused", "purge"} <=> admin_left.page = "storage"
BY DEF AskedType, AllAsked, AskOK

(* One call more, of a page that is not the one of volumes.                 *)
LEMMA AlsoAsked ==
    ASSUME NEW s, NEW n, NEW page, AllAsked(s, n, page), NEW op \in AskOps, NEW arg \in AskArgs,
           ArgOK(AskFor(op, arg), n), op \in {"unused", "purge"} <=> page = "storage"
    PROVE  AllAsked(Append(s, AskFor(op, arg)), n, page)
<1> DEFINE c == AskFor(op, arg)
<1>1. c \in AskCall /\ c.op = op /\ ~c.answered /\ c.data \in Seq(SUBSET NodeFields)
    BY AskForType
<1>2. ArgOK(c, n)
    OBVIOUS
<1> HIDE DEF c
<1>3. AskOK(c, n, page)
    BY <1>1, <1>2 DEF AskOK
<1>4. AllAsked(Append(s, c), n, page)
    BY <1>1, <1>3, AppendAsked
<1> QED BY <1>4 DEF c

(* What a step of a page that is not the one of volumes leaves of the rest. *)
Apart ==
    /\ admin_left' \in AdminStory /\ admin_left'.page = admin_left.page
    /\ AskedType'
    /\ admin_left.page = "storage" => UNCHANGED <<admin_left, asking>>

LEMMA ClickLeft ==
    ASSUME admin_left \in AdminStory, NEW page, AdminClick(page)
    PROVE  /\ admin_left' \in AdminStory /\ admin_left'.page = admin_left.page
           /\ admin_left.page = page /\ admin_left'.others = admin_left.others
BY DEF AdminStory, AdminClick

LEMMA ElseLeft ==
    ASSUME admin_left \in AdminStory, NEW page, SomeoneElse(page)
    PROVE  /\ admin_left' \in AdminStory /\ admin_left'.page = admin_left.page
           /\ admin_left.page = page /\ asking' = asking
BY DEF AdminStory, SomeoneElse

LEMMA QuietApart ==
    ASSUME AdminTypes, UNCHANGED <<admin_left, asking, reqs>>
    PROVE  Apart
BY DEF AdminTypes, AskedType, Apart

LEMMA ElseApart ==
    ASSUME AdminTypes, NEW page, page # "storage", SomeoneElse(page), reqs' = reqs
    PROVE  Apart
<1>1. /\ admin_left' \in AdminStory /\ admin_left'.page = admin_left.page
      /\ admin_left.page = page /\ asking' = asking
    BY ElseLeft DEF AdminTypes
<1> QED BY <1>1 DEF AdminTypes, AskedType, Apart

(* A click that asks for nothing, or for one thing.                         *)
LEMMA ClickApart ==
    ASSUME AdminTypes, NEW page, page # "storage", AdminClick(page), reqs' = reqs,
           AllAsked(asking', Len(reqs), page)
    PROVE  Apart
<1>1. /\ admin_left' \in AdminStory /\ admin_left'.page = admin_left.page
      /\ admin_left.page = page
    BY ClickLeft DEF AdminTypes
<1> QED BY <1>1 DEF AskedType, Apart

LEMMA AskApart ==
    ASSUME AdminTypes, NEW page, page # "storage", AdminClick(page), reqs' = reqs,
           NEW op \in AskOps \ {"unused", "purge"}, NEW arg \in AskArgs, AskAlso(asking, op, arg),
           ArgOK(AskFor(op, arg), Len(reqs))
    PROVE  Apart
<1>1. admin_left.page = page
    BY ClickLeft DEF AdminTypes
<1>2. AllAsked(asking, Len(reqs), page)
    BY <1>1 DEF AdminTypes, AskedType
<1>3. AllAsked(Append(asking, AskFor(op, arg)), Len(reqs), page)
    BY <1>2, AlsoAsked
<1> QED BY <1>3, ClickApart DEF AskAlso

LEMMA HandledApart ==
    ASSUME AdminTypes, NEW i \in DOMAIN asking, NEW op, op \notin {"unused", "purge"},
           NEW data \in AskData, DataOK(op, data, Len(reqs)), Handled(i, op, data), reqs' = reqs
    PROVE  Apart
<1>1. AllAsked(asking, Len(reqs), admin_left.page) /\ admin_left' = admin_left /\ asking[i].op = op
    BY DEF AdminTypes, AskedType, Handled
<1>2. AllAsked(asking', Len(reqs), admin_left.page)
    BY <1>1, HandledAsked
<1>3. admin_left.page # "storage"
    BY <1>1, AskedFacts DEF AdminTypes
<1> QED BY <1>1, <1>2, <1>3 DEF AdminTypes, AskedType, Apart

LEMMA BackApart ==
    ASSUME AdminTypes, NEW i \in DOMAIN asking, NEW op, op \notin {"unused", "purge"},
           Back(i, op), asking' = Rest(i), reqs' = reqs
    PROVE  Apart
<1>1. AllAsked(asking, Len(reqs), admin_left.page) /\ admin_left' = admin_left /\ asking[i].op = op
    BY DEF AdminTypes, AskedType, Back
<1>2. AllAsked(asking', Len(reqs), admin_left.page)
    BY <1>1, RestAsked
<1>3. admin_left.page # "storage"
    BY <1>1, AskedFacts DEF AdminTypes
<1> QED BY <1>1, <1>2, <1>3 DEF AdminTypes, AskedType, Apart

-----------------------------------------------------------------------------
(* The options of a node.                                                   *)
LEMMA InfoClickStep == ASSUME AdminTypes, InfoClick, reqs' = reqs PROVE InfoType' /\ Apart
<1> USE DEF InfoType
<1>0. AdminClick("node") /\ UNCHANGED <<info, info_sent, info_socket>> /\ InfoType
    BY DEF InfoClick, AdminTypes
<1>1. CASE EditNode
    <2>1. PICK o \in DOMAIN node, v \in Options : node' = [node EXCEPT ![o] = v]
        BY <1>1 DEF EditNode
    <2>2. node' \in Info /\ UNCHANGED <<old_node, node_error, asking>> /\ pristine' = FALSE
        BY <1>0, <1>1, <2>1 DEF EditNode, Info
    <2>3. AllAsked(asking', Len(reqs), "node")
        BY <1>0, <2>2, ClickLeft DEF AdminTypes, AskedType
    <2> QED BY <1>0, <2>2, <2>3, ClickApart
<1>2. CASE LoadNode
    <2>1. node' = old_node /\ node_error' = FALSE /\ UNCHANGED <<old_node, asking, pristine>>
        BY <1>2 DEF LoadNode, CancelEdits
    <2>2. AllAsked(asking', Len(reqs), "node")
        BY <1>0, <2>1, ClickLeft DEF AdminTypes, AskedType
    <2> QED BY <1>0, <2>1, <2>2, ClickApart
<1>3. CASE UpdateNode
    <2>1. /\ pristine' = TRUE /\ node_error' = FALSE
          /\ AskAlso(asking, "set", node) /\ UNCHANGED <<node, old_node>>
        BY <1>3 DEF UpdateNode
    <2>2. node \in AskArgs /\ "set" \in AskOps \ {"unused", "purge"}
        BY <1>0, ArgType DEF AskOps
    <2>3. ArgOK(AskFor("set", node), Len(reqs))
        BY <1>0, <2>2, AskForType DEF ArgOK, NodeOps
    <2>4. Apart
        BY <1>0, <2>1, <2>2, <2>3, AskApart
    <2> QED BY <1>0, <2>1, <2>4
<1> QED BY <1>1, <1>2, <1>3 DEF InfoClick

(* A step of a save that is under way.                                      *)
LEMMA SavingApart ==
    ASSUME AdminTypes, NEW i \in DOMAIN asking, NEW read, Saving(i, read),
           NEW left \in Seq(SUBSET NodeFields), asking' = [asking EXCEPT ![i].data = left],
           UNCHANGED <<admin_left, reqs>>
    PROVE  Apart
<1> DEFINE c == [asking[i] EXCEPT !.data = left]
<1>1. AllAsked(asking, Len(reqs), admin_left.page)
    BY DEF AdminTypes, AskedType
<1>2. asking \in Seq(AskCall) /\ asking[i] \in AskCall /\ AskOK(asking[i], Len(reqs), admin_left.page)
    BY <1>1 DEF AllAsked
<1>3. left \in AskData
    BY DataType
<1>4. /\ c \in AskCall /\ c.op = asking[i].op /\ c.arg = asking[i].arg
      /\ c.answered = asking[i].answered /\ c.data = left
    BY <1>2, <1>3 DEF AskCall
<1>5. asking[i].op = "set" /\ ~asking[i].answered
    BY DEF Saving
<1>6. asking' = [asking EXCEPT ![i] = c]
    OBVIOUS
<1> HIDE DEF c
<1>7. AskOK(c, Len(reqs), admin_left.page)
    BY <1>2, <1>4, <1>5 DEF AskOK, ArgOK
<1>8. asking' \in Seq(AskCall) /\ DOMAIN asking' = DOMAIN asking
    BY <1>2, <1>4, <1>6
<1>9. \A k \in DOMAIN asking' : AskOK(asking'[k], Len(reqs), admin_left.page)
    BY <1>1, <1>2, <1>6, <1>7, <1>8 DEF AllAsked
<1>10. admin_left.page # "storage"
    BY <1>2, <1>5 DEF AskOK
<1> QED BY <1>8, <1>9, <1>10 DEF AdminTypes, AllAsked, AskedType, Apart

LEMMA InfoStep == ASSUME AdminTypes, InfoNext, reqs' = reqs PROVE InfoType' /\ Apart
<1>0. InfoType
    BY DEF AdminTypes
<1>1. CASE InfoSends
    BY <1>0, <1>1, QuietApart DEF InfoSends, InfoType
<1>2. CASE OnNodeInfo
    <2>1. Head(info_socket) \in Info /\ Tail(info_socket) \in Seq(Info)
        BY <1>0, <1>2 DEF InfoType, OnNodeInfo
    <2> QED BY <1>0, <1>2, <2>1, QuietApart DEF OnNodeInfo, InfoType
<1>3. CASE InfoClick
    BY <1>3, InfoClickStep
<1>4. CASE InfoHandled
    <2>1. PICK i \in DOMAIN asking :
            Saving(i, TRUE) /\ Handled(i, "set", Head(asking[i].data) = {}) /\ UNCHANGED ofInfo
        BY <1>4 DEF InfoHandled
    <2> DEFINE ok == Head(asking[i].data) = {}
    <2>2. ok \in AskData /\ DataOK("set", ok, Len(reqs))
        BY DataType DEF DataOK, NodeOps
    <2>3. Handled(i, "set", ok)
        BY <2>1
    <2> HIDE DEF ok
    <2>4. Apart
        BY <2>2, <2>3, HandledApart
    <2> QED BY <1>0, <2>1, <2>4 DEF InfoType, ofInfo
<1>5. CASE InfoBack
    <2>1. PICK i \in DOMAIN asking :
            /\ Back(i, "set") /\ node_error' = ~asking[i].data /\ asking' = Rest(i)
            /\ UNCHANGED <<info, info_sent, info_socket, node, old_node, pristine>>
        BY <1>5 DEF InfoBack
    <2>2. asking[i].data \in BOOLEAN
        BY <2>1, AskedFacts DEF Back, DataOK, AdminTypes
    <2>3. Apart
        BY <2>1, BackApart
    <2> QED BY <1>0, <2>1, <2>2, <2>3 DEF InfoType
<1>6. CASE OthersSetInfo
    <2>1. PICK o \in DOMAIN info, v \in Options : info' = [info EXCEPT ![o] = v]
        BY <1>6 DEF OthersSetInfo
    <2>2. info' \in Info /\ UNCHANGED <<info_sent, info_socket, node, old_node, pristine, node_error>>
        BY <1>0, <1>6, <2>1 DEF OthersSetInfo, InfoType, Info
    <2>3. SomeoneElse("node")
        BY <1>6 DEF OthersSetInfo
    <2> QED BY <1>0, <2>2, <2>3, ElseApart DEF InfoType
<1>7. CASE InfoReads
    <2>1. PICK i \in DOMAIN asking :
            /\ Saving(i, FALSE) /\ UNCHANGED <<admin_left, ofInfo>>
            /\ asking' = [asking EXCEPT ![i].data = <<{o \in NodeFields : info[o] # asking[i].arg[o]}>>]
        BY <1>7 DEF InfoReads
    <2>2. <<{o \in NodeFields : info[o] # asking[i].arg[o]}>> \in Seq(SUBSET NodeFields)
        OBVIOUS
    <2>3. Apart
        BY <2>1, <2>2, SavingApart
    <2> QED BY <1>0, <2>1, <2>3 DEF InfoType, ofInfo
<1>8. CASE InfoWrites
    <2>1. PICK i \in DOMAIN asking :
            /\ Saving(i, TRUE)
            /\ \E o \in Head(asking[i].data) :
                  /\ info' = [info EXCEPT ![o] = asking[i].arg[o]]
                  /\ asking' = [asking EXCEPT ![i].data = <<Head(asking[i].data) \ {o}>>]
            /\ UNCHANGED <<admin_left, info_sent, info_socket, node, old_node, pristine, node_error>>
        BY <1>8 DEF InfoWrites
    <2>2. PICK o \in Head(asking[i].data) :
            /\ info' = [info EXCEPT ![o] = asking[i].arg[o]]
            /\ asking' = [asking EXCEPT ![i].data = <<Head(asking[i].data) \ {o}>>]
        BY <2>1
    <2> DEFINE left == asking[i].data
    <2>3. left \in Seq(SUBSET NodeFields) /\ left # <<>> /\ asking[i].arg \in Info
        BY <2>1, AskedFacts DEF Saving, ArgOK, AdminTypes
    <2> HIDE DEF left
    <2>4. Head(left) \subseteq NodeFields
        BY <2>3
    <2>5. <<Head(left) \ {o}>> \in Seq(SUBSET NodeFields)
        BY <2>4
    <2>6. Apart
        BY <2>1, <2>2, <2>5, SavingApart DEF left
    <2>7. o \in NodeFields
        BY <2>2, <2>4 DEF left
    <2>8. info' \in Info
        BY <1>0, <2>2, <2>3, <2>7 DEF InfoType, Info
    <2> QED BY <1>0, <2>1, <2>6, <2>8 DEF InfoType
<1> QED BY <1>1, <1>2, <1>3, <1>4, <1>5, <1>6, <1>7, <1>8 DEF InfoNext

(* The forms of a new machine and of a new node.                            *)
LEMMA NamesStep == ASSUME AdminTypes, NamesNext, reqs' = reqs PROVE NamesType' /\ Apart
<1>0. NamesType
    BY DEF AdminTypes
<1>1. CASE NamesClick
    <2>0. AdminClick("new") /\ UNCHANGED <<taken, name_duplicated>>
        BY <1>1 DEF NamesClick
    <2>1. CASE TypeName
        <3>1. PICK n \in Names : name' = n /\ AskAlso(asking, "exists", n)
            BY <2>1 DEF TypeName
        <3>2. n \in AskArgs /\ "exists" \in AskOps \ {"unused", "purge"}
            BY AdminAssumption, ArgType DEF AskOps
        <3>3. ArgOK(AskFor("exists", n), Len(reqs))
            BY <3>2, AskForType DEF ArgOK, NodeOps
        <3>4. Apart
            BY <2>0, <3>1, <3>2, <3>3, AskApart
        <3> QED BY <1>0, <2>0, <2>1, <3>1, <3>4 DEF TypeName, NamesType
    <2>2. CASE TypeHostname
        <3>1. PICK n \in Names \cup {0} :
                /\ hostname' = n /\ hostname_duplicated' = FALSE
                /\ IF n = 0 THEN UNCHANGED asking ELSE AskAlso(asking, "host", n)
            BY <2>2 DEF TypeHostname
        <3>2. NamesType'
            BY <1>0, <2>0, <2>2, <3>1 DEF TypeHostname, NamesType
        <3>3. CASE n = 0
            <4>1. AllAsked(asking', Len(reqs), "new")
                BY <2>0, <3>1, <3>3, ClickLeft DEF AdminTypes, AskedType
            <4> QED BY <2>0, <3>2, <4>1, ClickApart
        <3>4. CASE n # 0
            <4>1. n \in Names /\ n \in AskArgs /\ "host" \in AskOps \ {"unused", "purge"}
                BY <3>4, AdminAssumption, ArgType DEF AskOps
            <4>2. ArgOK(AskFor("host", n), Len(reqs))
                BY <4>1, AskForType DEF ArgOK, NodeOps
            <4> QED BY <2>0, <3>1, <3>2, <3>4, <4>1, <4>2, AskApart
        <3> QED BY <3>3, <3>4
    <2> QED BY <1>1, <2>1, <2>2 DEF NamesClick
<1>2. CASE NamesHandled
    <2>1. PICK i \in DOMAIN asking, op \in {"exists", "host"} :
            Handled(i, op, asking[i].arg \in taken) /\ UNCHANGED ofNames
        BY <1>2 DEF NamesHandled
    <2> DEFINE known == asking[i].arg \in taken
    <2>2. known \in BOOLEAN /\ Handled(i, op, known)
        BY <2>1
    <2> HIDE DEF known
    <2>3. known \in AskData /\ DataOK(op, known, Len(reqs))
        BY <2>2, DataType DEF DataOK
    <2> QED BY <1>0, <2>1, <2>2, <2>3, HandledApart DEF NamesType, ofNames
<1>3. CASE NamesBack
    <2>1. PICK i \in DOMAIN asking :
            /\ \/ Back(i, "exists") /\ name_duplicated' = asking[i].data /\ UNCHANGED hostname_duplicated
               \/ Back(i, "host") /\ hostname_duplicated' = asking[i].data /\ UNCHANGED name_duplicated
            /\ asking' = Rest(i) /\ UNCHANGED <<taken, name, hostname>>
        BY <1>3 DEF NamesBack
    <2>2. asking[i].op \in {"exists", "host"} /\ Back(i, asking[i].op)
        BY <2>1 DEF Back
    <2>3. asking[i].data \in BOOLEAN
        BY <2>2, AskedFacts DEF Back, DataOK, AdminTypes
    <2>4. Apart
        BY <2>1, <2>2, BackApart
    <2> QED BY <1>0, <2>1, <2>3, <2>4 DEF NamesType
<1>4. CASE OthersTakeName
    <2>1. SomeoneElse("new")
        BY <1>4 DEF OthersTakeName
    <2> QED BY <1>0, <1>4, <2>1, ElseApart DEF OthersTakeName, NamesType
<1> QED BY <1>1, <1>2, <1>3, <1>4 DEF NamesNext

LEMMA BackendsStep == ASSUME AdminTypes, BackendsNext, reqs' = reqs PROVE BackendsType' /\ Apart
<1> DEFINE Socket == [backend: Backends, seen: Nat]
<1>0. /\ versions \in [Backends -> Nat] /\ sockets \in Seq(Socket)
      /\ images \in [backend: Backends, version: Nat]
      /\ backend \in Backends /\ storage_pool \in Backends
    BY DEF AdminTypes, BackendsType
<1>1. CASE ChooseBackend
    <2>1. PICK b \in Backends :
            /\ backend' = b /\ AskAlso(asking, "pools", b)
            /\ sockets' = Append(sockets, [backend |-> b, seen |-> 0])
            /\ images' = [backend |-> b, version |-> 0]
        BY <1>1 DEF ChooseBackend
    <2>2. AdminClick("new") /\ UNCHANGED <<versions, storage_pool>>
        BY <1>1 DEF ChooseBackend
    <2>3. b \in AskArgs /\ "pools" \in AskOps \ {"unused", "purge"}
        BY ArgType DEF AskOps
    <2>4. ArgOK(AskFor("pools", b), Len(reqs))
        BY <2>3, AskForType DEF ArgOK, NodeOps
    <2>5. Apart
        BY <2>1, <2>2, <2>3, <2>4, AskApart
    <2>6. [backend |-> b, seen |-> 0] \in Socket
        OBVIOUS
    <2>7. sockets' \in Seq(Socket)
        BY <1>0, <2>1, <2>6
    <2> QED BY <1>0, <2>1, <2>2, <2>5, <2>7 DEF BackendsType
<1>2. CASE PoolsHandled
    <2>1. PICK i \in DOMAIN asking : Handled(i, "pools", asking[i].arg) /\ UNCHANGED ofBackends
        BY <1>2 DEF PoolsHandled
    <2>2. asking[i].arg \in Backends
        BY <2>1, AskedFacts DEF Handled, ArgOK, AdminTypes
    <2> DEFINE b == asking[i].arg
    <2>3. b \in AskData /\ DataOK("pools", b, Len(reqs)) /\ Handled(i, "pools", b)
        BY <2>1, <2>2, DataType DEF DataOK
    <2> HIDE DEF b
    <2> QED BY <1>0, <2>1, <2>3, HandledApart DEF BackendsType, ofBackends
<1>3. CASE PoolsBack
    <2>1. PICK i \in DOMAIN asking :
            /\ Back(i, "pools") /\ storage_pool' = asking[i].data
            /\ asking' = Rest(i) /\ UNCHANGED <<versions, sockets, backend, images>>
        BY <1>3 DEF PoolsBack, PoolOf
    <2>2. asking[i].data \in Backends
        BY <2>1, AskedFacts DEF Back, DataOK, AdminTypes
    <2>3. Apart
        BY <2>1, BackApart
    <2> QED BY <1>0, <2>1, <2>2, <2>3 DEF BackendsType
<1>4. CASE OnImages
    <2>1. PICK k \in DOMAIN sockets :
            /\ sockets' = [sockets EXCEPT ![k].seen = versions[sockets[k].backend]]
            /\ images' = [backend |-> sockets[k].backend, version |-> versions[sockets[k].backend]]
            /\ UNCHANGED <<admin_left, asking, versions, backend, storage_pool>>
        BY <1>4 DEF OnImages
    <2> DEFINE b == sockets[k].backend
               v == versions[b]
               socket == [sockets[k] EXCEPT !.seen = v]
    <2>2. sockets[k] \in Socket
        <3>1. k \in DOMAIN sockets /\ sockets \in Seq(Socket)
            BY <1>0
        <3> HIDE DEF Socket
        <3> QED BY ONLY <3>1
    <2>3. b \in Backends /\ v \in Nat
        BY <1>0, <2>2
    <2>4. sockets' = [sockets EXCEPT ![k] = socket] /\ images' = [backend |-> b, version |-> v]
        BY <2>1
    <2> HIDE DEF b, v
    <2>5. socket \in Socket
        BY <2>2, <2>3
    <2> HIDE DEF socket, Socket
    <2>6. sockets' \in Seq(Socket)
        BY <1>0, <2>4, <2>5
    <2>7. Apart
        BY <2>1, QuietApart
    <2> QED BY <1>0, <2>1, <2>3, <2>4, <2>6, <2>7 DEF BackendsType, Socket
<1>5. CASE OthersChangeImages
    <2>1. PICK b \in Backends : versions' = [versions EXCEPT ![b] = @ + 1]
        BY <1>5 DEF OthersChangeImages
    <2>2. SomeoneElse("new") /\ UNCHANGED <<sockets, backend, images, storage_pool>>
        BY <1>5 DEF OthersChangeImages
    <2>3. versions' \in [Backends -> Nat]
        BY <1>0, <2>1
    <2> QED BY <1>0, <2>2, <2>3, ElseApart DEF BackendsType
<1> QED BY <1>1, <1>2, <1>3, <1>4, <1>5 DEF BackendsNext

(* The host devices of a node.                                              *)
LEMMA RowTypes ==
    /\ \A d \in Device : ShownAs(d) \in HostRow
    /\ \A row \in HostRow, d \in Device : RowFrom(row, d) \in HostRow
<1>1. \A d \in Device : ShownAs(d) \in HostRow
    BY DEF Device, HostRow, ShownAs
<1>2. ASSUME NEW row \in HostRow, NEW d \in Device PROVE RowFrom(row, d) \in HostRow
    <2> DEFINE loading == IF d.found # 0 THEN FALSE ELSE row.loading
               r == [row EXCEPT !.id = d.id, !.filter = d.filter, !.found = d.found, !.changed = d.changed,
                                !.loading = loading]
    <2>1. RowFrom(row, d) = IF SameDevice(row, d) THEN row ELSE r
        BY DEF RowFrom
    <2>2. loading \in BOOLEAN
        BY DEF HostRow
    <2> HIDE DEF loading
    <2>3. r \in HostRow
        BY <2>2 DEF HostRow, Device
    <2> QED BY <2>1, <2>3
<1> QED BY <1>1, <1>2

LEMMA DevicesClickStep == ASSUME AdminTypes, DevicesClick, reqs' = reqs PROVE DevicesType' /\ Apart
<1>0. /\ devices \in Seq(Device) /\ devices_sent \in Seq(Device) /\ devices_socket \in Seq(Seq(Device))
      /\ host_devices \in Seq(HostRow) /\ clock \in Nat /\ daemon \subseteq {"list", "drop"} \X Nat
    BY DEF AdminTypes, DevicesType
<1>1. AdminClick("devices") /\ UNCHANGED <<devices, clock, daemon, devices_sent, devices_socket>>
    BY DEF DevicesClick
<1>2. ASSUME NEW i \in DOMAIN host_devices, NEW row \in HostRow, host_devices' = [host_devices EXCEPT ![i] = row]
      PROVE  host_devices' \in Seq(HostRow) /\ host_devices'[i] = row
    <2> HIDE DEF HostRow
    <2>1. host_devices \in Seq(HostRow)
        BY <1>0
    <2> QED BY ONLY <1>2, <2>1, ReplacedType
<1>3. CASE UpdateHostDevice
    <2>1. PICK i \in DOMAIN host_devices, f \in Filters :
            /\ host_devices' = [host_devices EXCEPT ![i].filter = f, ![i].loading = TRUE, ![i].found = 0]
            /\ AskAlso(asking, "update", host_devices'[i])
        BY <1>3 DEF UpdateHostDevice
    <2> DEFINE row == [host_devices[i] EXCEPT !.filter = f, !.loading = TRUE, !.found = 0]
    <2>2. host_devices' = [host_devices EXCEPT ![i] = row]
        BY <2>1
    <2>3. host_devices[i] \in HostRow
        BY <1>0
    <2>4. row \in HostRow
        BY <2>3 DEF HostRow
    <2> HIDE DEF row
    <2>5. host_devices' \in Seq(HostRow) /\ AskAlso(asking, "update", row)
        BY <1>2, <2>1, <2>2, <2>4
    <2>6. row \in AskArgs /\ "update" \in AskOps \ {"unused", "purge"}
        BY <2>4, ArgType DEF AskOps
    <2>7. ArgOK(AskFor("update", row), Len(reqs))
        BY <2>4, <2>6, AskForType DEF ArgOK, NodeOps
    <2>8. Apart
        BY <1>1, <2>5, <2>6, <2>7, AskApart
    <2> QED BY <1>0, <1>1, <2>5, <2>8 DEF DevicesType
<1>4. CASE ConfirmRemoveDevice
    <2>1. PICK i \in DOMAIN host_devices, yes \in BOOLEAN :
            host_devices' = [host_devices EXCEPT ![i].confirm = yes] /\ UNCHANGED asking
        BY <1>4 DEF ConfirmRemoveDevice
    <2> DEFINE row == [host_devices[i] EXCEPT !.confirm = yes]
    <2>2. host_devices' = [host_devices EXCEPT ![i] = row]
        BY <2>1
    <2>3. host_devices[i] \in HostRow
        BY <1>0
    <2>4. row \in HostRow
        BY <2>3 DEF HostRow
    <2> HIDE DEF row
    <2>5. host_devices' \in Seq(HostRow)
        BY <1>2, <2>2, <2>4
    <2>6. AllAsked(asking', Len(reqs), "devices")
        BY <1>1, <2>1, ClickLeft DEF AdminTypes, AskedType
    <2> QED BY <1>0, <1>1, <2>5, <2>6, ClickApart DEF DevicesType
<1>5. CASE RemoveHostDevice
    <2>1. PICK i \in DOMAIN host_devices : AskAlso(asking, "drop", host_devices[i].id) /\ UNCHANGED host_devices
        BY <1>5 DEF RemoveHostDevice
    <2> DEFINE id == host_devices[i].id
    <2>2. host_devices[i] \in HostRow
        BY <1>0
    <2>3. id \in Nat /\ AskAlso(asking, "drop", id)
        BY <2>1, <2>2 DEF HostRow
    <2> HIDE DEF id
    <2>4. id \in AskArgs /\ "drop" \in AskOps \ {"unused", "purge"}
        BY <2>3, ArgType DEF AskOps
    <2>5. ArgOK(AskFor("drop", id), Len(reqs))
        BY <2>3, <2>4, AskForType DEF ArgOK, NodeOps
    <2>6. Apart
        BY <1>1, <2>3, <2>4, <2>5, AskApart
    <2> QED BY <1>0, <1>1, <2>1, <2>6 DEF DevicesType
<1> QED BY <1>3, <1>4, <1>5 DEF DevicesClick

(* A list made of another, row by row.                                      *)
LEMMA RowByRow ==
    ASSUME NEW T, NEW s \in Seq(T), NEW S, NEW f, DOMAIN f = DOMAIN s, \A k \in DOMAIN s : f[k] \in S,
           f = [k \in DOMAIN f |-> f[k]]
    PROVE  f \in Seq(S) /\ Len(f) = Len(s)
<1>1. DOMAIN s = 1..Len(s) /\ Len(s) \in Nat
    OBVIOUS
<1> QED BY ONLY <1>1, DOMAIN f = DOMAIN s, \A k \in DOMAIN s : f[k] \in S, f = [k \in DOMAIN f |-> f[k]]

LEMMA OnDevicesType == ASSUME DevicesType, OnDevices PROVE DevicesType'
<1>0. /\ devices \in Seq(Device) /\ devices_sent \in Seq(Device) /\ devices_socket \in Seq(Seq(Device))
      /\ host_devices \in Seq(HostRow) /\ clock \in Nat /\ daemon \subseteq {"list", "drop"} \X Nat
    BY DEF DevicesType
<1>1. /\ devices_socket # <<>> /\ devices_socket' = Tail(devices_socket)
      /\ UNCHANGED <<admin_left, asking, devices, clock, daemon, devices_sent>>
    BY DEF OnDevices
<1> DEFINE list == Head(devices_socket)
           at(i) == IF i \in DOMAIN host_devices THEN RowFrom(host_devices[i], list[i]) ELSE ShownAs(list[i])
           shown_rows == [i \in DOMAIN list |-> at(i)]
<1>2. list \in Seq(Device) /\ devices_socket' \in Seq(Seq(Device))
    <2>1. devices_socket \in Seq(Seq(Device)) /\ devices_socket # <<>>
        BY <1>0, <1>1
    <2> QED BY ONLY <2>1, <1>1
<1>3. host_devices' = shown_rows
    BY DEF OnDevices
<1> HIDE DEF list
<1>4. ASSUME NEW i \in DOMAIN list PROVE at(i) \in HostRow
    <2>1. list[i] \in Device
        BY <1>2
    <2>2. i \in DOMAIN host_devices => host_devices[i] \in HostRow
        BY <1>0
    <2> QED BY <2>1, <2>2, RowTypes
<1> HIDE DEF at
<1>5. shown_rows \in Seq(HostRow)
    <2>1. DOMAIN shown_rows = DOMAIN list /\ (\A i \in DOMAIN list : shown_rows[i] \in HostRow) /\ shown_rows = [i \in DOMAIN shown_rows |-> shown_rows[i]]
        BY <1>4
    <2> HIDE DEF shown_rows
    <2> QED BY <1>2, <2>1, RowByRow
<1> QED BY <1>0, <1>1, <1>2, <1>3, <1>5 DEF DevicesType

LEMMA DevicesHandledStep == ASSUME AdminTypes, DevicesHandled, reqs' = reqs PROVE DevicesType' /\ Apart
<1>0. /\ devices \in Seq(Device) /\ devices_sent \in Seq(Device) /\ devices_socket \in Seq(Seq(Device))
      /\ host_devices \in Seq(HostRow) /\ clock \in Nat /\ daemon \subseteq {"list", "drop"} \X Nat
    BY DEF AdminTypes, DevicesType
<1> DEFINE at(k, arg) == IF devices[k].id # arg.id THEN devices[k]
                         ELSE [devices[k] EXCEPT !.filter = arg.filter, !.found = 0, !.changed = arg.changed]
           list(arg) == [k \in DOMAIN devices |-> at(k, arg)]
<1>1. PICK i \in DOMAIN asking :
        /\ \/ /\ Handled(i, "update", 0) /\ devices' = list(asking[i].arg)
              /\ daemon' = daemon \cup {<<"list", asking[i].arg.id>>}
           \/ Handled(i, "drop", 0) /\ daemon' = daemon \cup {<<"drop", asking[i].arg>>} /\ UNCHANGED devices
        /\ UNCHANGED <<clock, devices_sent, devices_socket, host_devices>>
    BY DEF DevicesHandled
<1> HIDE DEF list
<1>2. 0 \in AskData /\ DataOK("update", 0, Len(reqs)) /\ DataOK("drop", 0, Len(reqs))
    BY DataType DEF DataOK
<1>3. Apart
    BY <1>1, <1>2, HandledApart
<1> DEFINE arg == asking[i].arg
<1>4. CASE Handled(i, "update", 0) /\ devices' = list(arg) /\ daemon' = daemon \cup {<<"list", arg.id>>}
    <2>1. arg \in HostRow
        BY <1>4, AskedFacts DEF AdminTypes, Handled, ArgOK
    <2> HIDE DEF arg
    <2>2. arg.id \in Nat /\ arg.filter \in Filters /\ arg.changed \in Nat
        BY <2>1 DEF HostRow
    <2>3. ASSUME NEW k \in DOMAIN devices PROVE at(k, arg) \in Device
        <3>1. devices[k] \in Device
            BY <1>0
        <3> QED BY <2>2, <3>1 DEF Device
    <2> HIDE DEF at
    <2>4. /\ DOMAIN list(arg) = DOMAIN devices /\ \A k \in DOMAIN devices : list(arg)[k] \in Device
          /\ list(arg) = [k \in DOMAIN list(arg) |-> list(arg)[k]]
        BY <2>3 DEF list
    <2>5. list(arg) \in Seq(Device)
        BY <1>0, <2>4, RowByRow
    <2>6. daemon' \subseteq {"list", "drop"} \X Nat
        BY <1>0, <1>4, <2>2
    <2> QED BY <1>0, <1>1, <1>3, <1>4, <2>5, <2>6 DEF DevicesType
<1>5. CASE Handled(i, "drop", 0) /\ daemon' = daemon \cup {<<"drop", arg>>} /\ UNCHANGED devices
    <2>1. arg \in Nat
        BY <1>5, AskedFacts DEF AdminTypes, Handled, ArgOK
    <2> QED BY <1>0, <1>1, <1>3, <1>5, <2>1 DEF DevicesType
<1> QED BY <1>1, <1>4, <1>5

LEMMA DevicesDoneType == ASSUME DevicesType, DevicesDone PROVE DevicesType'
<1>0. /\ devices \in Seq(Device) /\ devices_sent \in Seq(Device) /\ devices_socket \in Seq(Seq(Device))
      /\ host_devices \in Seq(HostRow) /\ clock \in Nat /\ daemon \subseteq {"list", "drop"} \X Nat
    BY DEF DevicesType
<1> DEFINE at(k, id) == IF devices[k].id # id THEN devices[k]
                        ELSE [devices[k] EXCEPT !.found = devices[k].filter, !.changed = clock']
           list(id) == [k \in DOMAIN devices |-> at(k, id)]
           others(id) == {d \in ToSet(devices) : d.id # id}
<1>1. PICK job \in daemon :
        /\ daemon' = daemon \ {job}
        /\ clock' \in {clock + 1} \cup (IF admin_left.quick THEN {clock} ELSE {})
        /\ devices' = IF job[1] = "drop" THEN Where(devices, others(job[2])) ELSE list(job[2])
        /\ UNCHANGED <<admin_left, asking, devices_sent, devices_socket, host_devices>>
    BY DEF DevicesDone
<1> HIDE DEF list, others
<1>2. clock' \in Nat
    BY <1>0, <1>1
<1> DEFINE id == job[2]
<1>3. CASE job[1] = "drop"
    <2>1. Where(devices, others(id)) \in Seq(Device)
        BY <1>0, WhereOf
    <2> QED BY <1>0, <1>1, <1>2, <1>3, <2>1 DEF DevicesType
<1>4. CASE job[1] # "drop"
    <2> HIDE DEF id
    <2>1. ASSUME NEW k \in DOMAIN devices PROVE at(k, id) \in Device
        <3>1. devices[k] \in Device
            BY <1>0
        <3> QED BY <1>2, <3>1 DEF Device
    <2> HIDE DEF at
    <2>2. /\ DOMAIN list(id) = DOMAIN devices /\ \A k \in DOMAIN devices : list(id)[k] \in Device
          /\ list(id) = [k \in DOMAIN list(id) |-> list(id)[k]]
        BY <2>1 DEF list
    <2>3. list(id) \in Seq(Device)
        BY <1>0, <2>2, RowByRow
    <2>4. devices' = list(id)
        BY <1>1, <1>4 DEF id
    <2> QED BY <1>0, <1>1, <1>2, <2>3, <2>4 DEF DevicesType
<1> QED BY <1>3, <1>4

LEMMA DevicesStep == ASSUME AdminTypes, DevicesNext, reqs' = reqs PROVE DevicesType' /\ Apart
<1>0. /\ devices \in Seq(Device) /\ devices_sent \in Seq(Device) /\ devices_socket \in Seq(Seq(Device))
      /\ host_devices \in Seq(HostRow) /\ clock \in Nat /\ daemon \subseteq {"list", "drop"} \X Nat
    BY DEF AdminTypes, DevicesType
<1>1. CASE DevicesSend
    <2>1. devices_socket' = Append(devices_socket, devices)
        BY <1>1 DEF DevicesSend
    <2>2. devices_socket' \in Seq(Seq(Device))
        <3>1. devices \in Seq(Device) /\ devices_socket \in Seq(Seq(Device))
            BY <1>0
        <3> QED BY ONLY <2>1, <3>1
    <2> QED BY <1>0, <1>1, <2>2, QuietApart DEF DevicesSend, DevicesType
<1>2. CASE OnDevices
    <2>1. UNCHANGED <<admin_left, asking>>
        BY <1>2 DEF OnDevices
    <2> QED BY <1>2, <2>1, OnDevicesType, QuietApart DEF AdminTypes
<1>3. CASE DevicesClick
    BY <1>3, DevicesClickStep
<1>4. CASE DevicesHandled
    BY <1>4, DevicesHandledStep
<1>5. CASE DevicesBack
    <2>1. PICK i \in DOMAIN asking :
            (Back(i, "update") \/ Back(i, "drop")) /\ asking' = Rest(i) /\ UNCHANGED ofDevices
        BY <1>5 DEF DevicesBack
    <2> QED BY <1>0, <2>1, BackApart DEF ofDevices, DevicesType
<1>6. CASE DevicesDone
    <2>1. UNCHANGED <<admin_left, asking>>
        BY <1>6 DEF DevicesDone
    <2> QED BY <1>6, <2>1, DevicesDoneType, QuietApart DEF AdminTypes
<1>7. CASE OthersDropDevice
    <2>1. PICK k \in DOMAIN devices : daemon' = daemon \cup {<<"drop", devices[k].id>>}
        BY <1>7 DEF OthersDropDevice
    <2>2. devices[k] \in Device
        BY <1>0
    <2>3. daemon' \subseteq {"list", "drop"} \X Nat
        BY <1>0, <2>1, <2>2 DEF Device
    <2>4. SomeoneElse("devices") /\ UNCHANGED <<devices, clock, devices_sent, devices_socket, host_devices>>
        BY <1>7 DEF OthersDropDevice
    <2> QED BY <1>0, <2>3, <2>4, ElseApart DEF DevicesType
<1> QED BY <1>1, <1>2, <1>3, <1>4, <1>5, <1>6, <1>7 DEF DevicesNext

-----------------------------------------------------------------------------
(* The list of nodes.  Requests are made on the way.                        *)
NodeCalls == NodeOps \cup {"list", "connect", "fetch"}

LEMMA NodeCallFacts ==
    NodeCalls \subseteq AskOps /\ \A op \in NodeCalls : op \notin {"unused", "purge", "set", "update", "drop", "exists", "host", "pools"}
BY DEF NodeCalls, AskOps, NodeOps

LEMMA WithListAsked ==
    ASSUME NEW s, NEW n, NEW page, page # "storage", AllAsked(s, n, page), NEW modal
    PROVE  AllAsked(WithList(s, modal), n, page)
<1>1. 0 \in AskArgs /\ "list" \in AskOps
    BY ArgType DEF AskOps
<1>2. ArgOK(AskFor("list", 0), n)
    BY <1>1, AskForType DEF ArgOK, NodeOps
<1>3. AllAsked(Append(s, AskFor("list", 0)), n, page)
    BY <1>1, <1>2, AlsoAsked
<1> QED BY <1>3 DEF WithList

(* One call of a node more.                                                 *)
LEMMA NodeAsked ==
    ASSUME NEW s, NEW n, NEW page, page # "storage", AllAsked(s, n, page), NEW op \in NodeCalls, NEW arg,
           op \in NodeOps \cup {"connect"} => arg \in Nodes, op = "fetch" => arg \in Nat /\ arg \in 1..n,
           op = "list" => arg = 0
    PROVE  AllAsked(Append(s, AskFor(op, arg)), n, page)
<1>1. op \in AskOps /\ op \notin {"unused", "purge", "set", "update", "drop", "exists", "host", "pools"}
    BY NodeCallFacts
<1>2. arg \in AskArgs
    BY ArgType DEF NodeCalls
<1>3. ArgOK(AskFor(op, arg), n)
    BY <1>1, <1>2, AskForType DEF ArgOK
<1> QED BY <1>1, <1>2, <1>3, AlsoAsked

LEMMA NodesClickStep == ASSUME AdminTypes, NodesClick PROVE NodesType' /\ Apart
<1> USE DEF NodesType
<1>0. NodesType /\ AdminClick("nodes") /\ UNCHANGED <<vms, switching, reqs, nodes_shown>>
    BY DEF NodesClick, AdminTypes
<1>1. AllAsked(asking, Len(reqs), "nodes") /\ "nodes" # "storage" /\ reqs' = reqs /\ Len(reqs) \in Nat
    BY <1>0, ClickLeft DEF AdminTypes, AskedType
<1>2. AllAsked(asking', Len(reqs), "nodes") => Apart
    BY <1>0, <1>1, ClickApart
<1>3. ASSUME NEW n \in Nodes, ConfirmDisable(n) PROVE NodesType' /\ Apart
    BY <1>0, <1>1, <1>2, <1>3 DEF ConfirmDisable
<1>4. ASSUME NEW n \in Nodes, Connect(n) PROVE NodesType' /\ Apart
    <2>1. "connect" \in NodeCalls
        BY DEF NodeCalls
    <2>2. asking' = Append(asking, AskFor("connect", n))
        BY <1>4 DEF Connect, AskAlso
    <2>3. AllAsked(Append(asking, AskFor("connect", n)), Len(reqs), "nodes")
        BY <1>1, <2>1, NodeAsked
    <2>4. NoRequest \in [id: 0..Len(reqs), done: BOOLEAN]
        BY <1>1 DEF NoRequest
    <2> QED BY <1>0, <1>1, <1>2, <1>4, <2>2, <2>3, <2>4 DEF Connect
<1>5. ASSUME NEW n \in Nodes, NEW op \in NodeOps, ClickNode(n, op) PROVE NodesType' /\ Apart
    <2>1. op \in NodeCalls /\ op \notin {"list", "fetch"}
        BY DEF NodeCalls, NodeOps
    <2> DEFINE s == Append(asking, AskFor(op, n))
    <2>2. asking' = s \/ asking' = WithList(s, modal_open)
        BY <1>5 DEF ClickNode
    <2>3. AllAsked(s, Len(reqs), "nodes")
        BY <1>1, <2>1, NodeAsked
    <2> HIDE DEF s
    <2>4. AllAsked(WithList(s, modal_open), Len(reqs), "nodes")
        BY <1>1, <2>3, WithListAsked
    <2>5. modal_open' \in BOOLEAN /\ UNCHANGED <<dialog, request_shown>>
        BY <1>0, <1>5 DEF ClickNode
    <2> QED BY <1>0, <1>1, <1>2, <2>2, <2>3, <2>4, <2>5
<1>6. ASSUME NEW how, AnswerDialog(how) PROVE NodesType' /\ Apart
    <2>1. /\ dialog # NoNode /\ dialog' = NoNode /\ modal_open' \in BOOLEAN /\ request_shown' = request_shown
          /\ asking' = Append(asking, AskFor("disable", dialog)) \/ asking' = asking
        BY <1>6 DEF AnswerDialog, AskAlso
    <2>2. "disable" \in NodeCalls /\ dialog \in Nodes
        BY <1>0, <2>1 DEF NodeCalls, NodeOps
    <2>3. AllAsked(Append(asking, AskFor("disable", dialog)), Len(reqs), "nodes")
        BY <1>1, <2>2, NodeAsked
    <2> QED BY <1>0, <1>1, <1>2, <2>1, <2>3
<1> QED BY <1>3, <1>4, <1>5, <1>6 DEF NodesClick

(* A call comes to the server; one to connect makes a request.              *)
LEMMA NodesHandledStep == ASSUME AdminTypes, NodesHandled PROVE NodesType' /\ Apart
<1>0. /\ vms \in [Nodes -> Node] /\ nodes_shown \in [Nodes -> Node]
      /\ switching \subseteq Nodes \X {"start", "shutdown"} /\ reqs \in Seq(BOOLEAN)
      /\ modal_open \in BOOLEAN /\ dialog \in Nodes \cup {NoNode}
      /\ request_shown \in [id: 0..Len(reqs), done: BOOLEAN] /\ Len(reqs) \in Nat
    BY DEF AdminTypes, NodesType
<1> DEFINE tell(op, n) == CASE op = "connect" -> Len(reqs) + 1 [] op = "fetch" -> reqs[n] [] OTHER -> 0
<1>1. PICK i \in DOMAIN asking, op \in NodeOps \cup {"connect", "fetch"} :
        /\ asking[i].op = op /\ Handled(i, op, tell(op, asking[i].arg))
        /\ vms' = CASE op = "enable" -> [vms EXCEPT ![asking[i].arg].enabled = TRUE]
                    [] op = "disable" -> [vms EXCEPT ![asking[i].arg].enabled = FALSE]
                    [] op = "remove" -> [vms EXCEPT ![asking[i].arg].there = FALSE]
                    [] OTHER -> vms
        /\ switching' = IF op \in {"start", "shutdown"} THEN switching \cup {<<asking[i].arg, op>>} ELSE switching
        /\ reqs' = IF op = "connect" THEN Append(reqs, FALSE) ELSE reqs
        /\ UNCHANGED <<nodes_shown, modal_open, dialog, request_shown>>
    BY DEF NodesHandled
<1> DEFINE n == asking[i].arg
           data == tell(op, n)
<1>2. /\ op \in NodeOps \cup {"connect"} => n \in Nodes
      /\ op = "fetch" => n \in 1..Len(reqs)
      /\ op \in NodeCalls
    BY <1>1, AskedFacts DEF AdminTypes, ArgOK, NodeCalls
<1>3. op \notin {"unused", "purge", "set", "update", "drop", "exists", "host", "pools", "list"}
    BY NodeCallFacts, <1>2 DEF NodeOps
<1>4. data = CASE op = "connect" -> Len(reqs) + 1 [] op = "fetch" -> reqs[n] [] OTHER -> 0
    OBVIOUS
<1>5. Handled(i, op, data)
    BY <1>1
<1> HIDE DEF tell, n, data
<1>6. /\ reqs' \in Seq(BOOLEAN) /\ Len(reqs') \in Nat /\ Len(reqs) <= Len(reqs')
      /\ op = "connect" => Len(reqs') = Len(reqs) + 1
    <2>1. reqs \in Seq(BOOLEAN) /\ Len(reqs) \in Nat
        BY <1>0
    <2>2. reqs' = IF op = "connect" THEN Append(reqs, FALSE) ELSE reqs
        BY <1>1
    <2>3. Append(reqs, FALSE) \in Seq(BOOLEAN) /\ Len(Append(reqs, FALSE)) = Len(reqs) + 1
        BY <2>1, AppendProperties
    <2>4. reqs' = reqs \/ reqs' = Append(reqs, FALSE)
        BY <2>2
    <2>5. Len(reqs') = IF op = "connect" THEN Len(reqs) + 1 ELSE Len(reqs)
        BY <2>2, <2>3
    <2>6. reqs' \in Seq(BOOLEAN)
        BY <2>1, <2>3, <2>4
    <2> QED BY <2>1, <2>5, <2>6
<1>7. data \in AskData /\ DataOK(op, data, Len(reqs'))
    <2>1. CASE op = "connect"
        <3>1. data = Len(reqs) + 1
            BY <1>4, <2>1
        <3>2. data \in Nat /\ data \in 1..Len(reqs')
            BY <1>0, <1>6, <2>1, <3>1
        <3> QED BY <2>1, <3>2, DataType DEF DataOK
    <2>2. CASE op = "fetch"
        <3>1. data = reqs[n] /\ n \in 1..Len(reqs)
            BY <1>2, <1>4, <2>2
        <3>2. data \in BOOLEAN
            BY <1>0, <3>1
        <3> QED BY <2>2, <3>2, DataType DEF DataOK
    <2>3. CASE op \notin {"connect", "fetch"}
        <3>1. data = 0
            BY <1>4, <2>3
        <3> QED BY <1>3, <2>3, <3>1, DataType DEF DataOK
    <2> QED BY <2>1, <2>2, <2>3
<1>8. Apart
    <2>1. AllAsked(asking, Len(reqs), admin_left.page) /\ admin_left' = admin_left /\ asking[i].op = op
        BY <1>1 DEF AdminTypes, AskedType, Handled
    <2>2. AllAsked(asking, Len(reqs'), admin_left.page)
        BY <1>0, <1>6, <2>1, MoreRequests
    <2>3. AllAsked(asking', Len(reqs'), admin_left.page)
        BY <1>5, <1>7, <2>2, HandledAsked
    <2>4. admin_left.page # "storage"
        BY <1>3, <2>1, AskedFacts DEF AdminTypes
    <2> QED BY <2>1, <2>3, <2>4 DEF AdminTypes, AskedType, Apart
<1>9. vms' \in [Nodes -> Node]
    <2>1. CASE op \in NodeOps
        <3>1. n \in Nodes
            BY <1>2, <2>1
        <3>2. vms' = CASE op = "enable" -> [vms EXCEPT ![n].enabled = TRUE]
                    [] op = "disable" -> [vms EXCEPT ![n].enabled = FALSE]
                    [] op = "remove" -> [vms EXCEPT ![n].there = FALSE]
                    [] OTHER -> vms
            BY <1>1 DEF n
        <3> QED BY <1>0, <3>1, <3>2 DEF Node
    <2>2. CASE op \in {"connect", "fetch"}
        BY <1>0, <1>1, <2>2
    <2> QED BY <1>1, <2>1, <2>2
<1>10. switching' \subseteq Nodes \X {"start", "shutdown"}
    <2>1. CASE op \in {"start", "shutdown"}
        <3>1. n \in Nodes /\ switching' = switching \cup {<<n, op>>}
            BY <1>1, <1>2, <2>1 DEF NodeOps, n
        <3> QED BY <1>0, <2>1, <3>1
    <2>2. CASE op \notin {"start", "shutdown"}
        BY <1>0, <1>1, <2>2
    <2> QED BY <2>1, <2>2
<1>11. request_shown' \in [id: 0..Len(reqs'), done: BOOLEAN]
    <2>1. 0..Len(reqs) \subseteq 0..Len(reqs')
        BY <1>0, <1>6
    <2> QED BY <1>0, <1>1, <2>1
<1> QED BY <1>0, <1>1, <1>6, <1>8, <1>9, <1>10, <1>11 DEF NodesType

(* And its answer to the page.                                              *)
LEMMA NodesBackStep == ASSUME AdminTypes, NodesBack PROVE NodesType' /\ Apart
<1>0. NodesType /\ Len(reqs) \in Nat
    BY DEF AdminTypes, NodesType
<1>1. PICK i \in DOMAIN asking, op \in NodeOps \cup {"connect", "fetch"} :
        /\ Back(i, op)
        /\ request_shown' = IF op = "fetch" THEN [id |-> asking[i].arg, done |-> asking[i].data]
                            ELSE request_shown
        /\ asking' = CASE op = "remove" -> Rest(i)
                       [] op = "connect" -> Append(Rest(i), AskFor("fetch", asking[i].data))
                       [] op = "fetch" /\ ~asking[i].data -> Append(Rest(i), AskFor("fetch", asking[i].arg))
                       [] OTHER -> WithList(Rest(i), modal_open)
        /\ UNCHANGED <<vms, switching, reqs, nodes_shown, modal_open, dialog>>
    BY DEF NodesBack
<1> DEFINE page == admin_left.page
<1>2. /\ admin_left' = admin_left /\ asking[i].op = op /\ op \in NodeCalls
      /\ AllAsked(asking, Len(reqs), page) /\ admin_left \in AdminStory
    BY <1>1 DEF Back, AdminTypes, AskedType, NodeCalls
<1>3. /\ op = "fetch" => asking[i].arg \in 1..Len(reqs) /\ asking[i].data \in BOOLEAN
      /\ op = "connect" => asking[i].data \in 1..Len(reqs)
      /\ page # "storage"
    <2>1. asking[i].answered /\ op \notin {"unused", "purge"}
        BY <1>1, <1>2, NodeCallFacts DEF Back
    <2> QED BY <1>2, <2>1, AskedFacts DEF AdminTypes, ArgOK, DataOK
<1> DEFINE told == asking[i].data
           about == asking[i].arg
           s == Rest(i)
<1>4. AllAsked(s, Len(reqs), page)
    BY <1>2, RestAsked
<1>5. "fetch" \in NodeCalls /\ "fetch" \notin NodeOps \cup {"connect"} /\ "fetch" # "list"
    BY DEF NodeCalls, NodeOps
<1>6. /\ \/ asking' = s
         \/ asking' = WithList(s, modal_open)
         \/ op = "connect" /\ asking' = Append(s, AskFor("fetch", told))
         \/ op = "fetch" /\ asking' = Append(s, AskFor("fetch", about))
      /\ request_shown' = IF op = "fetch" THEN [id |-> about, done |-> told] ELSE request_shown
    BY <1>1
<1>7. /\ op = "fetch" => about \in 1..Len(reqs) /\ told \in BOOLEAN
      /\ op = "connect" => told \in 1..Len(reqs)
    BY <1>3
<1> HIDE DEF told, about, s, page
<1>8. AllAsked(WithList(s, modal_open), Len(reqs), page)
    BY <1>3, <1>4, WithListAsked
<1>9. op = "connect" => AllAsked(Append(s, AskFor("fetch", told)), Len(reqs), page)
    <2>1. op = "connect" => told \in Nat
        BY <1>0, <1>7
    <2> QED BY <1>3, <1>4, <1>5, <1>7, <2>1, NodeAsked
<1>10. op = "fetch" => AllAsked(Append(s, AskFor("fetch", about)), Len(reqs), page)
    <2>1. op = "fetch" => about \in Nat
        BY <1>0, <1>7
    <2> QED BY <1>3, <1>4, <1>5, <1>7, <2>1, NodeAsked
<1>11. AllAsked(asking', Len(reqs), page)
    BY <1>4, <1>6, <1>8, <1>9, <1>10
<1>12. Apart
    BY <1>1, <1>2, <1>3, <1>11 DEF page, AskedType, Apart
<1>13. NodesType'
    BY <1>0, <1>1, <1>6, <1>7 DEF NodesType
<1> QED BY <1>12, <1>13

LEMMA NodesStep == ASSUME AdminTypes, NodesNext PROVE NodesType' /\ Apart
<1>0. NodesType
    BY DEF AdminTypes
<1>1. CASE ListsHandled
    <2>1. PICK i \in DOMAIN asking : Handled(i, "list", vms) /\ UNCHANGED ofNodes
        BY <1>1 DEF ListsHandled
    <2>2. vms \in [Nodes -> Node] /\ vms \in AskData
        BY <1>0, DataType DEF NodesType
    <2>3. DataOK("list", vms, Len(reqs))
        BY <2>2 DEF DataOK
    <2> QED BY <1>0, <2>1, <2>2, <2>3, HandledApart DEF ofNodes, NodesType
<1>2. CASE ListsBack
    <2>1. PICK i \in DOMAIN asking :
            /\ Back(i, "list") /\ nodes_shown' = asking[i].data /\ asking' = Rest(i)
            /\ UNCHANGED <<vms, switching, reqs, modal_open, dialog, request_shown>>
        BY <1>2 DEF ListsBack
    <2>2. asking[i].data \in [Nodes -> Node]
        BY <2>1, AskedFacts DEF Back, DataOK, AdminTypes
    <2>3. Apart
        BY <2>1, BackApart
    <2> QED BY <1>0, <2>1, <2>2, <2>3 DEF NodesType
<1>3. CASE Poll
    <2>1. /\ admin_left.page = "nodes" /\ asking' = Append(asking, AskFor("list", 0))
          /\ UNCHANGED <<admin_left, ofNodes>>
        BY <1>3 DEF Poll, AskAlso
    <2>2. AllAsked(asking, Len(reqs), "nodes") /\ "nodes" # "storage" /\ "list" \in NodeCalls
        BY <2>1 DEF AdminTypes, AskedType, NodeCalls
    <2>3. "list" \notin NodeOps \cup {"connect"}
        BY DEF NodeOps
    <2>4. AllAsked(asking', Len(reqs), "nodes")
        BY <2>1, <2>2, <2>3, NodeAsked
    <2>5. reqs' = reqs /\ admin_left \in AdminStory
        BY <2>1 DEF ofNodes, AdminTypes
    <2>6. Apart
        BY <2>1, <2>4, <2>5 DEF AskedType, Apart
    <2> QED BY <1>0, <2>1, <2>6 DEF ofNodes, NodesType
<1>4. CASE NodesHandled
    BY <1>4, NodesHandledStep
<1>5. CASE NodesDone
    <2>1. UNCHANGED <<admin_left, asking, nodes_shown, modal_open, dialog, request_shown>>
        BY <1>5 DEF NodesDone
    <2>2. CASE \E turn \in switching :
                /\ switching' = switching \ {turn}
                /\ vms' = [vms EXCEPT ![turn[1]].active = (turn[2] = "start")] /\ UNCHANGED reqs
        <3>1. PICK turn \in switching :
                /\ switching' = switching \ {turn}
                /\ vms' = [vms EXCEPT ![turn[1]].active = (turn[2] = "start")] /\ UNCHANGED reqs
            BY <2>2
        <3>2. vms' \in [Nodes -> Node]
            <4> DEFINE on == turn[2] = "start"
            <4>1. on \in BOOLEAN /\ vms' = [vms EXCEPT ![turn[1]].active = on]
                BY <3>1
            <4> HIDE DEF on
            <4> QED BY <1>0, <3>1, <4>1 DEF NodesType, Node
        <3>3. switching' \subseteq Nodes \X {"start", "shutdown"}
            BY <1>0, <3>1 DEF NodesType
        <3> QED BY <1>0, <2>1, <3>1, <3>2, <3>3, QuietApart DEF NodesType
    <2>3. CASE \E r \in DOMAIN reqs :
                ~reqs[r] /\ reqs' = [reqs EXCEPT ![r] = TRUE] /\ UNCHANGED <<vms, switching>>
        <3>1. PICK r \in DOMAIN reqs : reqs' = [reqs EXCEPT ![r] = TRUE] /\ UNCHANGED <<vms, switching>>
            BY <2>3
        <3>2. reqs \in Seq(BOOLEAN)
            BY <1>0 DEF NodesType
        <3>3. reqs' \in Seq(BOOLEAN) /\ Len(reqs') = Len(reqs)
            BY ONLY <3>1, <3>2
        <3>4. Apart
            BY <2>1, <3>3 DEF AdminTypes, AskedType, Apart
        <3> QED BY <1>0, <2>1, <3>1, <3>3, <3>4 DEF NodesType
    <2> QED BY <1>5, <2>2, <2>3 DEF NodesDone
<1>6. CASE NodesBack
    BY <1>6, NodesBackStep
<1>7. CASE NodesClick
    BY <1>7, NodesClickStep
<1> QED BY <1>1, <1>2, <1>3, <1>4, <1>5, <1>6, <1>7 DEF NodesNext

-----------------------------------------------------------------------------
(* The volumes no machine uses.                                             *)

(* What a page lists: the files from the one after first, to one more than  *)
(* the limit.                                                               *)
LEMMA FilesFromFacts ==
    ASSUME unused \subseteq 1..MaxFiles, NEW first \in Nat
    PROVE  /\ FilesFrom(first) \in Seq(1..MaxFiles)
           /\ Cardinality(unused) \in Nat
           /\ DOMAIN Ascending(unused) = 1..Cardinality(unused)
           /\ \A n \in DOMAIN Ascending(unused) :
                first < n /\ n <= first + Limit + 1 => Ascending(unused)[n] \in ToSet(FilesFrom(first))
           /\ \A f \in unused : \E n \in DOMAIN Ascending(unused) : Ascending(unused)[n] = f
<1> DEFINE files == Ascending(unused)
           n == Cardinality(unused)
           T == 1..MaxFiles
           last == IF first + Limit + 1 < n THEN first + Limit + 1 ELSE n
<1>1. MaxFiles \in Nat /\ Limit \in Nat \ {0} /\ first \in Nat
    BY AdminAssumption
<1>2. IsFiniteSet(unused) /\ unused \in SUBSET Nat
    <2>1. IsFiniteSet(1..MaxFiles)
        BY <1>1, FS_Interval
    <2>2. unused \in SUBSET (1..MaxFiles)
        OBVIOUS
    <2>3. IsFiniteSet(unused)
        BY <2>1, <2>2, FS_Subset
    <2> QED BY <1>1, <2>2, <2>3
<1>3. /\ n \in Nat /\ files \in [1..n -> unused]
      /\ \A f \in unused : \E i \in 1..n : files[i] = f
    BY <1>2, AscendingType
<1> HIDE DEF files, n
<1>4. files \in Seq(unused) /\ Len(files) = n /\ DOMAIN files = 1..n
    BY <1>3
<1>5. \A k \in 1..n : files[k] \in T
    BY <1>3
<1> HIDE DEF T
<1>6. files \in Seq(T) /\ last \in Int /\ last <= n
    BY <1>1, <1>3, <1>4, <1>5
<1>7. FilesFrom(first) = SubSeq(files, first + 1, last)
    BY <1>4 DEF FilesFrom, files
<1> DEFINE piece == SubSeq(files, first + 1, last)
<1>8. /\ piece \in Seq(T)
      /\ \A k \in 1..last - (first + 1) + 1 : piece[k] = files[first + 1 + k - 1]
      /\ Len(piece) = IF first + 1 <= last THEN last - (first + 1) + 1 ELSE 0
    <2>1. first + 1 \in Int /\ last \in Int /\ \A k \in first + 1..last : files[k] \in T
        BY <1>1, <1>3, <1>5, <1>6
    <2> HIDE DEF last
    <2> QED BY <2>1, SubSeqProperties
<1>9. ASSUME NEW k \in 1..n, first < k, k <= first + Limit + 1 PROVE files[k] \in ToSet(piece)
    <2>1. k <= last
        BY <1>1, <1>3, <1>9
    <2> HIDE DEF last
    <2> DEFINE at == k - first
    <2>2. first + 1 <= last /\ at \in 1..last - (first + 1) + 1 /\ first + 1 + at - 1 = k
        BY <1>1, <1>3, <1>6, <1>9, <2>1
    <2> HIDE DEF at, piece
    <2>3. piece[at] = files[k]
        BY <1>8, <2>2
    <2>4. at \in 1..Len(piece)
        <3> HIDE DEF last
        <3> QED BY <1>8, <2>2
    <2>5. at \in DOMAIN piece
        BY ONLY <2>4, <1>8
    <2> QED BY <2>3, <2>5 DEF ToSet
<1> QED BY <1>3, <1>4, <1>7, <1>8, <1>9 DEF T, files, n

LEMMA StorageCall ==
    ASSUME NEW s, NEW n, AllAsked(s, n, "storage"), NEW op, NEW arg,
           \/ op = "unused" /\ arg \in Nat
           \/ op = "purge" /\ arg \in SUBSET (1..MaxFiles)
    PROVE  AllAsked(Append(s, AskFor(op, arg)), n, "storage")
<1>1. op \in AskOps /\ arg \in AskArgs
    BY ArgType DEF AskOps
<1>2. ArgOK(AskFor(op, arg), n)
    BY <1>1, AskForType DEF ArgOK, NodeOps
<1> QED BY <1>1, <1>2, AlsoAsked

(* What a step of this page keeps.                                          *)
Stored ==
    /\ StorageType' /\ AskedType'
    /\ admin_left' \in AdminStory /\ admin_left'.page = admin_left.page

LEMMA StorageHandledStep == ASSUME AdminInv, StorageHandled, reqs' = reqs PROVE Stored /\ StorageInv'
<1>0. StorageType
    BY DEF AdminInv, AdminTypes
<1> DEFINE told(first) == [files |-> FilesFrom(first), more |-> MoreFrom(first)]
<1>1. PICK i \in DOMAIN asking :
        /\ \/ /\ asking[i].op = "unused" /\ UNCHANGED purging
              /\ Handled(i, "unused", told(asking[i].arg))
           \/ Handled(i, "purge", 0) /\ purging' = purging \cup asking[i].arg
        /\ UNCHANGED <<unused, start, unused_volumes, list_more, loading_unused>>
    BY DEF StorageHandled
<1>2. /\ admin_left' = admin_left /\ AllAsked(asking, Len(reqs), admin_left.page)
      /\ admin_left \in AdminStory /\ asking[i].op \in {"unused", "purge"}
    BY <1>1 DEF Handled, AdminInv, AdminTypes, AskedType
<1>3. admin_left.page = "storage"
    BY <1>2, AskedFacts DEF AdminInv, AdminTypes
<1>4. CASE asking[i].op = "unused" /\ UNCHANGED purging /\ Handled(i, "unused", told(asking[i].arg))
    <2> DEFINE arg == asking[i].arg
               data == told(arg)
    <2>1. arg \in Nat
        BY <1>4, AskedFacts DEF AdminInv, AdminTypes, ArgOK
    <2>2. data = [files |-> FilesFrom(arg), more |-> MoreFrom(arg)] /\ Handled(i, "unused", data)
        BY <1>4
    <2> HIDE DEF told, arg, data
    <2>3. data \in ListedFiles
        <3>1. FilesFrom(arg) \in Seq(1..MaxFiles)
            BY <1>0, <2>1, FilesFromFacts DEF StorageType
        <3>2. MoreFrom(arg) \in BOOLEAN
            BY DEF MoreFrom
        <3> QED BY <2>2, <3>1, <3>2 DEF ListedFiles
    <2>4. data \in AskData /\ DataOK("unused", data, Len(reqs))
        BY <2>3, DataType DEF DataOK, NodeOps
    <2>5. /\ AllAsked(asking', Len(reqs), admin_left.page) /\ DOMAIN asking' = DOMAIN asking
          /\ Len(asking') = Len(asking)
          /\ \A k \in DOMAIN asking \ {i} : asking'[k] = asking[k]
          /\ asking'[i].op = "unused" /\ asking'[i].arg = asking[i].arg
          /\ asking'[i].answered /\ asking'[i].data = data
        BY <1>2, <2>2, <2>4, HandledAsked
    <2>6. Stored
        BY <1>0, <1>1, <1>2, <1>4, <2>5 DEF Stored, StorageType, AskedType
    <2>7. ASSUME Paging PROVE Paging'
        <3>1. arg = start
            BY <2>7 DEF Paging, arg
        <3>2. data = [files |-> FilesFrom(start), more |-> MoreFrom(start)]
            BY <2>2, <3>1
        <3>3. /\ FilesFrom(start)' = FilesFrom(start) /\ MoreFrom(start)' = MoreFrom(start)
              /\ \A last : Upto(last)' <=> Upto(last)
            BY <1>1 DEF FilesFrom, MoreFrom, Upto
        <3>4. \A k \in DOMAIN asking' :
                /\ asking'[k].op = "unused" /\ asking'[k].arg = start
                /\ asking'[k].answered => asking'[k].data = [files |-> FilesFrom(start), more |-> MoreFrom(start)]
            BY <2>5, <2>7, <3>1, <3>2 DEF Paging, arg
        <3> QED BY <1>1, <1>4, <2>5, <2>7, <3>3, <3>4 DEF Paging
    <2> QED BY <1>2, <1>3, <2>6, <2>7 DEF AdminInv, StorageInv
<1>5. CASE Handled(i, "purge", 0) /\ purging' = purging \cup asking[i].arg
    <2>1. asking[i].op = "purge"
        BY <1>5 DEF Handled
    <2>2. asking[i].arg \in SUBSET (1..MaxFiles)
        BY <2>1, AskedFacts DEF AdminInv, AdminTypes, ArgOK
    <2>3. 0 \in AskData /\ DataOK("purge", 0, Len(reqs))
        BY DataType DEF DataOK
    <2>4. AllAsked(asking', Len(reqs), admin_left.page)
        BY <1>2, <1>5, <2>3, HandledAsked
    <2>5. Stored
        BY <1>0, <1>1, <1>2, <1>5, <2>2, <2>4 DEF Stored, StorageType, AskedType
    <2>6. ~Paging
        BY <2>1 DEF Paging
    <2> QED BY <1>2, <1>3, <2>5, <2>6 DEF AdminInv, StorageInv
<1> QED BY <1>1, <1>4, <1>5

LEMMA OnUnusedStep ==
    ASSUME AdminInv, NEW i \in DOMAIN asking, OnUnused(i), UNCHANGED <<unused, purging>>, reqs' = reqs
    PROVE  Stored /\ StorageInv'
<1>0. StorageType
    BY DEF AdminInv, AdminTypes
<1> DEFINE data == asking[i].data
           seen == unused_volumes.files
<1>1. /\ Back(i, "unused") /\ loading_unused' = FALSE /\ list_more' = data.more
      /\ unused_volumes' = [listed |-> TRUE, files |-> seen \o data.files]
      /\ asking' = Rest(i) /\ start' = start
    BY DEF OnUnused
<1>2. /\ admin_left' = admin_left /\ AllAsked(asking, Len(reqs), admin_left.page)
      /\ admin_left \in AdminStory /\ asking[i].op = "unused" /\ asking[i].answered
    BY <1>1 DEF Back, AdminInv, AdminTypes, AskedType
<1>3. data \in ListedFiles /\ admin_left.page = "storage"
    BY <1>2, AskedFacts DEF AdminInv, AdminTypes, DataOK
<1>4. AllAsked(asking', Len(reqs), admin_left.page) /\ Len(asking') = Len(asking) - 1
    BY <1>1, <1>2, RestAsked
<1>5. seen \in Seq(1..MaxFiles) /\ data.files \in Seq(1..MaxFiles) /\ data.more \in BOOLEAN
    BY <1>0, <1>3 DEF StorageType, ListedFiles
<1> DEFINE shown == unused_volumes'.files
           new == data.files
<1>6. unused_volumes'.listed /\ shown = seen \o new /\ unused_volumes' = [listed |-> TRUE, files |-> seen \o new]
    BY <1>1
<1> HIDE DEF seen, new
<1>7. seen \o new \in Seq(1..MaxFiles)
    BY <1>5, ConcatProperties DEF new
<1>8. ToSet(shown) = ToSet(seen) \cup ToSet(new)
    <2>1. seen \in Seq(1..MaxFiles) /\ new \in Seq(1..MaxFiles)
        BY <1>5 DEF new
    <2>2. /\ Len(seen \o new) = Len(seen) + Len(new)
          /\ \A k \in 1..Len(seen) + Len(new) :
                (seen \o new)[k] = IF k <= Len(seen) THEN seen[k] ELSE new[k - Len(seen)]
        BY <2>1, ConcatProperties
    <2>3. /\ DOMAIN seen = 1..Len(seen) /\ DOMAIN new = 1..Len(new) /\ Len(seen) \in Nat /\ Len(new) \in Nat
          /\ DOMAIN (seen \o new) = 1..Len(seen) + Len(new)
        BY <1>7, <2>1, <2>2
    <2> DEFINE both == seen \o new
    <2> HIDE DEF both
    <2>4. /\ DOMAIN both = 1..Len(seen) + Len(new)
          /\ \A k \in DOMAIN both : both[k] = IF k <= Len(seen) THEN seen[k] ELSE new[k - Len(seen)]
        BY <2>2, <2>3 DEF both
    <2>5. \A k \in DOMAIN both : both[k] \in ToSet(seen) \cup ToSet(new)
        <3> TAKE k \in DOMAIN both
        <3>1. CASE k <= Len(seen)
            BY <2>3, <2>4, <3>1 DEF ToSet
        <3>2. CASE ~(k <= Len(seen))
            <4>1. k - Len(seen) \in DOMAIN new
                BY <2>3, <2>4, <3>2
            <4> QED BY <2>4, <3>2, <4>1 DEF ToSet
        <3> QED BY <3>1, <3>2
    <2>6. \A k \in DOMAIN seen : \E j \in DOMAIN both : both[j] = seen[k]
        <3> TAKE k \in DOMAIN seen
        <3>1. k \in DOMAIN both /\ k <= Len(seen)
            BY <2>3, <2>4
        <3> QED BY <2>4, <3>1
    <2>7. \A k \in DOMAIN new : \E j \in DOMAIN both : both[j] = new[k]
        <3> TAKE k \in DOMAIN new
        <3> DEFINE j == k + Len(seen)
        <3>1. j \in DOMAIN both /\ ~(j <= Len(seen)) /\ j - Len(seen) = k
            BY <2>3, <2>4
        <3> HIDE DEF j
        <3>2. both[j] = new[j - Len(seen)]
            BY <2>4, <3>1
        <3> QED BY <3>1, <3>2
    <2>8. ToSet(both) = ToSet(seen) \cup ToSet(new)
        BY <2>5, <2>6, <2>7 DEF ToSet
    <2> QED BY <1>6, <2>8 DEF both
<1>9. Stored
    <2>1. unused_volumes' \in [listed: BOOLEAN, files: Seq(1..MaxFiles)]
        BY <1>6, <1>7
    <2> QED BY <1>0, <1>1, <1>2, <1>4, <1>5, <2>1 DEF Stored, StorageType, AskedType
<1>10. ASSUME Paging PROVE Paging'
    <2>1. /\ new = FilesFrom(start) /\ list_more' = MoreFrom(start)
        <3>1. data = [files |-> FilesFrom(start), more |-> MoreFrom(start)]
            BY <1>2, <1>10 DEF Paging
        <3> QED BY <1>1, <3>1 DEF new
    <2>2. Len(asking) \in Nat /\ i \in 1..Len(asking)
        BY <1>2 DEF AllAsked
    <2>3. Len(asking') = 0
        BY <1>4, <1>10, <2>2 DEF Paging
    <2>4. DOMAIN asking' = {}
        BY <1>4, <2>3 DEF AllAsked
    <2>5. MoreFrom(start)' = MoreFrom(start) /\ Ascending(unused)' = Ascending(unused)
        BY <1>1 DEF MoreFrom
    <2>6. start \in Nat /\ Limit \in Nat /\ unused \subseteq 1..MaxFiles
        BY <1>0, AdminAssumption DEF StorageType
    <2> DEFINE files == Ascending(unused)
    <2>7. /\ DOMAIN files = 1..Cardinality(unused) /\ Cardinality(unused) \in Nat
          /\ \A n \in DOMAIN files : start < n /\ n <= start + Limit + 1 => files[n] \in ToSet(new)
          /\ \A n \in DOMAIN files : n <= start => files[n] \in ToSet(seen)
        BY <1>10, <2>1, <2>6, FilesFromFacts DEF Paging, Upto, seen
    <2>8. Upto(start)' /\ Upto(start + Limit + 1)'
        <3> HIDE DEF files
        <3>1. \A n \in DOMAIN files : n <= start + Limit + 1 => files[n] \in ToSet(shown)
            <4> TAKE n \in DOMAIN files
            <4>1. n \in Nat /\ (n <= start \/ start < n)
                BY <2>6, <2>7
            <4> QED BY <1>8, <2>7, <4>1
        <3>2. \A n \in DOMAIN files : n <= start => n <= start + Limit + 1
            BY <2>6, <2>7
        <3>3. Ascending(unused)' = files
            BY <2>5 DEF files
        <3> QED BY <1>1, <3>1, <3>2, <3>3 DEF Upto
    <2> QED BY <1>1, <1>10, <2>1, <2>3, <2>4, <2>5, <2>8 DEF Paging
<1> QED BY <1>2, <1>3, <1>9, <1>10 DEF AdminInv, StorageInv

LEMMA OnPurgedStep ==
    ASSUME AdminInv, NEW i \in DOMAIN asking, OnPurged(i), UNCHANGED <<unused, purging>>, reqs' = reqs
    PROVE  Stored /\ StorageInv'
<1>0. StorageType
    BY DEF AdminInv, AdminTypes
<1>1. /\ Back(i, "purge") /\ start' = 0 /\ unused_volumes' = Unlisted /\ loading_unused' = TRUE
      /\ asking' = Append(Rest(i), AskFor("unused", 0)) /\ list_more' = list_more
    BY DEF OnPurged, AskAlso
<1>2. /\ admin_left' = admin_left /\ AllAsked(asking, Len(reqs), admin_left.page)
      /\ admin_left \in AdminStory /\ asking[i].op = "purge"
    BY <1>1 DEF Back, AdminInv, AdminTypes, AskedType
<1>3. admin_left.page = "storage"
    BY <1>2, AskedFacts DEF AdminInv, AdminTypes
<1>4. AllAsked(Rest(i), Len(reqs), "storage")
    BY <1>2, <1>3, RestAsked
<1>5. AllAsked(asking', Len(reqs), "storage")
    BY <1>1, <1>4, StorageCall
<1>6. Unlisted \in [listed: BOOLEAN, files: Seq(1..MaxFiles)]
    <2>1. <<>> \in Seq(1..MaxFiles)
        OBVIOUS
    <2> QED BY <2>1 DEF Unlisted
<1>7. Stored
    BY <1>0, <1>1, <1>2, <1>3, <1>5, <1>6 DEF Stored, StorageType, AskedType
<1>8. ~Paging
    BY <1>2 DEF Paging
<1> QED BY <1>2, <1>3, <1>7, <1>8 DEF AdminInv, StorageInv

(* The next page starts a limit further, one before the end of this one.    *)
LEMMA MoreStep ==
    ASSUME AdminInv, AdminClick("storage"), More, UNCHANGED <<unused, purging>>, reqs' = reqs
    PROVE  Stored /\ StorageInv'
<1>0. StorageType /\ start \in Nat /\ Limit \in Nat \ {0} /\ unused \subseteq 1..MaxFiles
    BY AdminAssumption DEF AdminInv, AdminTypes, StorageType
<1>1. /\ ~loading_unused /\ start' = start + Limit /\ loading_unused' = TRUE
      /\ asking' = Append(asking, AskFor("unused", start')) /\ UNCHANGED <<unused_volumes, list_more>>
    BY DEF More, AskAlso
<1>2. /\ admin_left.page = "storage" /\ admin_left' \in AdminStory /\ admin_left'.page = "storage"
      /\ admin_left'.others = admin_left.others
    BY ClickLeft DEF AdminInv, AdminTypes
<1>3. AllAsked(asking, Len(reqs), "storage") /\ start' \in Nat
    BY <1>0, <1>1, <1>2 DEF AdminInv, AdminTypes, AskedType
<1>4. AllAsked(asking', Len(reqs), "storage")
    BY <1>1, <1>3, StorageCall
<1>5. Stored
    BY <1>0, <1>1, <1>2, <1>3, <1>4 DEF Stored, StorageType, AskedType
<1>6. ASSUME Paging PROVE Paging'
    <2>1. asking \in Seq(AskCall) /\ Len(asking) = 0
        BY <1>1, <1>3, <1>6 DEF Paging, AllAsked
    <2> DEFINE c == AskFor("unused", start')
    <2>2. c.op = "unused" /\ c.arg = start' /\ ~c.answered
        BY DEF AskFor
    <2>3. asking' = Append(asking, c)
        BY <1>1
    <2> HIDE DEF c
    <2>4. Len(asking') = 1 /\ DOMAIN asking' = {1} /\ asking'[1] = c
        BY <2>1, <2>3
    <2>5. Upto(start + Limit + 1)
        BY <1>1, <1>6 DEF Paging
    <2>6. Upto(start)'
        <3>1. DOMAIN Ascending(unused) \subseteq Nat
            BY <1>0, FilesFromFacts
        <3>2. \A n \in DOMAIN Ascending(unused) : n <= start' => n <= start + Limit + 1
            BY <1>0, <1>1, <3>1
        <3>3. unused' = unused /\ unused_volumes' = unused_volumes
            BY <1>1
        <3> QED BY <2>5, <3>2, <3>3 DEF Upto
    <2> QED BY <1>1, <1>6, <2>2, <2>4, <2>6 DEF Paging
<1> QED BY <1>2, <1>5, <1>6 DEF AdminInv, StorageInv

LEMMA RemoveSelectedStep ==
    ASSUME AdminInv, AdminClick("storage"), RemoveSelected, UNCHANGED <<unused, purging>>, reqs' = reqs
    PROVE  Stored /\ StorageInv'
<1>0. StorageType /\ unused_volumes \in [listed: BOOLEAN, files: Seq(1..MaxFiles)]
    BY DEF AdminInv, AdminTypes, StorageType
<1>1. PICK f \in ToSet(unused_volumes.files) :
        /\ unused_volumes' = [unused_volumes EXCEPT !.files = Where(@, ToSet(@) \ {f})]
        /\ AskAlso(asking, "purge", {f})
    BY DEF RemoveSelected
<1>2. admin_left.others > 0 /\ UNCHANGED <<start, list_more, loading_unused>>
    BY DEF RemoveSelected
<1>3. /\ admin_left.page = "storage" /\ admin_left' \in AdminStory /\ admin_left'.page = "storage"
      /\ admin_left'.others = admin_left.others /\ admin_left.others \in Nat
    BY ClickLeft DEF AdminInv, AdminTypes, AdminStory
<1> DEFINE seen == unused_volumes.files
           left == Where(seen, ToSet(seen) \ {f})
<1>4. seen \in Seq(1..MaxFiles) /\ unused_volumes' = [unused_volumes EXCEPT !.files = left]
    BY <1>0, <1>1
<1>5. f \in 1..MaxFiles
    BY <1>1, <1>4, ToSetType
<1>6. left \in Seq(1..MaxFiles)
    BY <1>4, WhereOf
<1> HIDE DEF left
<1>7. unused_volumes' \in [listed: BOOLEAN, files: Seq(1..MaxFiles)]
    BY <1>0, <1>4, <1>6
<1>8. AllAsked(asking, Len(reqs), "storage") /\ {f} \in SUBSET (1..MaxFiles)
    BY <1>3, <1>5 DEF AdminInv, AdminTypes, AskedType
<1>9. AllAsked(asking', Len(reqs), "storage")
    BY <1>1, <1>8, StorageCall DEF AskAlso
<1>10. Stored
    BY <1>0, <1>2, <1>3, <1>7, <1>9 DEF Stored, StorageType, AskedType
<1>11. admin_left'.others # 0
    BY <1>2, <1>3
<1> QED BY <1>3, <1>10, <1>11 DEF StorageInv

LEMMA StorageStep == ASSUME AdminInv, StorageNext, reqs' = reqs PROVE Stored /\ StorageInv'
<1>1. CASE StorageHandled
    BY <1>1, StorageHandledStep
<1>2. CASE StorageDone
    <2>1. /\ purging # {} /\ unused' = unused \ purging /\ purging' = {}
          /\ UNCHANGED <<admin_left, asking, start, unused_volumes, list_more, loading_unused>>
        BY <1>2 DEF StorageDone
    <2>2. Stored
        BY <2>1 DEF Stored, StorageType, AskedType, AdminInv, AdminTypes
    <2>3. ~Paging
        BY <2>1 DEF Paging
    <2> QED BY <2>1, <2>2, <2>3 DEF AdminInv, StorageInv
<1>3. CASE StorageBack
    <2>1. PICK i \in DOMAIN asking : (OnUnused(i) \/ OnPurged(i)) /\ UNCHANGED <<unused, purging>>
        BY <1>3 DEF StorageBack
    <2> QED BY <2>1, OnUnusedStep, OnPurgedStep
<1>4. CASE StorageClick
    BY <1>4, MoreStep, RemoveSelectedStep DEF StorageClick
<1> QED BY <1>1, <1>2, <1>3, <1>4 DEF StorageNext

(* What another page leaves of this one.                                    *)
LEMMA StorageApart ==
    ASSUME StorageInv, Apart, UNCHANGED ofStorage
    PROVE  StorageInv'
<1>1. UNCHANGED <<unused, purging, start, unused_volumes, list_more, loading_unused>>
    BY DEF ofStorage
<1>2. admin_left'.page = admin_left.page /\ (admin_left.page = "storage" => UNCHANGED <<admin_left, asking>>)
    BY DEF Apart
<1>3. CASE admin_left.page = "storage"
    <2>1. FilesFrom(start)' = FilesFrom(start) /\ MoreFrom(start)' = MoreFrom(start) /\ \A last : Upto(last)' <=> Upto(last)
        BY <1>1 DEF FilesFrom, MoreFrom, Upto
    <2>2. Upto(start)' <=> Upto(start)
        BY <1>1, <2>1
    <2>3. Upto(start + Limit + 1)' <=> Upto(start + Limit + 1)
        BY <1>1, <2>1
    <2>4. Paging' <=> Paging
        BY <1>1, <1>2, <1>3, <2>1, <2>2, <2>3 DEF Paging
    <2> QED BY <1>2, <1>3, <2>4 DEF StorageInv
<1>4. CASE admin_left.page # "storage"
    BY <1>1, <1>2, <1>4 DEF StorageInv
<1> QED BY <1>3, <1>4

-----------------------------------------------------------------------------
LEMMA FirstFilterType == FirstFilter \in Filters
<1>1. \E f \in Filters : \A g \in Filters : f <= g
    BY AdminAssumption, LeastOf
<1> QED BY <1>1 DEF FirstFilter

LEMMA AdminStarts == AdminInit => AdminInv
<1> SUFFICES ASSUME AdminInit PROVE AdminInv
    OBVIOUS
<1>0. admin_left \in AdminStory
    BY AdminAssumption DEF AdminInit
<1>1. NodesType /\ Len(reqs) = 0
    <2>1. vms \in [Nodes -> Node]
        BY DEF AdminInit, Node
    <2>2. reqs \in Seq(BOOLEAN) /\ Len(reqs) = 0
        BY DEF AdminInit
    <2>3. NoRequest \in [id: 0..Len(reqs), done: BOOLEAN]
        BY <2>2 DEF NoRequest
    <2> QED BY <2>1, <2>2, <2>3 DEF AdminInit, NodesType
<1>2. InfoType
    <2>1. (CHOOSE v \in Options : TRUE) \in Options
        BY AdminAssumption
    <2>2. info \in Info
        BY <2>1 DEF AdminInit, Info
    <2>3. <<>> \in Seq(Info)
        OBVIOUS
    <2> QED BY <2>2, <2>3 DEF AdminInit, InfoType
<1>3. DevicesType
    <2> DEFINE first(i) == [id |-> i, filter |-> FirstFilter, found |-> FirstFilter, changed |-> 0]
    <2>1. devices = [i \in 1..FirstDevices |-> first(i)] /\ FirstDevices \in Nat
        BY AdminAssumption DEF AdminInit
    <2>2. \A i \in 1..FirstDevices : first(i) \in Device
        BY FirstFilterType DEF Device
    <2> HIDE DEF first
    <2>3. devices \in Seq(Device)
        BY ONLY <2>1, <2>2
    <2> DEFINE at(i) == ShownAs(devices[i])
    <2>4. host_devices = [i \in DOMAIN devices |-> at(i)]
        BY DEF AdminInit
    <2>5. \A i \in DOMAIN devices : at(i) \in HostRow
        <3>1. \A i \in DOMAIN devices : devices[i] \in Device
            BY ONLY <2>3
        <3> QED BY <3>1, RowTypes
    <2> HIDE DEF at
    <2>6. host_devices \in Seq(HostRow)
        <3>1. /\ DOMAIN host_devices = DOMAIN devices /\ \A i \in DOMAIN devices : host_devices[i] \in HostRow
              /\ host_devices = [i \in DOMAIN host_devices |-> host_devices[i]]
            BY <2>4, <2>5
        <3> QED BY <2>3, <3>1, RowByRow
    <2>7. <<>> \in Seq(Seq(Device))
        OBVIOUS
    <2> QED BY <2>3, <2>6, <2>7 DEF AdminInit, DevicesType
<1>4. StorageType
    <2>1. <<>> \in Seq(1..MaxFiles)
        OBVIOUS
    <2> QED BY <2>1 DEF AdminInit, StorageType, Unlisted
<1>5. NamesType
    BY AdminAssumption DEF AdminInit, NamesType
<1>6. BackendsType
    <2>1. (CHOOSE b \in Backends : TRUE) \in Backends
        BY AdminAssumption
    <2>2. <<>> \in Seq([backend: Backends, seen: Nat])
        OBVIOUS
    <2> QED BY <2>1, <2>2 DEF AdminInit, BackendsType
<1> DEFINE c == AskFor("unused", 0)
<1>7. c.op = "unused" /\ c.arg = 0 /\ ~c.answered
    BY DEF AskFor
<1>8. asking = IF admin_left.page = "storage" THEN Append(<<>>, c) ELSE <<>>
    BY DEF AdminInit
<1>9. \A page : AllAsked(<<>>, Len(reqs), page)
    BY DEF AllAsked
<1>10. AllAsked(Append(<<>>, c), Len(reqs), "storage")
    BY <1>9, StorageCall
<1>11. AskedType
    BY <1>8, <1>9, <1>10 DEF AskedType
<1>12. StorageInv
    <2>1. CASE admin_left.page = "storage"
        <3>1. purging = {} /\ start = 0 /\ loading_unused = TRUE /\ unused \subseteq 1..MaxFiles
            BY <1>4, <2>1 DEF AdminInit, StorageType
        <3> HIDE DEF c
        <3>2. asking = <<c>>
            BY <1>8, <2>1
        <3>3. Len(asking) = 1 /\ \A i \in DOMAIN asking : asking[i] = c
            BY <3>2
        <3>4. \A n \in DOMAIN Ascending(unused) : ~(n <= 0)
            BY <3>1, FilesFromFacts
        <3> QED BY <1>7, <2>1, <3>1, <3>3, <3>4 DEF StorageInv, Paging, Upto
    <2>2. CASE admin_left.page # "storage"
        BY <2>2 DEF AdminInit, StorageInv, Unlisted
    <2> QED BY <2>1, <2>2
<1> QED BY <1>0, <1>1, <1>2, <1>3, <1>4, <1>5, <1>6, <1>11, <1>12 DEF AdminInv, AdminTypes

LEMMA AdminStep == AdminInv /\ [AdminNext]_adminVars => AdminInv'
<1> SUFFICES ASSUME AdminInv, [AdminNext]_adminVars PROVE AdminInv'
    OBVIOUS
<1>0. /\ AdminTypes /\ StorageInv /\ NodesType /\ InfoType /\ DevicesType
      /\ StorageType /\ NamesType /\ BackendsType
    BY DEF AdminInv, AdminTypes
<1>1. UNCHANGED ofNodes => NodesType' /\ reqs' = reqs
    BY <1>0 DEF ofNodes, NodesType
<1>2. UNCHANGED ofInfo => InfoType'
    BY <1>0 DEF ofInfo, InfoType
<1>3. UNCHANGED ofDevices => DevicesType'
    BY <1>0 DEF ofDevices, DevicesType
<1>4. UNCHANGED ofStorage => StorageType' /\ (Apart => StorageInv')
    BY <1>0, StorageApart DEF ofStorage, StorageType
<1>5. UNCHANGED ofNames => NamesType'
    BY <1>0 DEF ofNames, NamesType
<1>6. UNCHANGED ofBackends => BackendsType'
    BY <1>0 DEF ofBackends, BackendsType
<1>7. UNCHANGED ofNew => UNCHANGED ofNames /\ UNCHANGED ofBackends
    BY DEF ofNew
<1>8. Apart => admin_left' \in AdminStory /\ AskedType'
    BY DEF Apart
<1>10. CASE NodesNext /\ UNCHANGED <<ofInfo, ofDevices, ofStorage, ofNew>>
    BY <1>0, <1>2, <1>3, <1>4, <1>5, <1>6, <1>7, <1>8, <1>10, NodesStep DEF AdminInv, AdminTypes
<1>11. CASE InfoNext /\ UNCHANGED <<ofNodes, ofDevices, ofStorage, ofNew>>
    BY <1>0, <1>1, <1>3, <1>4, <1>5, <1>6, <1>7, <1>8, <1>11, InfoStep DEF AdminInv, AdminTypes
<1>12. CASE DevicesNext /\ UNCHANGED <<ofNodes, ofInfo, ofStorage, ofNew>>
    BY <1>0, <1>1, <1>2, <1>4, <1>5, <1>6, <1>7, <1>8, <1>12, DevicesStep DEF AdminInv, AdminTypes
<1>13. CASE StorageNext /\ UNCHANGED <<ofNodes, ofInfo, ofDevices, ofNew>>
    BY <1>1, <1>2, <1>3, <1>5, <1>6, <1>7, <1>13, StorageStep DEF Stored, AdminInv, AdminTypes
<1>14. CASE NamesNext /\ UNCHANGED <<ofNodes, ofInfo, ofDevices, ofStorage, ofBackends>>
    BY <1>0, <1>1, <1>2, <1>3, <1>4, <1>6, <1>8, <1>14, NamesStep DEF AdminInv, AdminTypes
<1>15. CASE BackendsNext /\ UNCHANGED <<ofNodes, ofInfo, ofDevices, ofStorage, ofNames>>
    BY <1>0, <1>1, <1>2, <1>3, <1>4, <1>5, <1>8, <1>15, BackendsStep DEF AdminInv, AdminTypes
<1>16. CASE UNCHANGED adminVars
    <2>1. UNCHANGED <<admin_left, asking, ofNodes, ofInfo, ofDevices, ofStorage, ofNew>>
        BY <1>16 DEF adminVars
    <2>2. Apart
        BY <1>0, <1>1, <2>1, QuietApart
    <2> QED BY <1>1, <1>2, <1>3, <1>4, <1>5, <1>6, <1>7, <1>8, <2>1, <2>2 DEF AdminInv, AdminTypes
<1> QED BY <1>10, <1>11, <1>12, <1>13, <1>14, <1>15, <1>16 DEF AdminNext

LEMMA AdminTyped == AdminInv => AdminTypeOK
<1> SUFFICES ASSUME AdminInv PROVE AdminTypeOK
    OBVIOUS
<1>1. \A i \in DOMAIN host_devices : host_devices[i].id \in Nat /\ host_devices[i].filter \in Filters
    <2>1. host_devices \in Seq(HostRow)
        BY DEF AdminInv, AdminTypes, DevicesType
    <2>2. \A i \in DOMAIN host_devices : host_devices[i] \in HostRow
        BY ONLY <2>1
    <2> QED BY <2>2 DEF HostRow
<1>2. ToSet(unused_volumes.files) \subseteq 1..MaxFiles
    <2> DEFINE files == unused_volumes.files
    <2>1. files \in Seq(1..MaxFiles)
        BY DEF AdminInv, AdminTypes, StorageType
    <2> HIDE DEF files
    <2>2. ToSet(files) \subseteq 1..MaxFiles
        BY <2>1, ToSetType
    <2> QED BY <2>2 DEF files
<1>3. /\ admin_left \in AdminStory /\ vms \in [Nodes -> Node] /\ nodes_shown \in [Nodes -> Node]
      /\ modal_open \in BOOLEAN /\ dialog \in Nodes \cup {NoNode} /\ request_shown.id \in 0..Len(reqs)
    BY DEF AdminInv, AdminTypes, NodesType
<1>4. {info, info_sent, node, old_node} \subseteq Info /\ info_socket \in Seq(Info)
      /\ {pristine, node_error} \subseteq BOOLEAN
    BY DEF AdminInv, AdminTypes, InfoType
<1>5. devices \in Seq(Device) /\ devices_sent \in Seq(Device)
    BY DEF AdminInv, AdminTypes, DevicesType
<1>6. /\ unused \subseteq 1..MaxFiles /\ purging \subseteq 1..MaxFiles /\ start \in Nat
      /\ list_more \in BOOLEAN /\ loading_unused \in BOOLEAN
    BY DEF AdminInv, AdminTypes, StorageType
<1>7. /\ taken \subseteq Names /\ {name, hostname} \subseteq Names \cup {0}
      /\ name_duplicated \in BOOLEAN /\ hostname_duplicated \in BOOLEAN
    BY DEF AdminInv, AdminTypes, NamesType
<1>8. {backend, storage_pool, images.backend} \subseteq Backends
    BY DEF AdminInv, AdminTypes, BackendsType
<1> QED BY <1>1, <1>2, <1>3, <1>4, <1>5, <1>6, <1>7, <1>8 DEF AdminTypeOK

(* No more pages to ask for: the one shown last went to the end.            *)
LEMMA AllListed ==
    ASSUME AdminInv, unused_volumes.listed, ~loading_unused, ~list_more, admin_left.others = 0
    PROVE  unused \subseteq ToSet(unused_volumes.files)
<1>1. Paging /\ unused \subseteq 1..MaxFiles /\ start \in Nat /\ Limit \in Nat
    BY AdminAssumption DEF AdminInv, AdminTypes, StorageType, StorageInv
<1>2. Upto(start + Limit + 1) /\ ~(Cardinality(unused) > start + Limit)
    BY <1>1 DEF Paging, MoreFrom
<1>3. /\ DOMAIN Ascending(unused) = 1..Cardinality(unused) /\ Cardinality(unused) \in Nat
      /\ \A f \in unused : \E n \in DOMAIN Ascending(unused) : Ascending(unused)[n] = f
    BY <1>1, FilesFromFacts
<1>4. \A n \in DOMAIN Ascending(unused) : n <= start + Limit + 1
    BY <1>1, <1>2, <1>3
<1>5. \A n \in DOMAIN Ascending(unused) : Ascending(unused)[n] \in ToSet(unused_volumes.files)
    BY <1>2, <1>4 DEF Upto
<1> QED BY <1>3, <1>5

-----------------------------------------------------------------------------
(* The composition.                                                         *)
LEMMA EachItsOwn ==
    /\ [Next]_vars => [AccessNext]_accessVars
    /\ [Next]_vars => [BookingNext]_bookingVars
    /\ [Next]_vars => [AdminNext]_adminVars
BY DEF Next, vars

(* Everything kept by a page, by its server and by each call between them   *)
(* is of its type, for any user and in whatever order calls are handled and *)
(* answered: in particular no answer is one of another kind of call, and    *)
(* every list shown is one of rows.                                         *)
THEOREM PagesTyped == Spec => []TypeOK
<1>1. Init => AccessInv /\ BookingTypeOK /\ AdminInv
    BY AccessStarts, TypedStarts, AdminStarts DEF Init
<1>2. AccessInv /\ BookingTypeOK /\ AdminInv /\ [Next]_vars => AccessInv' /\ BookingTypeOK' /\ AdminInv'
    BY EachItsOwn, AccessStep, TypedStep, AdminStep
<1>3. AccessInv /\ BookingTypeOK /\ AdminInv => TypeOK
    BY AdminTyped DEF AccessInv, AccessBase, TypeOK
<1> QED BY <1>1, <1>2, <1>3, PTL DEF Spec

(* A user who waits for the lists to be shown keeps the default grant last, *)
(* with any grants added, deleted, set and moved: the server puts it there  *)
(* after each change, and the buttons move a row among those above it.      *)
THEOREM DefaultStaysLast == Spec => []DefaultIsLast
<1>1. Init => AccessInv
    BY AccessStarts DEF Init
<1>2. AccessInv /\ [Next]_vars => AccessInv'
    BY EachItsOwn, AccessStep
<1>3. AccessInv => DefaultIsLast
    BY DefaultsStay DEF DefaultIsLast, Patient, Waits
<1> QED BY <1>1, <1>2, <1>3, PTL DEF Spec

(* A user who waits for the conflicts of what was typed, and changes one    *)
(* event at a time, never books a time twice: with a booking of any number  *)
(* of days, on any days of the week, by moving an entry, after any number   *)
(* of forms opened, touched, saved and cancelled, in whatever order the     *)
(* calls of one click are handled and answered.                             *)
THEOREM BookedOnce == Spec => []NoOverlap
<1>1. Init => Inv
    BY StartsRight DEF Init
<1>2. Inv /\ [Next]_vars => Inv'
    BY EachItsOwn, NextStep
<1>3. Inv => NoOverlap
    BY DEF Inv, CarefulInv, EntriesInv, NoOverlap
<1> QED BY <1>1, <1>2, <1>3, PTL DEF Spec

(* The pages of unused volumes that the user asks for one after another     *)
(* leave none out, whatever their number and the limit of a page: the next  *)
(* one starts at the last file of the one before, which has one more than   *)
(* the limit, and there is no next one only when that was the last file.    *)
THEOREM EveryVolumeListed == Spec => []NothingSkipped
<1>1. Init => AdminInv
    BY AdminStarts DEF Init
<1>2. AdminInv /\ [Next]_vars => AdminInv'
    BY EachItsOwn, AdminStep
<1>3. AdminInv => NothingSkipped
    BY AllListed DEF NothingSkipped
<1> QED BY <1>1, <1>2, <1>3, PTL DEF Spec
=============================================================================
