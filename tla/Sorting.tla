------------------------------ MODULE Sorting ------------------------------
(***************************************************************************)
(* Sequences made of sets: the rows of a query with ORDER BY, and those of *)
(* a list that meet a condition.  They are what SetToSortSeq and SelectSeq *)
(* give, stated so that the provers can reason about them.  An order is a  *)
(* set of pairs.                                                           *)
(***************************************************************************)
EXTENDS Naturals, Sequences, FiniteSets

(* The elements of a finite set, each once, as order puts them.             *)
Sorted(set, order) ==
    CHOOSE list \in [1..Cardinality(set) -> set] :
        \A i, j \in DOMAIN list : i < j => <<list[i], list[j]>> \in order

(* A set of numbers from the least to the greatest.                         *)
Ascending(set) ==
    CHOOSE list \in [1..Cardinality(set) -> set] :
        \A i, j \in DOMAIN list : i < j => list[i] < list[j]

(* The elements of a list that are in a set, in the order of the list.      *)
Where(list, set) ==
    LET places == Ascending({i \in DOMAIN list : list[i] \in set})
    IN [n \in DOMAIN places |-> list[places[n]]]
=============================================================================
