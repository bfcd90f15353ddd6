--------------------------- MODULE MCUserMachines ---------------------------
(***************************************************************************)
(* One base with up to two clones and one machine of the user's own.       *)
(***************************************************************************)
EXTENDS UserMachines, TLC

OrderMC == <<"base", "own">>
CloneOrderMC == <<"clone1", "clone2">>
BaseOfMC == "clone1" :> "base" @@ "clone2" :> "base"
AutostartMC == {"clone2"}
TableMC(l, c, u) == [listed |-> l, clones |-> c, up |-> u]
TablesMC == { TableMC({"base", "own"}, {"clone1", "clone2"}, {"clone2"}),
              TableMC({"base"}, {}, {}),
              TableMC({"own", "base"}, {"clone2"}, {"own"}) }
=============================================================================
