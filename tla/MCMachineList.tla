--------------------------- MODULE MCMachineList ---------------------------
(***************************************************************************)
(* A base with a clone and a machine alone; a filter that matches the      *)
(* clone.                                                                   *)
(***************************************************************************)
EXTENDS MachineList

MachinesMC == {"base", "clone", "alone"}
BaseOfMC == [m \in MachinesMC |-> IF m = "clone" THEN "base" ELSE NoBase]
FirstNamesMC == [m \in MachinesMC |-> CASE m = "base" -> 1 [] m = "alone" -> 3 [] OTHER -> 2]
StoryMC(c, u, d, r, l) == [changes |-> c, clicks |-> u, dialogs |-> d, reloads |-> r, losses |-> l]
StoriesMC == { StoryMC(1, 2, 0, 0, 0),   \* a change, two clicks
               StoryMC(1, 0, 1, 0, 0),   \* a change while a dialog is open
               StoryMC(1, 0, 0, 1, 0),   \* a change, two sockets
               StoryMC(0, 1, 0, 1, 1) }  \* a click, connection lost, loaded again
FiltersMC == {{}, {"clone"}}
=============================================================================
