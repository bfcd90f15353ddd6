------------------------- MODULE MCMachineSettings -------------------------
(***************************************************************************)
(* Stories for TLC: two or three kinds of events meet in each.              *)
(***************************************************************************)
EXTENDS MachineSettings, TLC

StoryMC(some) == [what \in Happenings |-> IF what \in DOMAIN some THEN some[what] ELSE 0]

StoriesMC ==
    { StoryMC([edit |-> 1, type |-> 1, hardware |-> 1]),
      StoryMC([edit |-> 2, type |-> 1, others |-> 1, slow |-> 1]),
      StoryMC([hardware |-> 2]),
      StoryMC([hardware |-> 1, others |-> 1, loss |-> 1]),
      StoryMC([options |-> 2, set |-> 1, othersSet |-> 1]),
      StoryMC([shot |-> 1, hardware |-> 1]),
      StoryMC([shot |-> 2, loss |-> 1]) }

(* The dialog, and another user that removes a disk.                        *)
RemovalMC == { StoryMC([hardware |-> 1, others |-> 1, loss |-> 1]) }
=============================================================================
