---------------------------- MODULE MCRunMachine ----------------------------
(***************************************************************************)
(* Stories for TLC: each kind of request with one or two of the events.     *)
(***************************************************************************)
EXTENDS RunMachine, TLC

StoryMC(c, v, p, nl, nd, nr) ==
    [clone |-> c, volatile |-> v, ports |-> p, viewer |-> ~p,
     losses |-> nl, downs |-> nd, reloads |-> nr]

StoriesMC ==
    { StoryMC(FALSE, FALSE, TRUE, 0, 0, 1),   \* a start, ports opened again
      StoryMC(FALSE, FALSE, FALSE, 1, 1, 0),  \* a start, shut down, connection lost
      StoryMC(TRUE, TRUE, FALSE, 0, 1, 0),    \* a volatile clone
      StoryMC(TRUE, FALSE, FALSE, 1, 0, 0) }  \* a clone, connection lost

SocketsMC == {<<c, 1>> : c \in Channels} \cup {<<Machine, 2>>}
=============================================================================
