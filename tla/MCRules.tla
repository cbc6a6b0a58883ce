------------------------------ MODULE MCRules -------------------------------
EXTENDS Rules
(* One network for each algorithm, each after a first height of version 7:
   v6 with the scaling of version 20, LWMA-1 with the source's reset at its
   fork, and v1 again as versions 18 and 19 have it. *)
MCForks ==
    [ scaled  |-> << [version |-> 7, height |-> 1], [version |-> 20, height |-> 2] >>,
      lwma    |-> << [version |-> 7, height |-> 1], [version |-> 17, height |-> 2] >>,
      classic |-> << [version |-> 7, height |-> 1], [version |-> 18, height |-> 2] >> ]
MCPinned ==
    [ scaled  |-> << >>,
      lwma    |-> [h \in 1..5 |-> 14],
      classic |-> 2 :> 70 ]
MCGenesis == [ts |-> 8, weight |-> 4, long |-> 4, cd |-> 1, coins |-> 2500]
MCGaps == {-2, 1, 5}
=============================================================================
