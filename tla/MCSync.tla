------------------------------- MODULE MCSync -------------------------------
(***************************************************************************)
(* A small instance of Sync.  Over the genesis block stand a1, a2 and the  *)
(* fork b1, b2 with more work; x2, on a1, is a block this node's rules     *)
(* refuse.                                                                 *)
(***************************************************************************)
EXTENDS Sync

MCBlock == {"g", "a1", "a2", "b1", "b2", "x2"}

MCPath == [g |-> <<"g">>, a1 |-> <<"g", "a1">>, a2 |-> <<"g", "a1", "a2">>,
           x2 |-> <<"g", "a1", "x2">>, b1 |-> <<"g", "b1">>, b2 |-> <<"g", "b1", "b2">>]

MCWork == [b \in MCBlock |->
    CASE b = "g" -> 0 [] b \in {"a1", "b1"} -> 1 [] b \in {"a2", "x2"} -> 2 [] b = "b2" -> 3]

(* p1 starts on a2; p2 on the refused block. *)
MCStartTip == [p \in Peer |-> IF p = "p2" THEN "x2" ELSE "a2"]

MCMovesTo == [p \in Peer |-> IF p = "p2" THEN {} ELSE {"b2"}]
=============================================================================
