------------------------------ MODULE MCChain ------------------------------
(***************************************************************************)
(* Small block trees for Chain.                                            *)
(***************************************************************************)
EXTENDS Chain, TLC

CONSTANTS g, a1, a2, a3, b1, b2, c1, c2, c3, d2, t1, t2, t3, t4, i1, i2, i3

TreeTx == {t1, t2, t3, t4}
TreeImage == {i1, i2, i3}
TreeImagesOf == t1 :> {i1} @@ t2 :> {i2} @@ t3 :> {i2} @@ t4 :> {i2, i3}

(* The tree of the reorganisation run: three branches on the genesis block.
   On a, a2 has a timestamp in the future.  b is the heaviest valid branch:
   b1's t3 spends what a2's t2 spends, and b2 carries t1, which a1 has too;
   d2, on top of b1, spends i2 a second time.  On c, c2's proofs are false,
   and c3 makes the branch look heavier than b. *)
TreeBlock == {g, a1, a2, b1, b2, d2, c1, c2, c3}

TreePrev == a1 :> g @@ a2 :> a1 @@ b1 :> g @@ b2 :> b1 @@ d2 :> b1
            @@ c1 :> g @@ c2 :> c1 @@ c3 :> c2

TreeHeight == [b \in TreeBlock |->
    CASE b = g -> 0 [] b \in {a1, b1, c1} -> 1 [] b = c3 -> 3 [] OTHER -> 2]

TreeTxsOf == [b \in TreeBlock |->
    CASE b = a1 -> <<t1>> [] b = a2 -> <<t2>>
      [] b = b1 -> <<t3>> [] b = b2 -> <<t1>>
      [] b = d2 -> <<t4>> [] OTHER -> << >>]

TreeDifficulty == [b \in TreeBlock |-> [v \in Version |-> IF b \in {b1, c2} THEN 2 ELSE 1]]
TreePow == [b \in TreeBlock |-> 2]
TreeNotBefore == [b \in TreeBlock |-> IF b = a2 THEN 1 ELSE 0]
TreeWellPaid == [p \in TreeBlock |-> TreeBlock]
TreeGenuine == TreeBlock \ {c2}

(* The tree of the runs with a checkpoint and every fault: a1, the checkpoint, is
   followed by two branches, and b1 competes with a1.  c is the heavier branch; a3
   spends i2 a second time, and makes a look heavier than c2. *)
FinalBlock == {g, a1, a2, a3, b1, b2, c2, c3}
FinalPrev == a1 :> g @@ a2 :> a1 @@ a3 :> a2 @@ c2 :> a1 @@ c3 :> c2
             @@ b1 :> g @@ b2 :> b1
FinalHeight == [b \in FinalBlock |->
    CASE b = g -> 0 [] b \in {a1, b1} -> 1 [] b \in {a2, b2, c2} -> 2 [] OTHER -> 3]
FinalTxsOf == [b \in FinalBlock |->
    CASE b = a1 -> <<t1>> [] b = a2 -> <<t2>> [] b = a3 -> <<t4>> [] OTHER -> << >>]
FinalDifficulty == [b \in FinalBlock |-> [v \in Version |-> IF b \in {b1, c2} THEN 2 ELSE 1]]
FinalPow == [b \in FinalBlock |-> 2]
FinalNotBefore == [b \in FinalBlock |-> IF b \in {a3, c2} THEN 1 ELSE 0]
FinalWellPaid == [p \in FinalBlock |-> FinalBlock]
=============================================================================
