------------------------------- MODULE MCNode -------------------------------
(***************************************************************************)
(* Small block trees and pools for Node.                                   *)
(***************************************************************************)
EXTENDS Node, MCChain

(* Two branches, of which b is the heavier: a2's t2 spends a1's output, b1's
   t3 spends what t2 spends, and t4 is beyond the relay policy. *)
SoundBlock == {g, a1, a2, b1, b2}
SoundPrev == [b \in SoundBlock \ {g} |-> TreePrev[b]]
SoundHeight == [b \in SoundBlock |-> TreeHeight[b]]
SoundTxsOf == [b \in SoundBlock |->
    CASE b = a1 -> <<t1>> [] b = a2 -> <<t2, t4>> [] b = b1 -> <<t3>> [] OTHER -> << >>]
SoundDifficulty == [b \in SoundBlock |-> [v \in Version |-> IF b = b1 THEN 2 ELSE 1]]
SoundPow == [b \in SoundBlock |-> 2]
SoundNotBefore == [b \in SoundBlock |-> 0]
SoundWellPaid == [p \in SoundBlock |-> SoundBlock]
NodeImagesOf == t1 :> {i1} @@ t2 :> {i2} @@ t3 :> {i2} @@ t4 :> {i3}

(* The tree with a checkpoint, with other transactions: c2 spends what a2 spends,
   and c3, which makes its branch the heaviest, has false proofs. *)
FailingTxsOf == [b \in FinalBlock |->
    CASE b = a1 -> <<t1>> [] b = a2 -> <<t2, t4>> [] b = c2 -> <<t3>> [] OTHER -> << >>]
C3Forged == FinalBlock \ {c3}

RingTx == {t1, t2, t3, t4}
NodeRingOf == [t \in RingTx |-> IF t = t2 THEN {a1} ELSE {g}]
NodeWeight == [t \in RingTx |-> 1]
NodeFee == [t \in RingTx |-> IF t = t2 THEN 2 ELSE 1]
=============================================================================
