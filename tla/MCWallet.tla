------------------------------ MODULE MCWallet ------------------------------
(***************************************************************************)
(* A small instance of Wallet: a payment of o1 to the wallet, a send of it *)
(* with change o2, and a spend of o1 by another copy of the wallet.        *)
(***************************************************************************)
EXTENDS Wallet

MCIns == [t \in Tx |-> IF t \in {"send", "other"} THEN {"o1"} ELSE {}]

MCPays == [t \in Tx |->
    CASE t = "paid" -> <<"o1">> [] t = "send" -> <<"o2">> [] OTHER -> << >>]

MCStartTxs == <<NoTx, NoTx, "paid">>

(* Two payments, of o1 and then of o2, and a send of o2. *)
MCIns2 == [t \in Tx |-> IF t = "send" THEN {"o2"} ELSE {}]

MCPays2 == [t \in Tx |->
    CASE t = "paid" -> <<"o1">> [] t = "tip" -> <<"o2">> [] t = "send" -> <<"o3">>]

MCStartTxs2 == <<NoTx, "paid", "tip">>
=============================================================================
