---------------------------- MODULE Transactions ----------------------------
(***************************************************************************)
(* The transactions of the world the node lives in, which blocks carry and *)
(* the pool holds: each spends some outputs, and a key image stands for an *)
(* output spent.                                                           *)
(***************************************************************************)

CONSTANTS
    Tx, Image,
    ImagesOf        \* ImagesOf[t]: the key images t spends

(* The key images the transactions T spend between them. *)
ImagesIn(T) == UNION {ImagesOf[t] : t \in T}
=============================================================================
