------------------------------ MODULE MCRelay ------------------------------
(***************************************************************************)
(* Small instances of Relay: outgoing connections a and c, and an incoming *)
(* one b, whose peer may send the transaction t.                           *)
(***************************************************************************)
EXTENDS Relay

CONSTANTS a, b, c, t

MCOffers == [x \in Conn |-> IF x = b THEN {t} ELSE {}]
=============================================================================
