------------------------------ MODULE MCPeers -------------------------------
(***************************************************************************)
(* Small instances of Peers: the seed node s, a1, and b that dials in and  *)
(* whose peer list names a1, of which this node may have heard from nobody *)
(* else.                                                                   *)
(***************************************************************************)
EXTENDS Peers

CONSTANTS s, a1, b

(* a1 and b are two ports of one host. *)
MCHost == s :> "hs" @@ a1 :> "ha" @@ b :> "ha"
MCIds == [x \in Addr |-> x]
MCLists == s :> <<a1>> @@ a1 :> <<s>> @@ b :> <<a1>>
MCSeeds == <<s>>

(* Three seed nodes on hosts of their own, of which PeersBannedSeed bans the
   second. *)
OwnHost == s :> "hs" @@ a1 :> "ha" @@ b :> "hb"
MCSeedsBanned == <<b, s, a1>>
=============================================================================
