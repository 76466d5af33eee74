--------------------------- MODULE MCPacketQueue ---------------------------
(* The packet queue on a small instance.                                   *)
EXTENDS PacketQueue, TLC

CONSTANTS p1, p2

(* Packet sizes that differ, so that a wrong counter cannot cancel out. *)
MCPackets == {p1, p2}
MCPktSize == (p1 :> 1) @@ (p2 :> 2)
=============================================================================
