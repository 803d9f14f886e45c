---------------------------- MODULE MCPacketQueue ----------------------------
(* Bounds of the runs of PacketQueue: a ring of 2 slots that grows to 4 and  *)
(* 8, wraps around at each size, and is filled again after Clear.            *)
EXTENDS PacketQueue
=============================================================================
