--------------------------- MODULE MCPacketStream ---------------------------
(* Model-checking instance of PacketStream; the bounds are given by the cfg. *)
EXTENDS PacketStream
=============================================================================
