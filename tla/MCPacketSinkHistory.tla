------------------------ MODULE MCPacketSinkHistory -------------------------
(***************************************************************************)
(* PacketSinkHistory with the small instance of MCPacketSink.              *)
(***************************************************************************)
EXTENDS PacketSinkHistory, MCPacketSink
=============================================================================
