---------------------------- MODULE MCPacketSink ----------------------------
(***************************************************************************)
(* PacketSink for TLC: 4-chip words with the shape of the real ones (a     *)
(* leading 0, then complementary chips, no word inside two others), 2-bit  *)
(* bytes, 2 zeros of preamble, SFD 10, at most 2 bytes per frame.          *)
(***************************************************************************)
EXTENDS PacketSink, TLC

MCWords   == (0 :> 4) @@ (1 :> 3)
MCGarbage == {-1}
=============================================================================
