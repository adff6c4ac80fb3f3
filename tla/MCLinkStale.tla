---------------------------- MODULE MCLinkStale -----------------------------
(***************************************************************************)
(* The link on a buffer that wraps around: 2-bit bytes, 6-chip words,      *)
(* packets of four and five bytes and room for ten.  What is read behind   *)
(* the third packet is the end of the first and the head of the second, a  *)
(* preamble, an SFD and a PHR, and the receiver takes the fourth packet    *)
(* for its body; behind the second the first goes out a second time.  No   *)
(* chip is inverted.                                                       *)
(***************************************************************************)
EXTENDS Link

MCWords   == (0 :> 23) @@ (1 :> 8)
MCGarbage == {-1}
MCPackets == << <<0, 2, 1, 3>>, <<0, 2, 2, 1, 2>>, <<0, 2, 1, 1>>, <<0, 2, 1, 2>> >>
MCStarts  == {0}
MCFlipsAt == {}
=============================================================================
