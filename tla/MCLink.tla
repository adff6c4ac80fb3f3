------------------------------- MODULE MCLink -------------------------------
(***************************************************************************)
(* The link with the code's own constants: 16-chip words, 8-bit bytes, a   *)
(* 4-byte preamble, SFD 0xa7, packets made by the frame builder.           *)
(***************************************************************************)
EXTENDS FreshLink, Frame

MCWords   == (0 :> 31432) @@ (1 :> 1335)
MCGarbage == {-1}
MCPackets == << make_ieee802_15_4_packet(make_FCF(DefaultFcf), 229, <<>>, <<1, 128>>),
                make_ieee802_15_4_packet(make_FCF(DefaultFcf), 7, <<255>>, <<>>) >>
MCStarts  == {0, 333, 1500}
\* Two chips of the preamble, one of the SFD, two of the PHR and of the PSDU, one
\* behind the first packet, at different places of their words; one of the second SFD.
MCFlipsAt == {5, 301, 522, 687, 700, 775, 1201, 2000, 4101}
=============================================================================
