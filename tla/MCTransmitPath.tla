--------------------------- MODULE MCTransmitPath ---------------------------
(***************************************************************************)
(* Four packets of two kinds through a queue of two and a buffer that      *)
(* holds one packet and a half: the queue fills and the cells wrap around. *)
(***************************************************************************)
EXTENDS TransmitPath, TLC

MCWords   == (0 :> "word0") @@ (1 :> "word1")
MCPackets == {<<0, 1, 1>>, <<1, 0>>}
=============================================================================
