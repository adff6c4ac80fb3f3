---------------------------- MODULE MCFrameSizes ----------------------------
(***************************************************************************)
(* The lengths the builder accepts against the length the packet sink      *)
(* accepts, for every pair of lengths.                                     *)
(***************************************************************************)
EXTENDS Frame

SinkMaxLen == 128 - (8 + 1) - 1   \* MAX_PKT_LEN, packet_sink.h:49-50

VARIABLES address, payload, phr

SizesInit == address = 0 /\ payload \in 0 .. MAX_PKT_SIZE /\ phr = 0

Call ==
    /\ phr = 0
    /\ address' \in 0 .. 21 /\ payload' = payload
    /\ Accepts(2, 0, address', payload')
    /\ phr' = PHR(address', payload')

SizesSpec == SizesInit /\ [][Call]_<<address, payload, phr>>

\* transmit_path.py:45-46: "The payload of the packet. The maximal size of the
\* message can not be larger than 128", and the builder checks it against
\* MAX_PKT_SIZE: a frame it accepts is one the receiver can take.
AcceptedFramesFitReceiver == phr <= SinkMaxLen
=============================================================================
