----------------------------- MODULE PacketFifo -----------------------------
(***************************************************************************)
(* What either program promises to its user: packets come out as they went *)
(* in, each once, in order, one at a time.  TransmitPath implements it     *)
(* between send_pkt and the flow graph, ReceivePath between the packet     *)
(* sink and rx_callback.                                                   *)
(***************************************************************************)
EXTENDS Naturals, Sequences

CONSTANT Packet

VARIABLES
    put,  \* every packet handed in so far
    got   \* every packet that has come out so far

vars == <<put, got>>

Init == put = <<>> /\ got = <<>>

\* Any packet may go in; it is told from put' itself, since the packets may be
\* too many to enumerate.
Put ==
    /\ put' # <<>> /\ put'[Len(put')] \in Packet
    /\ put' = Append(put, put'[Len(put')])
    /\ UNCHANGED got

Get ==
    /\ Len(got) < Len(put)
    /\ got' = Append(got, put[Len(got) + 1])
    /\ UNCHANGED put

Next == Put \/ Get

Spec == Init /\ [][Next]_vars

\* The packets handed in come out in the end.
FairSpec == Spec /\ WF_vars(Get)
=============================================================================
