------------------------------ MODULE MCFrame -------------------------------
(***************************************************************************)
(* FrameCalls with every combination of the fields of the FCF and a choice *)
(* of lengths.                                                             *)
(***************************************************************************)
EXTENDS CrcPolynomials, Crc8Table

CONSTANTS AddressLengths, PayloadLengths, SosLengths

\* The bytes of a string only have to be told apart.
Filler(n, from) == [i \in 1 .. n |-> (from + i) % 256]

IeeeCall(f, address, payload) ==
    [fcf |-> f, seqNr |-> 229, address |-> Filler(address, 16), payload |-> Filler(payload, 99)]
SosCall(payload) ==
    [fields |-> [am_group |-> 1, module_src |-> 128, module_dst |-> 129, dst_addr |-> 511,
                 src_addr |-> 4099, msg_type |-> 32],
     payload |-> Filler(payload, 99)]

MCIeeeCalls ==
    {IeeeCall(f, 0, 1) : f \in {g \in FcfFields : /\ g.framePending = g.intraPAN
                                                  /\ g.securityEnabled = 1 - g.acknowledgeRequest}}
        \cup {IeeeCall(DefaultFcf, a, p) : a \in AddressLengths, p \in PayloadLengths}
        \cup {IeeeCall(DefaultFcf, 20, 103), IeeeCall(DefaultFcf, 20, 104),
              IeeeCall(DefaultFcf, 21, 0)}
MCSosCalls == {SosCall(n) : n \in SosLengths \cup {SOS_MAX_PKT_SIZE, SOS_MAX_PKT_SIZE + 1}}
MCHitCalls ==
    {IeeeCall(DefaultFcf, l[1], l[2]) : l \in {<<0, 0>>, <<0, 1>>, <<0, 2>>, <<1, 0>>, <<1, 1>>}}
        \cup {SosCall(0), SosCall(1)}
=============================================================================
