------------------------------- MODULE Frame --------------------------------
(***************************************************************************)
(* The frame builder of examples/usrpN210/transmit_path.py (the same code  *)
(* is in python/ieee802_15_4_pkt.py).  A string is a sequence of bytes; a  *)
(* call that raises ValueError builds no frame.                            *)
(***************************************************************************)
EXTENDS Crc16

MAX_PKT_SIZE == 128

(***************************************************************************)
(* make_FCF: each field must fit its width; the result is little endian.   *)
(***************************************************************************)
FcfFields == [frameType : 0 .. 7, securityEnabled : Bit, framePending : Bit,
              acknowledgeRequest : Bit, intraPAN : Bit,
              destinationAddressingMode : 0 .. 3, sourceAddressingMode : 0 .. 3]

DefaultFcf == [frameType |-> 1, securityEnabled |-> 0, framePending |-> 0,
               acknowledgeRequest |-> 0, intraPAN |-> 0,
               destinationAddressingMode |-> 0, sourceAddressingMode |-> 0]

make_FCF_Mode(f) ==  \* Mutant: the source mode two bits too low.
    LET v == f.frameType + 8 * f.securityEnabled + 16 * f.framePending
             + 32 * f.acknowledgeRequest + 64 * f.intraPAN
             + 1024 * f.destinationAddressingMode + 4096 * f.sourceAddressingMode
    IN  <<v % 256, v \div 256>>
make_FCF(f) ==
    LET v == f.frameType + 8 * f.securityEnabled + 16 * f.framePending
             + 32 * f.acknowledgeRequest + 64 * f.intraPAN
             + 1024 * f.destinationAddressingMode + 16384 * f.sourceAddressingMode
    IN  <<v % 256, v \div 256>>

(***************************************************************************)
(* The guards of make_ieee802_15_4_packet, on the lengths of its arguments,*)
(* and the PHR it computes from them.                                      *)
(***************************************************************************)
Accepts(fcf, seqNr, address, payload) ==
    /\ fcf = 2
    /\ seqNr <= 255
    /\ address <= 20
    /\ payload <= MAX_PKT_SIZE - 5 - address

PHR_NoFCS(address, payload) == 3 + address + payload  \* Mutant: FCS not counted.
PHR(address, payload)       == 3 + address + payload + 2

\* _npadding_bytes(len(pkt), 8), where byte_modulus = lcm(128 / 8, 8) / 8.
byte_modulus == 2
npadding_bytes_Full(pkt_byte_len) ==           \* Mutant: pads a whole unit too.
    byte_modulus - (pkt_byte_len % byte_modulus)
npadding_bytes(pkt_byte_len) ==
    LET r == pkt_byte_len % byte_modulus IN IF r = 0 THEN 0 ELSE byte_modulus - r

SHR == <<0, 0, 0, 0, 167>>

make_ieee802_15_4_packet(FCF, seqNr, addressInfo, payload) ==
    LET MPDU == FCF \o <<seqNr>> \o addressInfo \o payload
        pkt  == SHR \o <<PHR(Len(addressInfo), Len(payload))>> \o MPDU \o FCS(MPDU)
    IN  pkt \o Zeros(npadding_bytes(Len(pkt)))
=============================================================================
