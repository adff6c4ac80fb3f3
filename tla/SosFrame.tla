------------------------------ MODULE SosFrame ------------------------------
(***************************************************************************)
(* python/cc1k_sos_pkt.py and python/crc8.py: the packets of SOS, of which *)
(* the repository has the builder and the watcher thread, and not the      *)
(* sink.  Assumed of that: it hands over a packet from its header to its   *)
(* checksum.  A message is a sequence of bytes.                            *)
(***************************************************************************)
EXTENDS Crc16

CONSTANT crcTable  \* what the constructor of crc8 fills in

\* No two of its entries end in the same byte.
ASSUME TableAssumption ==
    /\ crcTable \in [1 .. 256 -> Word]
    /\ \A i, j \in 1 .. 256 : crcTable[i] % 256 = crcTable[j] % 256 => i = j

\* The exclusive or of two bytes, by the weights of their bits.
XorAt(w, a, b) == w * (((a \div w) + (b \div w)) % 2)
XorBytes(a, b) ==
    XorAt(1, a, b) + XorAt(2, a, b) + XorAt(4, a, b) + XorAt(8, a, b)
        + XorAt(16, a, b) + XorAt(32, a, b) + XorAt(64, a, b) + XorAt(128, a, b)

\* crc8.crcByte: one byte into a 16-bit checksum.  Mutant: the low byte is dropped.
crcByte_NoLow(oldCrc, byte) == crcTable[XorBytes(oldCrc \div 256, byte) + 1]
crcByte(oldCrc, byte) ==
    LET entry == crcTable[XorBytes(oldCrc \div 256, byte) + 1]
    IN  (entry % 256) + 256 * XorBytes(oldCrc % 256, entry \div 256)

crc8(msg) ==
    LET over == [t \in Word \X Octet |-> crcByte(t[1], t[2])]
        crc[n \in 0 .. Len(msg)] == IF n = 0 THEN 0 ELSE over[<<crc[n - 1], msg[n]>>]
    IN  crc[Len(msg)]

\* A number of two bytes, the low byte first; a mutant has it last.
Bytes_Swapped(n) == <<n \div 256, n % 256>>
Bytes(n) == <<n % 256, n \div 256>>

SOS_MAX_PKT_SIZE == 128 - 8
SosAccepts(payload) == Len(payload) <= SOS_MAX_PKT_SIZE

\* The fields are a record; the default access code is 33 CC.
SosHeader(f, payload) ==
    <<f.am_group, f.module_src, f.module_dst>> \o Bytes(f.dst_addr) \o Bytes(f.src_addr)
        \o <<f.msg_type, Len(payload)>>
SosPreamble == [i \in 1 .. 20 |-> 170]
make_sos_packet(f, payload) ==
    LET header == SosHeader(f, payload)
    IN  SosPreamble \o <<51, 204>> \o header \o payload
            \o Bytes(crc8(Tail(header) \o payload)) \o SosPreamble

\* What the watcher passes to its callback, of a message of at least 9 bytes: the
\* checksum is in the last two, and covers all of header and payload but the group.
SosCrcRange_All(payload) == SubSeq(payload, 1, 9 + payload[9])  \* Mutant: the group too.
SosCrcRange(payload) == SubSeq(payload, 2, 9 + payload[9])
sos_run(payload) ==
    LET n   == Len(payload)
        crc == payload[n - 1] + payload[n] * 256
    IN  [ok |-> crc = crc8(SosCrcRange(payload)),
         fields |-> [am_group |-> payload[1], module_src |-> payload[2],
                     module_dst |-> payload[3],
                     dst_addr |-> payload[5] * 256 + payload[4],
                     src_addr |-> payload[7] * 256 + payload[6], msg_type |-> payload[8]],
         payload |-> SubSeq(payload, 10, 9 + payload[9])]
=============================================================================
