------------------------------- MODULE Crc16 --------------------------------
(***************************************************************************)
(* python/crc16.py: the checksum of a frame, bit by bit.  A register is a  *)
(* sequence of 16 bits, most significant first.                            *)
(***************************************************************************)
EXTENDS Integers, Sequences, SequencesExt

Bit       == {0, 1}
CrcWidth  == 16
Register  == [1 .. CrcWidth -> Bit]
Octet     == 0 .. 255
Word      == {n \in Nat : n < 65536}
Zeros(n)  == [i \in 1 .. n |-> 0]

\* The n low bits of a number, most significant first, and back.
BitsOf(v, n) ==
    LET shifted[k \in 0 .. n] == IF k = 0 THEN v ELSE shifted[k - 1] \div 2
    IN  [i \in 1 .. n |-> shifted[n - i] % 2]
ValueOf(bits) ==
    LET v[n \in 0 .. Len(bits)] == IF n = 0 THEN 0 ELSE 2 * v[n - 1] + bits[n]
    IN  v[Len(bits)]

Xor(a, b) == [i \in 1 .. Len(a) |-> (a[i] + b[i]) % 2]

\* reflect(crc, bitnum) of the bitnum low bits.
reflect(bits) == Reverse(bits)

Polynomial == BitsOf(4129, CrcWidth)        \* 0x1021

\* One turn of the first loop: shift a bit in, and divide when a one falls out.
ShiftIn(crc, bit) ==
    LET shifted == Append(Tail(crc), bit)
    IN  IF Head(crc) = 1 THEN Xor(shifted, Polynomial) ELSE shifted

\* The register after all of some bits.
ShiftAll(register, bits) ==
    LET turn == [t \in Register \X Bit |-> ShiftIn(t[1], t[2])]
        crc[n \in 0 .. Len(bits)] ==
            IF n = 0 THEN register ELSE turn[<<crc[n - 1], bits[n]>>]
    IN  crc[Len(bits)]

\* And after all bytes, each one reflected.
Divided(p) ==
    LET over == [t \in Register \X Octet |-> ShiftAll(t[1], reflect(BitsOf(t[2], 8)))]
        crc[n \in 0 .. Len(p)] ==
            IF n = 0 THEN Zeros(CrcWidth) ELSE over[<<crc[n - 1], p[n]>>]
    IN  crc[Len(p)]

\* The second loop brings in zeros and cuts nothing off, so that the register grows by a bit
\* a turn: bit 15, now somewhere in the middle, still decides, and what the polynomial is
\* added to are still the low bits, which are all that reflect(crc, 16) looks at.
Bit15(crc)   == Len(crc) - CrcWidth + 1
LowBits(crc) == SubSeq(crc, Bit15(crc), Len(crc))
Grow_Top(crc) ==  \* Mutant: the bit that decides is the highest.
    LET shifted == Append(crc, 0)
    IN  IF Head(crc) = 1 THEN Xor(shifted, Zeros(Bit15(crc)) \o Polynomial) ELSE shifted
Grow(crc) ==
    LET shifted == Append(crc, 0)
    IN  IF crc[Bit15(crc)] = 1 THEN Xor(shifted, Zeros(Bit15(crc)) \o Polynomial) ELSE shifted
Grown(register) ==
    LET crc[n \in 0 .. CrcWidth] == IF n = 0 THEN register ELSE Grow(crc[n - 1])
    IN  crc[CrcWidth]

crcbitbybit(p) == ValueOf(reflect(LowBits(Grown(Divided(p)))))
-----------------------------------------------------------------------------
(***************************************************************************)
(* The two users.  The builder appends struct.pack("H", crc), the low byte *)
(* first; the watcher compares the crc of all but the last two bytes with  *)
(* ord(payload[-2]) + ord(payload[-1]) * 256.                              *)
(***************************************************************************)
FCS_Swapped(mpdu) == LET crc == crcbitbybit(mpdu) IN <<crc \div 256, crc % 256>>  \* Mutant.
FCS(mpdu) == LET crc == crcbitbybit(mpdu) IN <<crc % 256, crc \div 256>>

ok(payload) ==
    LET n == Len(payload)
    IN  crcbitbybit(SubSeq(payload, 1, n - 2)) = payload[n - 1] + payload[n] * 256
=============================================================================
