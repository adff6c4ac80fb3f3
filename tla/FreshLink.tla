------------------------------ MODULE FreshLink -----------------------------
(***************************************************************************)
(* Link as the programs of the repository set it up and as long as they    *)
(* send less than the chip mapper's buffer holds: words that are told      *)
(* apart, packets of the frame builder's form, and zeros behind each.  The *)
(* invariant says where a receiver that hears every chip is in what was    *)
(* sent.                                                                   *)
(***************************************************************************)
EXTENDS Link

\* The register after the first n chips of the word of symbol s.
Reading(reg, s, n) ==
    LET read[k \in 0 .. n] ==
            IF k = 0 THEN reg
            ELSE Shift(read[k - 1], BitOf(d_symbol_table[s], WordChips, k - 1))
    IN  read[n]

\* What is in it before a word: nothing, after enter_search and enter_have_sync and in
\* the search, or in a field the word before.
Registers == {0, CHIP_MAPPING[0], CHIP_MAPPING[1]}

\* A word is read at its last chip and nothing before, across the border of two words
\* neither; a field is not given up within a word.
ASSUME WordsAssumption ==
    /\ WordChips <= ChipsPerSymbol
    /\ \A reg \in Registers, s \in Symbols :
           /\ \A n \in 1 .. WordChips - 1 : Symbol(Reading(reg, s, n)) = NoSymbol
           /\ Symbol(Reading(reg, s, WordChips)) = s

\* A byte has no more than ByteBits bits; the first bit of the SFD is a one.
ASSUME BitsAssumption ==
    /\ \A v \in Byte : ShiftRight(v, ByteBits) = 0
    /\ SyncVector \in Byte /\ BitOf(SyncVector, ByteBits, 0) = 1
    /\ PreambleBits % ByteBits = 0

\* What make_ieee802_15_4_packet returns: a preamble of zeros, the SFD, the PHR, as many
\* bytes, and zeros to fill the transfer unit.
IsPacket(pkt) ==
    LET phr == pkt[PreambleBytes + 2]
    IN  /\ \A n \in 1 .. PreambleBytes : pkt[n] = 0
        /\ pkt[PreambleBytes + 1] = SyncVector
        /\ phr \in 1 .. MAX_PKT_LEN
        /\ PreambleBytes + 2 + phr <= Len(pkt)
        /\ \A n \in PreambleBytes + 3 + phr .. Len(pkt) : pkt[n] = 0

\* work() reads zeros behind every packet: the buffer has not wrapped around.
ASSUME FreshAssumption ==
    \A k \in 1 .. Len(Packets) :
        IsPacket(Packets[k]) /\ EndOf[k] + Len(Packets[k]) <= BufferBytes
-----------------------------------------------------------------------------
\* No chip is lost or inverted.
Clean == start = 0 /\ flipped = {}

SfdByte(k) == FirstByte(k) + PreambleBytes
EndByte(k) == IF k = 0 THEN 0 ELSE SfdByte(k) + 2 + Len(Psdus[k])
IsLast(k)  == k = Len(Packets)

\* The next chip is chip c of bit i of byte b on the air.
At(b, i, c) ==
    /\ b \in Nat /\ i \in 0 .. ByteBits - 1 /\ c \in 0 .. WordChips - 1
    /\ sent = (b * ByteBits + i) * WordChips + c

BitAt(b, i) == BitOf(AirBytes[b + 1], ByteBits, i)

\* The register has read the beginning of a word, and the chips of it are counted.
WordFollows(b, i, c) ==
    /\ loop = d_state
    /\ loop # STATE_SYNC_SEARCH => d_chip_cnt = c
    /\ IF c = 0 THEN d_shift_reg \in Registers
                ELSE \E reg \in Registers : d_shift_reg = Reading(reg, BitAt(b, i), c)

\* Behind packet k the search counts the zeros, and then assembles the SFD.
Hunting(k, b, i) ==
    /\ loop = STATE_SYNC_SEARCH
    /\ EndByte(k) <= b /\ (IsLast(k) \/ b <= SfdByte(k + 1))
    /\ IF ~IsLast(k) /\ b = SfdByte(k + 1) /\ i > 0
       THEN /\ find_preamble /\ first_found /\ nbr_bit_sfd = i
            /\ bit_sfd = ShiftRight(SyncVector, ByteBits - i)
       ELSE LET zeros == (b - EndByte(k)) * ByteBits + i
            IN  /\ ~first_found
                /\ IF zeros < PreambleBits THEN ~find_preamble /\ bit_breamble = zeros
                                           ELSE find_preamble

\* The length of the next packet.
Sizing(k, b, i) ==
    /\ loop = STATE_HAVE_SYNC /\ ~IsLast(k)
    /\ b = SfdByte(k + 1) + 1
    /\ nbr_bits = i /\ byte = ShiftRight(Len(Psdus[k + 1]), ByteBits - i)

\* And its body.
Taking(k, b, i) ==
    LET psdu == Psdus[k + 1]
    IN  /\ loop = STATE_HAVE_HEADER /\ ~IsLast(k)
        /\ d_packetlen = Len(psdu) /\ d_packetlen_cnt < Len(psdu)
        /\ b = SfdByte(k + 1) + 2 + d_packetlen_cnt
        /\ nbr_bits = i /\ d_byte = ShiftRight(psdu[d_packetlen_cnt + 1], ByteBits - i)
        /\ \A n \in 1 .. d_packetlen_cnt : d_packet[n - 1] = psdu[n]

\* k packets have been received, and all of them delivered.
Receives(k, b, i, c) ==
    /\ At(b, i, c) /\ WordFollows(b, i, c)
    /\ Hunting(k, b, i) \/ Sizing(k, b, i) \/ Taking(k, b, i)
    /\ received \o d_target_queue = SubSeq(Psdus, 1, k)

LinkInv ==
    Clean => \E k \in 0 .. Len(Packets), b \in 0 .. Len(AirBytes),
                i \in 0 .. ByteBits - 1, c \in 0 .. WordChips - 1 : Receives(k, b, i, c)
=============================================================================
