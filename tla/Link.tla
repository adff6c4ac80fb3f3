-------------------------------- MODULE Link --------------------------------
(***************************************************************************)
(* A transmitter and a receiver: the packets that send_pkt queues become   *)
(* bits, chip words and chips in bpsk_modulator, cross the air, and are    *)
(* read by the packet sink.  The radio and the demodulator are taken as    *)
(* handing over the chips in order, except that up to MaxFlips chips are   *)
(* inverted, and that the receiver may start listening late.               *)
(***************************************************************************)
EXTENDS PacketSink, SequencesExt

CONSTANTS
    Packets,         \* the packets, as sequences of bytes, in the order sent
    d_symbol_table,  \* the transmitter's words, as CHIP_MAPPING is the receiver's
    WordChips,       \* chips in a word: the bits of an unsigned short (16)
    BufferBytes,     \* the chip mapper's input buffer, in bytes of symbols
    Starts,          \* chips the receiver may have missed when it starts
    FlipsAt,         \* the chips that the channel may invert
    MaxFlips         \* how many of them it does

ASSUME LinkAssumption ==
    /\ Packets \in Seq(Seq(Byte)) /\ d_symbol_table \in [Symbols -> Nat]
    /\ WordChips \in Nat \ {0} /\ BufferBytes \in Nat
    /\ Starts \subseteq Nat /\ FlipsAt \subseteq Nat /\ MaxFlips \in Nat

VARIABLES
    sent,      \* chips sent so far
    start,     \* how many of them the receiver was not there for
    flipped,   \* the chips that the channel inverted
    received   \* the messages taken from the queue

linkVars == <<vars, sent, start, flipped, received>>

(***************************************************************************)
(* The modulator.  A packet goes out bit by bit, most significant first.   *)
(* symbols_to_chips_bs writes two words per bit of input it consumes and   *)
(* reads as many: behind every packet it sends as many symbols again, from *)
(* cells that hold zeros as long as the buffer is fresh, and symbols of    *)
(* the packets of the last lap later.                                      *)
(***************************************************************************)
Written == FlattenSeq(Packets)
EndOf[k \in 0 .. Len(Packets)] == IF k = 0 THEN 0 ELSE EndOf[k - 1] + Len(Packets[k])

\* What work() reads behind packet k.
Beyond(k) == [n \in 1 .. Len(Packets[k]) |->
                 LET at == EndOf[k] + n - BufferBytes IN IF at > 0 THEN Written[at] ELSE 0]
Burst(k)  == Packets[k] \o Beyond(k)
AirBytes  == FlattenSeq([k \in 1 .. Len(Packets) |-> Burst(k)])

ByteChips == ByteBits * WordChips
AirChips  == Len(AirBytes) * ByteChips

\* v >> n, and bit n of a word of w bits, the most significant being bit 0.
ShiftRight(v, n) ==
    LET shifted[k \in 0 .. n] == IF k = 0 THEN v ELSE shifted[k - 1] \div 2 IN shifted[n]
BitOf(v, w, n) == ShiftRight(v, w - 1 - n) % 2

\* The mutant starts at the other end of a byte.
AirSymbol_LsbFirst(m) == ShiftRight(AirBytes[(m \div ByteBits) + 1], m % ByteBits) % 2
AirSymbol(m) == BitOf(AirBytes[(m \div ByteBits) + 1], ByteBits, m % ByteBits)
AirChip(n)   == BitOf(d_symbol_table[AirSymbol(n \div WordChips)], WordChips, n % WordChips)

LinkInit ==
    /\ Init
    /\ start \in Starts /\ sent = start
    /\ flipped = {} /\ received = <<>>

\* work() reads a chip, the last of its buffer or not.
Hear(c) == \E last \in BOOLEAN : ChipStep(c, last)

Air ==
    /\ sent < AirChips /\ Len(d_target_queue) < QueueBound
    /\ sent' = sent + 1
    /\ \/ Hear(AirChip(sent)) /\ UNCHANGED flipped
       \/ /\ sent \in FlipsAt /\ Cardinality(flipped) < MaxFlips
          /\ Hear(1 - AirChip(sent)) /\ flipped' = flipped \cup {sent}
    /\ UNCHANGED <<start, received>>

Take ==
    /\ delete_head
    /\ received' = Append(received, Head(d_target_queue))
    /\ UNCHANGED <<sent, start, flipped>>

LinkNext == Air \/ Take
LinkSpec == LinkInit /\ [][LinkNext]_linkVars /\ WF_linkVars(Air) /\ WF_linkVars(Take)
-----------------------------------------------------------------------------
PreambleBytes == PreambleBits \div ByteBits
Psdu(pkt)     == SubSeq(pkt, PreambleBytes + 3, PreambleBytes + 2 + pkt[PreambleBytes + 2])
FirstByte(k)  == 2 * EndOf[k - 1]

Psdus         == [k \in 1 .. Len(Packets) |-> Psdu(Packets[k])]
\* The chips of packet k, padding and unwritten symbols left out.
ChipsOf(k) == FirstByte(k) * ByteChips ..
              (FirstByte(k) + PreambleBytes + 2 + Len(Psdus[k])) * ByteChips - 1

\* The packets that the receiver heard whole and unharmed.
Intact == {k \in 1 .. Len(Psdus) :
              start <= FirstByte(k) * ByteChips /\ flipped \cap ChipsOf(k) = {}}

Finished == sent = AirChips /\ d_target_queue = <<>>

\* What a good link delivers: the PSDU of every packet that arrived intact, each
\* once and in order ("When packets are demodulated, they are passed to the app via
\* the callback", ieee_pkt_receiver.py:17).
IntactDelivered ==
    Finished =>
        \E at \in [Intact -> 1 .. Len(received)] :
            /\ \A k \in Intact : received[at[k]] = Psdus[k]
            /\ \A j, k \in Intact : j < k => at[j] < at[k]

NothingElseDelivered ==
    flipped = {} /\ start = 0 =>
        \A i \in 1 .. Len(received) :
            /\ i <= Len(Psdus)
            /\ received[i] = Psdus[i]

\* Every packet gets through: the whole air is heard, however it is cut into
\* buffers, and whatever was queued is taken.
EverythingArrives == <>(Finished /\ Len(received) >= Cardinality(Intact))
=============================================================================
