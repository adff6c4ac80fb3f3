------------------------------ MODULE ChipCode ------------------------------
(***************************************************************************)
(* The spreading code shared by transmitter and receiver: one symbol (bit) *)
(* is a word of chips, and a receiver recognises a symbol by comparing its *)
(* whole chip register with the two words.                                 *)
(*                                                                         *)
(* lib/ieee_ieee802_15_4_packet_sink.{h,cc}: CHIP_MAPPING, d_shift_reg and *)
(* the gr_count_bits16(...) == 0 tests that follow every shift.            *)
(***************************************************************************)
EXTENDS Integers

CONSTANTS
    RegSize,        \* number of values of the shift register (2^16)
    CHIP_MAPPING,   \* CHIP_MAPPING[s] is the word of symbol s
    NoSymbol        \* what the register holds when it is neither word

Chips   == {0, 1}
Symbols == {0, 1}
Reg     == 0 .. RegSize - 1

ASSUME CodeAssumption ==
    /\ RegSize \in Nat \ {0}
    /\ CHIP_MAPPING \in [Symbols -> Reg]
    /\ CHIP_MAPPING[0] # CHIP_MAPPING[1]
    /\ NoSymbol \notin Symbols

(***************************************************************************)
(* d_shift_reg = (d_shift_reg << 1) | slice(x), in an unsigned short.      *)
(***************************************************************************)
Shift(reg, c) == (2 * reg + c) % RegSize

(***************************************************************************)
(* bit_0 == 0, bit_1 == 0: no chip differs from the word of 0, of 1.  The  *)
(* words have 15 chips, so the oldest chip of the register must be 0.      *)
(***************************************************************************)
Symbol(reg) == IF reg = CHIP_MAPPING[0] THEN 0
               ELSE IF reg = CHIP_MAPPING[1] THEN 1
               ELSE NoSymbol
=============================================================================
