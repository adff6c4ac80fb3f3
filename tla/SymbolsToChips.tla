--------------------------- MODULE SymbolsToChips ---------------------------
(***************************************************************************)
(* lib/ieee_symbols_to_chips_bs.cc: the block that turns symbols into chip *)
(* words, in the flow graph that runs it.  It is declared as an            *)
(* interpolator by 2: for n symbols it consumes, work() is asked for 2 n   *)
(* words.  It computes the i-th from in[i], for i up to 2 n - 1, and reads *)
(* n items beyond the ones it was given: symbols that are to be consumed   *)
(* by a later call, or cells of the circular input buffer that hold older  *)
(* symbols, or zeros, if nothing was written there yet.                    *)
(***************************************************************************)
EXTENDS Integers, Sequences, FiniteSetsExt

CONSTANTS
    d_symbol_table,   \* the word of each symbol
    Packets,          \* what the upstream block may write: sequences of symbols
    Size,             \* cells of the input buffer
    Rooms,            \* symbols a tight output buffer may have room for
    MaxWritten        \* bound of the model on the symbols written

ASSUME BufferAssumption ==
    /\ Size \in Nat \ {0}
    /\ Rooms \subseteq 1 .. Size
    /\ MaxWritten \in Nat
    /\ Packets \subseteq Seq(DOMAIN d_symbol_table)

VARIABLES
    buffer,    \* the cells, each a symbol
    written,   \* symbols written by the upstream block since the start
    consumed,  \* symbols consumed by work()
    queued,    \* history: the packets written
    symbols,   \* history: their symbols, one packet behind the other
    output,    \* the words produced
    tight      \* whether the output buffer may be short of room in this program

vars == <<buffer, written, consumed, queued, symbols, output, tight>>

Init ==
    /\ buffer = [i \in 0 .. Size - 1 |-> 0]
    /\ written = 0 /\ consumed = 0
    /\ queued = <<>> /\ symbols = <<>> /\ output = <<>>
    /\ tight \in BOOLEAN

\* The upstream block writes a packet where there is room for it.
Write(pkt) ==
    /\ written - consumed + Len(pkt) <= Size
    /\ written + Len(pkt) <= MaxWritten
    /\ buffer' = [i \in 0 .. Size - 1 |->
                    LET k == (i - written) % Size
                    IN  IF k < Len(pkt) THEN pkt[k + 1] ELSE buffer[i]]
    /\ written' = written + Len(pkt)
    /\ queued' = Append(queued, pkt) /\ symbols' = symbols \o pkt
    /\ UNCHANGED <<consumed, output, tight>>

\* in[i], relative to the read pointer; mutants read the items one late, and
\* every item twice.
In_Late(i)  == buffer[(consumed + i + 1) % Size]
In_Twice(i) == buffer[(consumed + i \div 2) % Size]
In(i)       == buffer[(consumed + i) % Size]

\* The scheduler asks for as many words as it has symbols and room for.
Interpolation == 2
Room == IF tight THEN Rooms ELSE {Size}
Work(room) ==
    LET n == Min({written - consumed, room})
    IN  /\ n > 0
        /\ output' = output \o [i \in 1 .. Interpolation * n |-> d_symbol_table[In(i - 1)]]
        /\ consumed' = consumed + n
        /\ UNCHANGED <<buffer, written, queued, symbols, tight>>

Next == (\E pkt \in Packets : Write(pkt)) \/ (\E room \in Room : Work(room))

Spec == Init /\ [][Next]_vars
-----------------------------------------------------------------------------
Mapped(seq) == [i \in 1 .. Len(seq) |-> d_symbol_table[seq[i]]]

\* The symbols that a call consumes head what it produces, in their order, none
\* lost: the reading beyond the input only ever adds words behind them (l.66-106).
ConsumedComeFirst ==
    [][consumed' > consumed =>
        LET n   == consumed' - consumed
            new == SubSeq(output', Len(output) + 1, Len(output'))
        IN  SubSeq(new, 1, n) = Mapped(SubSeq(symbols, consumed + 1, consumed'))]_vars

\* The position behind the first whole copy of a packet at or after a position;
\* 0 when there is none, or when the position is 0 already.
Behind(from, pkt) ==
    LET copies == {p \in from .. Len(output) - Len(pkt) + 1 :
                      SubSeq(output, p, p + Len(pkt) - 1) = Mapped(pkt)}
    IN  IF from = 0 \/ copies = {} THEN 0 ELSE Min(copies) + Len(pkt)

\* A packet that is consumed goes out in one piece, and the packets in order:
\* what a receiver needs to find them.  It holds when the output buffer always
\* has room for all that is waiting.
PacketsInOnePiece ==
    ~tight /\ consumed = written =>
        LET behind[n \in 0 .. Len(queued)] ==
                IF n = 0 THEN 1 ELSE Behind(behind[n - 1], queued[n])
        IN  behind[Len(queued)] > 0
=============================================================================
