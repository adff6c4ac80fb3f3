--------------------------- MODULE CrcPolynomials ---------------------------
(***************************************************************************)
(* What the two checksums are defined to be: remainders of the division of *)
(* the message, as a polynomial over the field of two elements.  A         *)
(* polynomial is the set of its exponents.                                 *)
(***************************************************************************)
EXTENDS FrameCalls

\* Bit k of a byte or word, bit 0 being the lowest.
IsSet(v, k) == BitsOf(v, 16)[16 - k] = 1

Added(P, Q) == (P \ Q) \cup (Q \ P)

\* (x^16 + x^12 + x^5 + 1) x^(e - 16)
Divisor(e) == {e, e - 4, e - 11, e - 16}

\* The exponent e is divided away, if it is there.
Reduced(P, e) == IF e \in P THEN Added(P, Divisor(e)) ELSE P

\* What is left of S, whose exponents are less than n + 16, after long division.
Remainder(S, n) ==
    LET left[k \in 0 .. n] == IF k = 0 THEN S ELSE Reduced(left[k - 1], n + 16 - k)
    IN  left[n]

BitsSet(p) == {y \in (1 .. Len(p)) \X (0 .. 7) : IsSet(p[y[1]], y[2])}

\* M(x) x^16, the bytes with the low bit first.
MessagePolynomial(p) == {8 * (Len(p) - y[1]) + 7 - y[2] + 16 : y \in BitsSet(p)}

\* crcbitbybit computes the CRC of the standard (coefficient of x^15 in bit 0),
\* of the MPDU and of its beginnings.
MatchesDefinition ==
    IsFrame /\ errors = {} /\ call \in HitCalls =>
        \A n \in 0 .. Len(Psdu) - 2 :
            LET p == SubSeq(Psdu, 1, n)
                R == Remainder(MessagePolynomial(p), 8 * n)
            IN  \A k \in 0 .. 15 : IsSet(crcbitbybit(p), k) <=> 15 - k \in R

\* M(x) x^16, the bytes with the high bit first.
SosPolynomial(p) == {8 * (Len(p) - y[1]) + y[2] + 16 : y \in BitsSet(p)}

\* Every entry of the table is the remainder of its own number.
ASSUME EntriesAssumption ==
    \A i \in 1 .. 256 :
        Remainder(SosPolynomial(<<i - 1>>), 8) = {k \in 0 .. 15 : IsSet(crcTable[i], k)}

\* The table of crc8.py, and the way it is used, give the remainder of the same polynomial
\* with bytes high bit first (coefficient of x^15 in bit 15).
SosCrcIsRemainder ==
    IsSos /\ call \in HitCalls =>
        LET R == Remainder(SosPolynomial(Received), 8 * Len(Received))
        IN  \A k \in 0 .. 15 : IsSet(crc8(Received), k) <=> k \in R
=============================================================================
