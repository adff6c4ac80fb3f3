----------------------------- MODULE LinkProofs -----------------------------
(***************************************************************************)
(* Proofs about Link over a fresh buffer, for any two words that are told  *)
(* apart, any packets of the frame builder's form and any cuts of buffers. *)
(***************************************************************************)
EXTENDS FreshLink, PacketSinkProofs

(***************************************************************************)
(* The recursive functions of the model, by their values.                  *)
(***************************************************************************)
Halves(g, v, n) == g \in [0 .. n -> Nat] /\ g[0] = v /\ \A k \in 1 .. n : g[k] = g[k - 1] \div 2

LEMMA ShiftedHalves ==
    ASSUME NEW v \in Nat, NEW n \in Nat
    PROVE  \E g : Halves(g, v, n) /\ ShiftRight(v, n) = g[n]
<1> DEFINE Step == [k \in 1 .. n |-> [x \in Nat |-> x \div 2]]
           IsHalf(f) == f = [k \in 0 .. n |-> IF k = 0 THEN v ELSE f[k - 1] \div 2]
           shifted == CHOOSE f : IsHalf(f)
<1>1. IsRecursion(n, Nat, v, Step)
    BY DEF IsRecursion
<1>2. \A x \in Nat, k \in 1 .. n : Step[k][x] = x \div 2
    OBVIOUS
<1> HIDE DEF Step
<1>3. PICK g : Solves(g, n, Nat, v, Step)
    BY <1>1, RecursionExists
<1>4. Halves(g, v, n)
    <2>1. ASSUME NEW k \in 1 .. n
          PROVE  g[k] = g[k - 1] \div 2
        <3>1. g[k - 1] \in Nat /\ g[k] = Step[k][g[k - 1]]
            BY <1>3 DEF Solves
        <3> QED
            BY <1>2, <3>1
    <2> QED
        BY <1>3, <2>1 DEF Solves, Halves
<1>5. IsHalf(g)
    BY <1>4 DEF Halves
<1>6. IsHalf(shifted)
    BY <1>5
<1>7. ShiftRight(v, n) = shifted[n]
    BY DEF ShiftRight
<1> HIDE DEF shifted
<1>8. shifted[0] = v
    BY <1>6
<1>9. ASSUME NEW k \in 1 .. n
      PROVE  shifted[k] = shifted[k - 1] \div 2
    <2>1. k \in 0 .. n /\ k # 0
        OBVIOUS
    <2> QED
        BY <1>6, <2>1, Zenon
<1>10. \A k \in 1 .. n : shifted[k - 1] \in Nat => shifted[k] = Step[k][shifted[k - 1]]
    BY <1>2, <1>9
<1>11. \A k \in 0 .. n : shifted[k] = g[k]
    BY <1>3, <1>8, <1>10, RecursionUnique
<1>12. n \in 0 .. n
    OBVIOUS
<1> QED
    BY <1>4, <1>7, <1>11, <1>12, Zenon

\* Half of a number is a number.
LEMMA HalfIsNatural ==
    ASSUME NEW v \in Nat
    PROVE  v \div 2 \in Nat /\ v % 2 \in {0, 1} /\ 2 * (v \div 2) + (v % 2) = v
OBVIOUS

LEMMA HalvesAgree ==
    ASSUME NEW v, NEW m \in Nat, NEW n \in Nat, m <= n, NEW g, NEW h,
           Halves(g, v, m), Halves(h, v, n)
    PROVE  \A k \in 0 .. m : g[k] = h[k]
<1> DEFINE A == {k \in 0 .. m : g[k] = h[k]}
<1>1. 0 \in A
    BY DEF Halves
<1>2. ASSUME NEW k \in 1 .. m, k - 1 \in A
      PROVE  k \in A
    <2>1. g[k] = g[k - 1] \div 2 /\ h[k] = h[k - 1] \div 2
        BY DEF Halves
    <2> QED
        BY <1>2, <2>1
<1> HIDE DEF A
<1>3. \A k \in 0 .. m : k \in A
    BY <1>1, <1>2, BoundedInduction
<1> QED
    BY <1>3 DEF A

\* v >> n, one place at a time.
LEMMA ShiftRightSteps ==
    ASSUME NEW v \in Nat, NEW n \in Nat
    PROVE  /\ ShiftRight(v, 0) = v /\ ShiftRight(v, n) \in Nat
           /\ ShiftRight(v, n + 1) = ShiftRight(v, n) \div 2
<1>1. PICK f : Halves(f, v, 0) /\ ShiftRight(v, 0) = f[0]
    BY ShiftedHalves
<1>2. PICK g : Halves(g, v, n) /\ ShiftRight(v, n) = g[n]
    BY ShiftedHalves
<1>3. PICK h : Halves(h, v, n + 1) /\ ShiftRight(v, n + 1) = h[n + 1]
    BY ShiftedHalves
<1>4. n \in 0 .. n /\ n <= n + 1 /\ n + 1 \in 1 .. n + 1 /\ (n + 1) - 1 = n
    OBVIOUS
<1>5. g[n] = h[n]
    BY <1>2, <1>3, <1>4, HalvesAgree
<1>6. h[n + 1] = h[n] \div 2
    BY <1>3, <1>4 DEF Halves
<1> QED
    BY <1>1, <1>2, <1>3, <1>4, <1>5, <1>6 DEF Halves

\* A bit is a chip.
LEMMA BitIsChip ==
    ASSUME NEW v \in Nat, NEW w \in Nat, NEW n \in 0 .. w - 1
    PROVE  BitOf(v, w, n) \in Chips
<1>1. w - 1 - n \in Nat
    OBVIOUS
<1>2. ShiftRight(v, w - 1 - n) \in Nat
    BY <1>1, ShiftRightSteps
<1> QED
    BY <1>2, HalfIsNatural DEF BitOf, Chips

\* The bits of a number that have come in make the number without those that have not.
LEMMA BitComesIn ==
    ASSUME NEW v \in Nat, NEW w \in Nat, NEW n \in 0 .. w - 1
    PROVE  /\ PushBit(ShiftRight(v, w - n), BitOf(v, w, n)) = ShiftRight(v, w - (n + 1))
           /\ ShiftRight(v, 0) = v
<1> DEFINE m == w - 1 - n
<1>1. m \in Nat /\ w - n = m + 1 /\ w - (n + 1) = m
    OBVIOUS
<1>2. BitOf(v, w, n) = ShiftRight(v, m) % 2
    BY DEF BitOf
<1> HIDE DEF m
<1>3. /\ ShiftRight(v, 0) = v /\ ShiftRight(v, m) \in Nat
      /\ ShiftRight(v, m + 1) = ShiftRight(v, m) \div 2
    BY <1>1, ShiftRightSteps
<1> DEFINE u == ShiftRight(v, m)
<1>4. u \in Nat /\ 2 * (u \div 2) + (u % 2) = u
    BY <1>3, HalfIsNatural
<1> QED
    BY <1>1, <1>2, <1>3, <1>4 DEF PushBit

\* A zero has only zeros.
LEMMA BitsOfZero ==
    ASSUME NEW n \in Nat
    PROVE  ShiftRight(0, n) = 0
<1>1. PICK g : Halves(g, 0, n) /\ ShiftRight(0, n) = g[n]
    BY ShiftedHalves
<1> DEFINE A == {k \in 0 .. n : g[k] = 0}
<1>2. 0 \in A
    BY <1>1 DEF Halves
<1>3. ASSUME NEW k \in 1 .. n, k - 1 \in A
      PROVE  k \in A
    <2>1. g[k] = g[k - 1] \div 2
        BY <1>1 DEF Halves
    <2> QED
        BY <1>3, <2>1
<1> HIDE DEF A
<1>4. \A k \in 0 .. n : k \in A
    BY <1>2, <1>3, BoundedInduction
<1>5. n \in 0 .. n
    OBVIOUS
<1> QED
    BY <1>1, <1>4, <1>5 DEF A

ChipOf(s, k) == BitOf(d_symbol_table[s], WordChips, k - 1)
Reads(g, reg, s, n) == g \in [0 .. n -> Reg] /\ g[0] = reg /\ \A k \in 1 .. n : g[k] = Shift(g[k - 1], ChipOf(s, k))

LEMMA ChipOfType ==
    ASSUME NEW s \in Symbols
    PROVE  \A k \in 1 .. WordChips : ChipOf(s, k) \in Chips
<1> TAKE k \in 1 .. WordChips
<1>1. d_symbol_table[s] \in Nat /\ WordChips \in Nat /\ k - 1 \in 0 .. WordChips - 1
    BY LinkAssumption
<1> QED
    BY <1>1, BitIsChip DEF ChipOf

LEMMA ReadingReads ==
    ASSUME NEW reg \in Reg, NEW s \in Symbols, NEW n \in 0 .. WordChips
    PROVE  \E g : Reads(g, reg, s, n) /\ Reading(reg, s, n) = g[n]
<1> DEFINE Step == [k \in 1 .. n |-> [x \in Reg |-> Shift(x, ChipOf(s, k))]]
           IsRead(f) == f = [k \in 0 .. n |-> IF k = 0 THEN reg ELSE Shift(f[k - 1], BitOf(d_symbol_table[s], WordChips, k - 1))]
           read == CHOOSE f : IsRead(f)
<1>0. n \in Nat /\ \A k \in 1 .. n : ChipOf(s, k) \in Chips
    BY ChipOfType, LinkAssumption
<1>1. IsRecursion(n, Reg, reg, Step)
    <2>1. \A x \in Reg, k \in 1 .. n : Shift(x, ChipOf(s, k)) \in Reg
        BY <1>0, ShiftType
    <2> QED
        BY <1>0, <2>1 DEF IsRecursion
<1>2. \A x \in Reg, k \in 1 .. n : Step[k][x] = Shift(x, ChipOf(s, k))
    OBVIOUS
<1> HIDE DEF Step
<1>3. PICK g : Solves(g, n, Reg, reg, Step)
    BY <1>1, RecursionExists
<1>4. Reads(g, reg, s, n)
    <2>1. ASSUME NEW k \in 1 .. n
          PROVE  g[k] = Shift(g[k - 1], ChipOf(s, k))
        <3>1. g[k - 1] \in Reg /\ g[k] = Step[k][g[k - 1]]
            BY <1>0, <1>3 DEF Solves
        <3> QED
            BY <1>2, <3>1
    <2> QED
        BY <1>3, <2>1 DEF Solves, Reads
<1>5. IsRead(g)
    <2>1. ASSUME NEW k \in 0 .. n, k # 0
          PROVE  g[k] = Shift(g[k - 1], BitOf(d_symbol_table[s], WordChips, k - 1))
        <3>1. k \in 1 .. n
            BY <1>0, <2>1
        <3> QED
            BY <1>4, <3>1, Zenon DEF Reads, ChipOf
    <2> QED
        BY <1>0, <1>4, <2>1 DEF Reads
<1>6. IsRead(read)
    BY <1>5
<1>7. Reading(reg, s, n) = read[n]
    BY DEF Reading
<1> HIDE DEF read
<1>8. read[0] = reg
    BY <1>0, <1>6
<1>9. ASSUME NEW k \in 1 .. n
      PROVE  read[k] = Shift(read[k - 1], ChipOf(s, k))
    <2>1. k \in 0 .. n /\ k # 0
        BY <1>0
    <2> QED
        BY <1>6, <2>1, Zenon DEF ChipOf
<1>10. \A k \in 1 .. n : read[k - 1] \in Reg => read[k] = Step[k][read[k - 1]]
    BY <1>2, <1>9
<1>11. \A k \in 0 .. n : read[k] = g[k]
    BY <1>0, <1>3, <1>8, <1>10, RecursionUnique
<1>12. n \in 0 .. n
    BY <1>0
<1> QED
    BY <1>4, <1>7, <1>11, <1>12, Zenon

LEMMA ReadsAgree ==
    ASSUME NEW reg, NEW s, NEW m \in Nat, NEW n \in Nat, m <= n, NEW g, NEW h,
           Reads(g, reg, s, m), Reads(h, reg, s, n)
    PROVE  \A k \in 0 .. m : g[k] = h[k]
<1> DEFINE A == {k \in 0 .. m : g[k] = h[k]}
<1>1. 0 \in A
    BY DEF Reads
<1>2. ASSUME NEW k \in 1 .. m, k - 1 \in A
      PROVE  k \in A
    <2>1. g[k] = Shift(g[k - 1], ChipOf(s, k)) /\ h[k] = Shift(h[k - 1], ChipOf(s, k))
        BY DEF Reads
    <2> QED
        BY <1>2, <2>1
<1> HIDE DEF A
<1>3. \A k \in 0 .. m : k \in A
    BY <1>1, <1>2, BoundedInduction
<1> QED
    BY <1>3 DEF A

\* The register takes in a word one chip at a time.
LEMMA ReadingSteps ==
    ASSUME NEW reg \in Reg, NEW s \in Symbols, NEW n \in 0 .. WordChips - 1
    PROVE  /\ Reading(reg, s, 0) = reg
           /\ Reading(reg, s, n + 1)
                = Shift(Reading(reg, s, n), BitOf(d_symbol_table[s], WordChips, n))
<1>1. /\ n \in Nat /\ n + 1 \in Nat /\ 0 \in 0 .. WordChips /\ n \in 0 .. WordChips
      /\ n + 1 \in 0 .. WordChips /\ n <= n + 1 /\ n \in 0 .. n /\ n + 1 \in 1 .. n + 1
      /\ (n + 1) - 1 = n
    BY LinkAssumption
<1>2. PICK f : Reads(f, reg, s, 0) /\ Reading(reg, s, 0) = f[0]
    BY <1>1, ReadingReads
<1>3. PICK g : Reads(g, reg, s, n) /\ Reading(reg, s, n) = g[n]
    BY <1>1, ReadingReads
<1>4. PICK h : Reads(h, reg, s, n + 1) /\ Reading(reg, s, n + 1) = h[n + 1]
    BY <1>1, ReadingReads
<1>5. g[n] = h[n]
    BY <1>1, <1>3, <1>4, ReadsAgree
<1>6. h[n + 1] = Shift(h[n], ChipOf(s, n + 1))
    <2>1. h[n + 1] = Shift(h[(n + 1) - 1], ChipOf(s, n + 1))
        BY <1>1, <1>4, Zenon DEF Reads
    <2> QED
        BY <1>1, <2>1, Zenon
<1>7. ChipOf(s, n + 1) = BitOf(d_symbol_table[s], WordChips, n)
    BY <1>1, Zenon DEF ChipOf
<1> QED
    BY <1>2, <1>3, <1>4, <1>5, <1>6, <1>7, Zenon DEF Reads

\* Where the packets end among the bytes written.
LEMMA EndOfSteps ==
    /\ EndOf[0] = 0
    /\ \A k \in 0 .. Len(Packets) : EndOf[k] \in Nat
    /\ \A k \in 1 .. Len(Packets) : EndOf[k] = EndOf[k - 1] + Len(Packets[k])
<1> DEFINE n == Len(Packets)
           Step == [k \in 1 .. n |-> [x \in Nat |-> x + Len(Packets[k])]]
           IsEnd(f) == f = [k \in 0 .. n |-> IF k = 0 THEN 0 ELSE f[k - 1] + Len(Packets[k])]
<1>1. n \in Nat /\ \A k \in 1 .. n : Len(Packets[k]) \in Nat
    BY LinkAssumption
<1>2. EndOf = CHOOSE f : IsEnd(f)
    BY DEF EndOf
<1> HIDE DEF n
<1>3. IsRecursion(n, Nat, 0, Step)
    BY <1>1 DEF IsRecursion
<1>4. \A x \in Nat, k \in 1 .. n : Step[k][x] = x + Len(Packets[k])
    OBVIOUS
<1> HIDE DEF Step
<1>5. PICK g : Solves(g, n, Nat, 0, Step)
    BY <1>3, RecursionExists
<1>6. \A k \in 1 .. n : g[k - 1] \in Nat /\ g[k] = g[k - 1] + Len(Packets[k])
    <2> TAKE k \in 1 .. n
    <2>1. k - 1 \in 0 .. n
        BY <1>1
    <2> QED
        BY <1>4, <1>5, <2>1 DEF Solves
<1>7. IsEnd(g)
    BY <1>1, <1>5, <1>6 DEF Solves
<1>8. IsEnd(EndOf)
    BY <1>2, <1>7
<1>9. EndOf[0] = 0
    BY <1>1, <1>8
<1>10. ASSUME NEW k \in 1 .. n
       PROVE  EndOf[k] = EndOf[k - 1] + Len(Packets[k])
    <2>1. k \in 0 .. n /\ k # 0
        BY <1>1
    <2> QED
        BY <1>8, <2>1, Zenon
<1>11. \A k \in 1 .. n : EndOf[k - 1] \in Nat => EndOf[k] = Step[k][EndOf[k - 1]]
    BY <1>4, <1>10
<1>12. \A k \in 0 .. n : EndOf[k] = g[k]
    BY <1>1, <1>5, <1>9, <1>11, RecursionUnique, SMTT(20)
<1>13. \A k \in 0 .. n : EndOf[k] \in Nat
    BY <1>5, <1>12 DEF Solves
<1> QED
    BY <1>9, <1>10, <1>13 DEF n

\* Sequences put one behind the other, by the ends e: each is there, at its place.
FlatUpTo(f, seqs, e, k, S) ==
    /\ f[k] \in Seq(S) /\ Len(f[k]) = e[k]
    /\ \A q \in 1 .. k : \A j \in 1 .. Len(seqs[q]) : f[k][e[q - 1] + j] = seqs[q][j]

LEMMA Flattened ==
    ASSUME NEW S, NEW seqs \in Seq(Seq(S)), NEW e, e[0] = 0,
           \A k \in 0 .. Len(seqs) : e[k] \in Nat,
           \A k \in 1 .. Len(seqs) : e[k] = e[k - 1] + Len(seqs[k])
    PROVE  LET flat == FlattenSeq(seqs)
           IN  /\ flat \in Seq(S) /\ Len(flat) = e[Len(seqs)]
               /\ \A k \in 1 .. Len(seqs) : \A j \in 1 .. Len(seqs[k]) :
                      flat[e[k - 1] + j] = seqs[k][j]
<1> DEFINE n == Len(seqs)
           Step == [k \in 1 .. n |-> [x \in Seq(S) |-> IF k = 1 THEN seqs[k] ELSE x \o seqs[k]]]
           IsFlat(f) == f = [i \in 1 .. n |-> IF i = 1 THEN seqs[i] ELSE f[i - 1] \o seqs[i]]
           flatten == CHOOSE f : IsFlat(f)
<1>1. n \in Nat /\ \A k \in 1 .. n : seqs[k] \in Seq(S)
    OBVIOUS
<1>2. CASE n = 0
    <2>1. seqs = <<>>
        BY <1>2, EmptySequence
    <2>2. FlattenSeq(seqs) = <<>>
        BY <1>2, <2>1 DEF FlattenSeq
    <2>3. <<>> \in Seq(S) /\ Len(<<>>) = 0
        OBVIOUS
    <2> QED
        BY <1>2, <2>2, <2>3
<1>3. CASE n # 0
    <2>1. FlattenSeq(seqs) = flatten[n]
        BY <1>3 DEF FlattenSeq
    <2> HIDE DEF n
    <2>2. \A x \in Seq(S), k \in 1 .. n :
              /\ Step[k][x] = IF k = 1 THEN seqs[k] ELSE x \o seqs[k]
              /\ Step[k][x] \in Seq(S)
        <3> TAKE x \in Seq(S), k \in 1 .. n
        <3>1. Step[k][x] = IF k = 1 THEN seqs[k] ELSE x \o seqs[k]
            OBVIOUS
        <3>2. seqs[k] \in Seq(S)
            BY <1>1
        <3>3. x \o seqs[k] \in Seq(S)
            BY <3>2, Together, Zenon
        <3> QED
            BY <3>1, <3>2, <3>3, Zenon
    <2>3. IsRecursion(n, Seq(S), <<>>, Step)
        <3>1. \A k \in 1 .. n : Step[k] \in [Seq(S) -> Seq(S)]
            <4> TAKE k \in 1 .. n
            <4>1. Step[k] = [x \in Seq(S) |-> Step[k][x]]
                OBVIOUS
            <4> HIDE DEF Step
            <4>2. \A x \in Seq(S) : Step[k][x] \in Seq(S)
                BY <2>2
            <4> QED
                BY <4>1, <4>2, Zenon
        <3>2. Step = [k \in 1 .. n |-> Step[k]]
            OBVIOUS
        <3> HIDE DEF Step
        <3>3. Step \in [1 .. n -> [Seq(S) -> Seq(S)]]
            BY <3>1, <3>2, Zenon
        <3>4. <<>> \in Seq(S)
            OBVIOUS
        <3> QED
            BY <1>1, <3>3, <3>4, Zenon DEF IsRecursion
    <2> HIDE DEF Step
    <2>4. PICK g : Solves(g, n, Seq(S), <<>>, Step)
        BY <2>3, RecursionExists
    <2> DEFINE f == [i \in 1 .. n |-> g[i]]
    <2>5. \A k \in 1 .. n : f[k] = IF k = 1 THEN seqs[k] ELSE f[k - 1] \o seqs[k]
        <3> TAKE k \in 1 .. n
        <3>1. k - 1 \in 0 .. n /\ (k # 1 => k - 1 \in 1 .. n)
            BY <1>1
        <3>2. g[k - 1] \in Seq(S) /\ g[k] = Step[k][g[k - 1]]
            BY <2>4, <3>1 DEF Solves
        <3>3. g[k] = IF k = 1 THEN seqs[k] ELSE g[k - 1] \o seqs[k]
            BY <2>2, <3>2, Zenon
        <3>4. f[k] = g[k] /\ (k # 1 => f[k - 1] = g[k - 1])
            BY <3>1
        <3> QED
            BY <3>3, <3>4, Zenon
    <2>6. f = [i \in 1 .. n |-> f[i]]
        OBVIOUS
    <2> HIDE DEF f
    <2>7. IsFlat(f)
        BY <2>5, <2>6
    <2>8. IsFlat(flatten)
        BY <2>7, Zenon
    <2> HIDE DEF flatten
    <2>9. \A k \in 1 .. n : flatten[k] = IF k = 1 THEN seqs[k] ELSE flatten[k - 1] \o seqs[k]
        BY <2>8, Zenon
    <2> DEFINE A == {k \in 0 .. n : k > 0 => FlatUpTo(flatten, seqs, e, k, S)}
    <2>10. 0 \in A
        BY <1>1
    <2>11. ASSUME NEW k \in 1 .. n, k - 1 \in A
           PROVE  k \in A
        <3>1. k \in 0 .. n /\ seqs[k] \in Seq(S) /\ Len(seqs[k]) \in Nat
              /\ e[k - 1] \in Nat /\ e[k] = e[k - 1] + Len(seqs[k])
            BY <1>1 DEF n
        <3>2. CASE k = 1
            <4>1. flatten[k] = seqs[k] /\ e[k - 1] = 0
                BY <2>9, <3>2
            <4>2. \A q \in 1 .. k : q = k
                BY <3>2
            <4>3. FlatUpTo(flatten, seqs, e, k, S)
                BY <3>1, <4>1, <4>2 DEF FlatUpTo
            <4> QED
                BY <3>1, <4>3
        <3>3. CASE k # 1
            <4>1. k - 1 > 0 /\ k - 1 \in Nat
                BY <3>3
            <4>2. FlatUpTo(flatten, seqs, e, k - 1, S)
                BY <2>11, <4>1
            <4>3. flatten[k] = flatten[k - 1] \o seqs[k]
                BY <2>9, <3>3, Zenon
            <4> DEFINE a == flatten[k - 1]
                       b == seqs[k]
            <4>4. a \in Seq(S) /\ Len(a) = e[k - 1] /\ b \in Seq(S)
                BY <3>1, <4>2 DEF FlatUpTo
            <4>5. \A q \in 1 .. k - 1 : \A j \in 1 .. Len(seqs[q]) : a[e[q - 1] + j] = seqs[q][j]
                BY <4>2, Zenon DEF FlatUpTo
            <4>6. flatten[k] = a \o b
                BY <4>3
            <4> HIDE DEF a
            <4>7. a \o b \in Seq(S) /\ Len(a \o b) = e[k]
                <5>1. a \o b \in Seq(S) /\ Len(a \o b) = Len(a) + Len(b)
                    BY <4>4, Together, Zenon
                <5> QED
                    BY <3>1, <4>4, <5>1
            <4>8. ASSUME NEW q \in 1 .. k, NEW j \in 1 .. Len(seqs[q])
                  PROVE  (a \o b)[e[q - 1] + j] = seqs[q][j]
                <5>1. CASE q = k
                    <6>1. j \in 1 .. Len(b) /\ seqs[q] = b
                        BY <5>1
                    <6> HIDE DEF b
                    <6>2. \A m \in 1 .. Len(b) : (a \o b)[Len(a) + m] = b[m]
                        BY <4>4, SecondOfTwo, SMTT(20)
                    <6> QED
                        BY <4>4, <5>1, <6>1, <6>2, Zenon
                <5>2. CASE q # k
                    <6>1. q \in 1 .. k - 1 /\ q \in 1 .. n /\ q - 1 \in 0 .. n /\ q \in 0 .. n
                        BY <1>1, <5>2
                    <6>2. a[e[q - 1] + j] = seqs[q][j]
                        BY <4>5, <6>1, Zenon
                    <6>3. e[q - 1] + j \in 1 .. Len(a)
                        <7>1. e[q - 1] \in Nat /\ e[q] = e[q - 1] + Len(seqs[q]) /\ e[q] \in Nat
                            BY <6>1 DEF n
                        <7>2. e[q] <= e[k - 1]
                            <8> DEFINE B == {m \in 0 .. n : m >= q => e[q] <= e[m]}
                            <8>1. 0 \in B
                                BY <1>1, <6>1
                            <8>2. ASSUME NEW m \in 1 .. n, m - 1 \in B
                                  PROVE  m \in B
                                <9>1. /\ e[m - 1] \in Nat /\ e[m] = e[m - 1] + Len(seqs[m])
                                      /\ Len(seqs[m]) \in Nat
                                    BY <1>1 DEF n
                                <9> QED
                                    BY <7>1, <8>2, <9>1
                            <8> HIDE DEF B
                            <8>3. \A m \in 0 .. n : m \in B
                                BY <1>1, <8>1, <8>2, BoundedInduction
                            <8>4. k - 1 \in 0 .. n /\ k - 1 >= q
                                BY <1>1, <6>1
                            <8> QED
                                BY <8>3, <8>4 DEF B
                        <7>3. j \in Nat /\ 1 <= j /\ j <= Len(seqs[q]) /\ Len(seqs[q]) \in Nat
                            BY <1>1, <6>1
                        <7>4. Len(a) = e[k - 1] /\ e[k - 1] \in Nat
                            BY <3>1, <4>4, Zenon
                        <7>5. \A x, y, z, t, l \in Nat :
                                  1 <= y /\ y <= l /\ x + l <= t /\ t <= z => x + y \in 1 .. z
                            OBVIOUS
                        <7>6. e[q - 1] + Len(seqs[q]) <= e[q]
                            BY <7>1, <7>3
                        <7> QED
                            BY <7>1, <7>2, <7>3, <7>4, <7>5, <7>6, Zenon
                    <6>4. (a \o b)[e[q - 1] + j] = a[e[q - 1] + j]
                        BY <4>4, <6>3, FirstOfTwo, Zenon
                    <6> QED
                        BY <6>2, <6>4, Zenon
                <5> QED
                    BY <5>1, <5>2
            <4>9. FlatUpTo(flatten, seqs, e, k, S)
                BY <4>6, <4>7, <4>8, Zenon DEF FlatUpTo
            <4> QED
                BY <3>1, <4>9
        <3> QED
            BY <3>2, <3>3
    <2> HIDE DEF A
    <2>12. \A k \in 0 .. n : k \in A
        BY <1>1, <2>10, <2>11, BoundedInduction
    <2>13. FlatUpTo(flatten, seqs, e, n, S)
        BY <1>1, <1>3, <2>12 DEF A
    <2> QED
        BY <2>1, <2>13 DEF n, FlatUpTo
<1> QED
    BY <1>2, <1>3, Zenon
-----------------------------------------------------------------------------
(***************************************************************************)
(* What is on the air.                                                     *)
(***************************************************************************)
\* A preamble is a number of zero bytes.
LEMMA WholePreamble ==
    PreambleBytes \in Nat \ {0} /\ PreambleBytes * ByteBits = PreambleBits
<1>1. PreambleBits \in Nat \ {0} /\ ByteBits \in Nat \ {0} /\ PreambleBits % ByteBits = 0
    BY SinkAssumption, BitsAssumption
<1> DEFINE q == PreambleBits \div ByteBits
<1>2. q \in Int /\ PreambleBits = q * ByteBits
    <2>1. PreambleBits \in Int
        BY <1>1
    <2>2. q \in Int /\ PreambleBits = q * ByteBits + (PreambleBits % ByteBits)
        BY <1>1, <2>1, Division
    <2> QED
        BY <1>1, <2>2
<1> HIDE DEF q
<1>3. q > 0
    <2> SUFFICES ASSUME q <= 0 PROVE FALSE
        BY <1>2
    <2>1. (0 - q) * ByteBits >= 0
        BY <1>1, <1>2
    <2>2. q * ByteBits = 0 - (0 - q) * ByteBits
        BY <1>1, <1>2
    <2> QED
        BY <1>1, <1>2, <2>1, <2>2
<1>4. PreambleBytes = q
    BY DEF PreambleBytes, q
<1> QED
    BY <1>2, <1>3, <1>4

LEMMA PacketIs ==
    ASSUME NEW k \in 1 .. Len(Packets)
    PROVE  /\ Packets[k] \in Seq(Byte) /\ Len(Packets[k]) \in Nat /\ IsPacket(Packets[k])
           /\ EndOf[k] + Len(Packets[k]) <= BufferBytes
BY LinkAssumption, FreshAssumption

LEMMA ZeroIsByte == 0 \in Byte
BY SinkAssumption DEF Byte

\* A packet goes out with as many zeros behind it as it has bytes.
LEMMA BurstIs ==
    ASSUME NEW k \in 1 .. Len(Packets)
    PROVE  /\ Burst(k) \in Seq(Byte) /\ Len(Burst(k)) = 2 * Len(Packets[k])
           /\ \A j \in 1 .. 2 * Len(Packets[k]) :
                  Burst(k)[j] = IF j <= Len(Packets[k]) THEN Packets[k][j] ELSE 0
<1> DEFINE a == Packets[k]
           b == Beyond(k)
<1>1. a \in Seq(Byte) /\ Len(a) \in Nat
    BY PacketIs
<1>2. k \in 0 .. Len(Packets)
    BY LinkAssumption
<1>3. EndOf[k] \in Nat /\ EndOf[k] + Len(a) <= BufferBytes /\ BufferBytes \in Nat
    BY <1>2, EndOfSteps, PacketIs, LinkAssumption
<1>4. b = [n \in 1 .. Len(a) |-> 0]
    <2>1. \A n \in 1 .. Len(a) : ~(EndOf[k] + n - BufferBytes > 0)
        BY <1>1, <1>3
    <2> QED
        BY <2>1 DEF Beyond
<1> HIDE DEF a, b
<1>5. b \in Seq(Byte) /\ Len(b) = Len(a) /\ \A j \in 1 .. Len(a) : b[j] = 0
    <2> DEFINE z == [n \in 1 .. Len(a) |-> 0]
    <2>1. z \in [1 .. Len(a) -> Byte] /\ \A j \in 1 .. Len(a) : z[j] = 0
        BY ZeroIsByte
    <2> HIDE DEF z
    <2>2. z \in Seq(Byte) /\ Len(z) = Len(a)
        BY <1>1, <2>1, FunctionIsSeq
    <2> QED
        BY <1>4, <2>1, <2>2 DEF z
<1>6. Burst(k) = a \o b
    BY DEF Burst, a, b
<1>7. a \o b \in Seq(Byte) /\ Len(a \o b) = Len(a) + Len(b)
    BY <1>1, <1>5, Together, Zenon
<1>8. Len(a) + Len(b) = 2 * Len(a)
    BY <1>1, <1>5
<1>9. ASSUME NEW j \in 1 .. 2 * Len(a)
      PROVE  (a \o b)[j] = IF j <= Len(a) THEN a[j] ELSE 0
    <2>1. CASE j <= Len(a)
        <3>1. j \in 1 .. Len(a)
            BY <1>1, <2>1
        <3>2. (a \o b)[j] = a[j]
            BY <1>1, <1>5, <3>1, FirstOfTwo, Zenon
        <3> QED
            BY <2>1, <3>2, Zenon
    <2>2. CASE ~(j <= Len(a))
        <3>1. j - Len(a) \in 1 .. Len(b) /\ Len(a) + (j - Len(a)) = j
            BY <1>1, <1>5, <2>2
        <3>2. \A m \in 1 .. Len(b) : (a \o b)[Len(a) + m] = b[m]
            BY <1>1, <1>5, SecondOfTwo, Zenon
        <3>3. (a \o b)[j] = b[j - Len(a)]
            BY <3>1, <3>2
        <3>4. b[j - Len(a)] = 0
            BY <1>5, <3>1, Zenon
        <3> QED
            BY <2>2, <3>3, <3>4, Zenon
    <2> QED
        BY <2>1, <2>2
<1> QED
    BY <1>6, <1>7, <1>8, <1>9, Zenon DEF a

\* The air is the packets and the zeros behind them, one behind the other.
LEMMA AirIs ==
    /\ AirBytes \in Seq(Byte) /\ Len(AirBytes) = 2 * EndOf[Len(Packets)]
    /\ \A k \in 1 .. Len(Packets) : \A j \in 1 .. 2 * Len(Packets[k]) :
           AirBytes[FirstByte(k) + j] = IF j <= Len(Packets[k]) THEN Packets[k][j] ELSE 0
<1> DEFINE n == Len(Packets)
           seqs == [k \in 1 .. n |-> Burst(k)]
           e == [k \in 0 .. n |-> 2 * EndOf[k]]
<1>1. n \in Nat
    BY LinkAssumption
<1>2. seqs \in Seq(Seq(Byte)) /\ Len(seqs) = n
    <2>1. seqs \in [1 .. n -> Seq(Byte)]
        BY BurstIs
    <2> HIDE DEF seqs, n
    <2> QED
        BY <1>1, <2>1, FunctionIsSeq
<1>3. \A k \in 1 .. n : seqs[k] = Burst(k)
    OBVIOUS
<1>4. AirBytes = FlattenSeq(seqs)
    BY DEF AirBytes
<1>5. \A k \in 0 .. n : e[k] = 2 * EndOf[k] /\ e[k] \in Nat
    BY EndOfSteps
<1> HIDE DEF seqs, e
<1>6. e[0] = 0
    BY <1>1, <1>5, EndOfSteps
<1>7. \A k \in 1 .. n : e[k] = e[k - 1] + Len(seqs[k])
    <2> TAKE k \in 1 .. n
    <2>1. k \in 0 .. n /\ k - 1 \in 0 .. n
        BY <1>1
    <2>2. EndOf[k] = EndOf[k - 1] + Len(Packets[k]) /\ EndOf[k - 1] \in Nat
        BY <2>1, EndOfSteps
    <2>3. Len(seqs[k]) = 2 * Len(Packets[k]) /\ Len(Packets[k]) \in Nat
        BY <1>3, BurstIs, PacketIs
    <2>4. e[k] = 2 * EndOf[k] /\ e[k - 1] = 2 * EndOf[k - 1]
        BY <1>5, <2>1, Zenon
    <2>5. \A x, y \in Nat : 2 * (x + y) = 2 * x + 2 * y
        OBVIOUS
    <2>6. 2 * EndOf[k] = 2 * EndOf[k - 1] + 2 * Len(Packets[k])
        BY <2>2, <2>3, <2>5, Zenon
    <2> QED
        BY <2>3, <2>4, <2>6, Zenon
<1>8. /\ AirBytes \in Seq(Byte) /\ Len(AirBytes) = e[n]
      /\ \A k \in 1 .. n : \A j \in 1 .. Len(seqs[k]) : AirBytes[e[k - 1] + j] = seqs[k][j]
    BY <1>2, <1>4, <1>5, <1>6, <1>7, Flattened, SMTT(20)
<1>9. ASSUME NEW k \in 1 .. n, NEW j \in 1 .. 2 * Len(Packets[k])
      PROVE  AirBytes[FirstByte(k) + j] = IF j <= Len(Packets[k]) THEN Packets[k][j] ELSE 0
    <2>1. k - 1 \in 0 .. n
        BY <1>1
    <2>2. e[k - 1] = FirstByte(k)
        BY <1>5, <2>1 DEF FirstByte
    <2>3. j \in 1 .. Len(seqs[k]) /\ seqs[k][j] = IF j <= Len(Packets[k]) THEN Packets[k][j] ELSE 0
        BY <1>3, BurstIs
    <2> QED
        BY <1>8, <2>2, <2>3, Zenon
<1>10. n \in 0 .. n
    BY <1>1
<1> QED
    BY <1>5, <1>8, <1>9, <1>10 DEF n

\* What a packet announces is behind its PHR.
LEMMA PsduIs ==
    ASSUME NEW k \in 1 .. Len(Packets)
    PROVE  /\ Psdus[k] \in Seq(Byte) /\ Len(Psdus[k]) = Packets[k][PreambleBytes + 2]
           /\ Len(Psdus[k]) \in 1 .. MAX_PKT_LEN
           /\ PreambleBytes + 2 + Len(Psdus[k]) <= Len(Packets[k])
           /\ \A j \in 1 .. Len(Psdus[k]) : Psdus[k][j] = Packets[k][PreambleBytes + 2 + j]
<1> DEFINE pkt == Packets[k]
           phr == pkt[PreambleBytes + 2]
           m   == PreambleBytes + 2
<1>1. pkt \in Seq(Byte) /\ Len(pkt) \in Nat /\ phr \in 1 .. MAX_PKT_LEN /\ m + phr <= Len(pkt)
    BY PacketIs DEF IsPacket
<1>2. m \in Nat /\ MAX_PKT_LEN \in Nat
    BY WholePreamble, SinkAssumption
<1>3. Psdus[k] = SubSeq(pkt, PreambleBytes + 3, m + phr)
    BY DEF Psdus, Psdu
<1>4. PreambleBytes + 3 = m + 1
    BY WholePreamble
<1> HIDE DEF pkt, phr, m
<1>5. /\ SubSeq(pkt, m + 1, m + phr) \in Seq(Byte)
      /\ Len(SubSeq(pkt, m + 1, m + phr)) = phr
      /\ \A j \in 1 .. phr : SubSeq(pkt, m + 1, m + phr)[j] = pkt[m + j]
    <2>1. phr \in Nat
        BY <1>1, <1>2
    <2> QED
        BY <1>1, <1>2, <2>1, PartOf
<1> QED
    BY <1>1, <1>3, <1>4, <1>5 DEF pkt, phr, m

\* The packets end one behind the other.
LEMMA EndsOrdered ==
    ASSUME NEW k \in 0 .. Len(Packets)
    PROVE  EndOf[k] <= EndOf[Len(Packets)]
<1> DEFINE n == Len(Packets)
           A == {m \in 0 .. n : m >= k => EndOf[k] <= EndOf[m]}
<1>1. n \in Nat /\ k \in Nat /\ k <= n
    BY LinkAssumption
<1>2. 0 \in A
    BY <1>1, EndOfSteps
<1>3. ASSUME NEW m \in 1 .. n, m - 1 \in A
      PROVE  m \in A
    <2>1. m - 1 \in 0 .. n /\ m \in 0 .. n /\ m \in 1 .. Len(Packets)
        BY <1>1
    <2>2. EndOf[m] = EndOf[m - 1] + Len(Packets[m]) /\ EndOf[m - 1] \in Nat /\ EndOf[k] \in Nat
        BY <2>1, EndOfSteps
    <2>3. Len(Packets[m]) \in Nat
        BY <2>1, PacketIs
    <2>4. CASE m = k
        BY <2>1, <2>2, <2>3, <2>4
    <2>5. CASE m # k
        <3>1. m >= k => m - 1 >= k
            BY <1>1, <2>1, <2>5
        <3> QED
            BY <1>3, <2>1, <2>2, <2>3, <3>1
    <2> QED
        BY <2>4, <2>5
<1> HIDE DEF A
<1>4. \A m \in 0 .. n : m \in A
    BY <1>1, <1>2, <1>3, BoundedInduction
<1>5. n \in 0 .. n /\ n >= k
    BY <1>1
<1> QED
    BY <1>4, <1>5 DEF A

LEMMA PlaceSums ==
    ASSUME NEW f \in Nat, NEW p \in Nat, NEW m \in Nat, NEW l \in Nat, NEW e \in Nat, NEW d \in Nat,
           p + 2 + m <= l, f + 2 * l = 2 * e, e <= d
    PROVE  /\ f + p \in Nat /\ f + p + 2 + m \in Nat /\ f + p + 2 + m <= f + l
           /\ f + p + 2 + m <= 2 * e /\ 2 * e <= 2 * d
OBVIOUS

\* Where a packet is on the air.
LEMMA PlaceOf ==
    ASSUME NEW k \in 1 .. Len(Packets)
    PROVE  /\ FirstByte(k) \in Nat /\ FirstByte(k) = 2 * EndOf[k - 1]
           /\ SfdByte(k) = FirstByte(k) + PreambleBytes
           /\ EndByte(k) = SfdByte(k) + 2 + Len(Psdus[k])
           /\ SfdByte(k) \in Nat /\ EndByte(k) \in Nat
           /\ FirstByte(k) + 2 * Len(Packets[k]) = 2 * EndOf[k]
           /\ EndByte(k) <= FirstByte(k) + Len(Packets[k])
           /\ EndByte(k) <= 2 * EndOf[k] /\ 2 * EndOf[k] <= Len(AirBytes)
<1>1. k - 1 \in 0 .. Len(Packets) /\ k \in 0 .. Len(Packets) /\ k # 0
    BY LinkAssumption
<1>2. EndOf[k - 1] \in Nat /\ EndOf[k] \in Nat /\ EndOf[k] = EndOf[k - 1] + Len(Packets[k])
    BY <1>1, EndOfSteps
<1>3. Len(Packets[k]) \in Nat /\ PreambleBytes \in Nat
    BY PacketIs, WholePreamble
<1>4. Len(Psdus[k]) \in Nat /\ PreambleBytes + 2 + Len(Psdus[k]) <= Len(Packets[k])
    BY PsduIs, SinkAssumption
<1>5. EndOf[k] <= EndOf[Len(Packets)] /\ Len(AirBytes) = 2 * EndOf[Len(Packets)]
    BY <1>1, EndsOrdered, AirIs
<1>6. EndOf[Len(Packets)] \in Nat
    BY EndOfSteps, LinkAssumption
<1>7. FirstByte(k) \in Nat /\ FirstByte(k) = 2 * EndOf[k - 1]
    BY <1>2 DEF FirstByte
<1>8. SfdByte(k) = FirstByte(k) + PreambleBytes /\ EndByte(k) = SfdByte(k) + 2 + Len(Psdus[k])
    BY <1>1 DEF SfdByte, EndByte
<1>9. FirstByte(k) + 2 * Len(Packets[k]) = 2 * EndOf[k]
    BY <1>2, <1>3, <1>7
<1> DEFINE f == FirstByte(k)
           p == PreambleBytes
           m == Len(Psdus[k])
           l == Len(Packets[k])
           d == EndOf[Len(Packets)]
<1> HIDE DEF f, p, m, l, d
<1>10. /\ f \in Nat /\ p \in Nat /\ m \in Nat /\ l \in Nat /\ d \in Nat /\ EndOf[k] \in Nat
       /\ p + 2 + m <= l /\ f + 2 * l = 2 * EndOf[k] /\ EndOf[k] <= d
    BY <1>2, <1>3, <1>4, <1>5, <1>6, <1>7, <1>9 DEF f, p, m, l, d
<1>11. /\ f + p \in Nat /\ f + p + 2 + m \in Nat /\ f + p + 2 + m <= f + l
       /\ f + p + 2 + m <= 2 * EndOf[k] /\ 2 * EndOf[k] <= 2 * d
    BY <1>10, PlaceSums, Zenon
<1>12. SfdByte(k) = f + p /\ EndByte(k) = f + p + 2 + m /\ Len(AirBytes) = 2 * d
    BY <1>5, <1>8, Zenon DEF f, p, m, d
<1> QED
    BY <1>7, <1>8, <1>9, <1>11, <1>12, Zenon DEF f, p, m, l, d

\* Between two frames there is a whole preamble at least.
LEMMA GapOf ==
    ASSUME NEW k \in 0 .. Len(Packets)
    PROVE  /\ EndByte(k) \in Nat /\ EndByte(k) <= Len(AirBytes) /\ Len(AirBytes) \in Nat
           /\ ~IsLast(k) => /\ k + 1 \in 1 .. Len(Packets)
                            /\ EndByte(k) <= FirstByte(k + 1)
                            /\ EndByte(k) + PreambleBytes <= SfdByte(k + 1)
<1>1. Len(Packets) \in Nat /\ Len(AirBytes) \in Nat
    BY LinkAssumption, AirIs
<1>2. CASE k = 0
    <2>1. EndByte(k) = 0
        BY <1>2 DEF EndByte
    <2>2. ASSUME ~IsLast(k)
          PROVE  /\ k + 1 \in 1 .. Len(Packets)
                 /\ EndByte(k) <= FirstByte(k + 1)
                 /\ EndByte(k) + PreambleBytes <= SfdByte(k + 1)
        <3>1. k + 1 \in 1 .. Len(Packets)
            BY <1>1, <2>2 DEF IsLast
        <3>2. FirstByte(k + 1) \in Nat /\ SfdByte(k + 1) = FirstByte(k + 1) + PreambleBytes
            BY <3>1, PlaceOf
        <3> QED
            BY <2>1, <3>1, <3>2, WholePreamble
    <2> QED
        BY <1>1, <2>1, <2>2
<1>3. CASE k # 0
    <2>1. k \in 1 .. Len(Packets)
        BY <1>3
    <2>2. EndByte(k) \in Nat /\ EndByte(k) <= 2 * EndOf[k] /\ 2 * EndOf[k] <= Len(AirBytes)
        BY <2>1, PlaceOf
    <2>3. EndOf[k] \in Nat
        BY EndOfSteps
    <2>4. ASSUME ~IsLast(k)
          PROVE  /\ k + 1 \in 1 .. Len(Packets)
                 /\ EndByte(k) <= FirstByte(k + 1)
                 /\ EndByte(k) + PreambleBytes <= SfdByte(k + 1)
        <3>1. k + 1 \in 1 .. Len(Packets) /\ (k + 1) - 1 = k
            BY <1>1, <2>4 DEF IsLast
        <3>2. /\ FirstByte(k + 1) = 2 * EndOf[k]
              /\ SfdByte(k + 1) = FirstByte(k + 1) + PreambleBytes
            BY <3>1, PlaceOf
        <3> QED
            BY <2>2, <2>3, <3>1, <3>2, WholePreamble
    <2> QED
        BY <1>1, <2>2, <2>3, <2>4
<1> QED
    BY <1>2, <1>3

\* And zeros only, the padding of the last and the preamble of the next included.
LEMMA ZerosBetween ==
    ASSUME NEW k \in 0 .. Len(Packets), NEW b \in Nat, EndByte(k) <= b,
           IF IsLast(k) THEN b < Len(AirBytes) ELSE b < SfdByte(k + 1)
    PROVE  AirBytes[b + 1] = 0
<1> USE DEF IsLast
<1>1. Len(Packets) \in Nat /\ PreambleBytes \in Nat \ {0}
    BY LinkAssumption, WholePreamble
<1>2. CASE k # 0 /\ b < 2 * EndOf[k]
    <2> DEFINE j == b + 1 - FirstByte(k)
               m == Len(Psdus[k])
    <2>1. k \in 1 .. Len(Packets)
        BY <1>2
    <2>2. /\ FirstByte(k) \in Nat /\ EndByte(k) = FirstByte(k) + PreambleBytes + 2 + m
          /\ FirstByte(k) + 2 * Len(Packets[k]) = 2 * EndOf[k]
        BY <2>1, PlaceOf
    <2>3. /\ Len(Packets[k]) \in Nat /\ m \in Nat
          /\ \A q \in PreambleBytes + 3 + m .. Len(Packets[k]) : Packets[k][q] = 0
        BY <2>1, PacketIs, PsduIs, SinkAssumption DEF IsPacket
    <2> HIDE DEF m
    <2>4. j \in 1 .. 2 * Len(Packets[k]) /\ j >= PreambleBytes + 3 + m /\ FirstByte(k) + j = b + 1
        <3> DEFINE f == FirstByte(k)
                   p == PreambleBytes
                   l == Len(Packets[k])
                   e == EndOf[k]
        <3> HIDE DEF f, p, l, e
        <3>1. f \in Nat /\ p \in Nat /\ l \in Nat /\ m \in Nat /\ f + p + 2 + m <= b /\ b < 2 * e
              /\ f + 2 * l = 2 * e
            BY <1>1, <1>2, <2>2, <2>3, Zenon DEF f, p, l, e
        <3>2. b + 1 - f \in 1 .. 2 * l /\ b + 1 - f >= p + 3 + m /\ f + (b + 1 - f) = b + 1
            BY <3>1
        <3> QED
            BY <3>2 DEF f, p, l
    <2> HIDE DEF j
    <2>5. AirBytes[b + 1] = IF j <= Len(Packets[k]) THEN Packets[k][j] ELSE 0
        BY <2>1, <2>4, AirIs
    <2>6. j <= Len(Packets[k]) => j \in PreambleBytes + 3 + m .. Len(Packets[k])
        BY <1>1, <2>3, <2>4
    <2> QED
        BY <2>3, <2>5, <2>6
<1>3. CASE ~(k # 0 /\ b < 2 * EndOf[k])
    <2>1. EndOf[k] \in Nat /\ (k = 0 => EndOf[k] = 0) /\ b >= 2 * EndOf[k]
        BY <1>3, EndOfSteps
    <2>2. ~IsLast(k)
        <3> SUFFICES ASSUME k = Len(Packets) PROVE FALSE
            OBVIOUS
        <3> QED
            BY <2>1, AirIs
    <2>3. k + 1 \in 1 .. Len(Packets) /\ (k + 1) - 1 = k
        BY <1>1, <2>2
    <2>4. /\ FirstByte(k + 1) = 2 * EndOf[k] /\ Len(Packets[k + 1]) \in Nat
          /\ b < FirstByte(k + 1) + PreambleBytes /\ PreambleBytes + 2 <= Len(Packets[k + 1])
        <3>1. Len(Packets[k + 1]) \in Nat /\ PreambleBytes + 2 + Len(Psdus[k + 1]) <= Len(Packets[k + 1])
              /\ Len(Psdus[k + 1]) \in Nat
            BY <2>3, PsduIs, PacketIs, SinkAssumption, SMTT(20)
        <3>2. FirstByte(k + 1) = 2 * EndOf[k] /\ SfdByte(k + 1) = FirstByte(k + 1) + PreambleBytes
            BY <2>3, PlaceOf
        <3> DEFINE f == FirstByte(k + 1)
                   p == PreambleBytes
                   l == Len(Packets[k + 1])
                   m == Len(Psdus[k + 1])
        <3> HIDE DEF f, p, l, m
        <3>3. l \in Nat /\ m \in Nat /\ p \in Nat /\ p + 2 + m <= l
            BY <1>1, <3>1, Zenon DEF f, p, l, m
        <3>4. p + 2 <= l
            BY <3>3
        <3>5. b < f + p
            BY <2>2, <3>2, Zenon DEF f, p
        <3> QED
            BY <3>2, <3>3, <3>4, <3>5, Zenon DEF f, p, l
    <2> DEFINE j == b + 1 - FirstByte(k + 1)
    <2>5. /\ j \in 1 .. PreambleBytes /\ j \in 1 .. 2 * Len(Packets[k + 1])
          /\ j <= Len(Packets[k + 1]) /\ FirstByte(k + 1) + j = b + 1
        <3> DEFINE f == FirstByte(k + 1)
                   p == PreambleBytes
                   l == Len(Packets[k + 1])
        <3> HIDE DEF f, p, l
        <3>1. f \in Nat /\ p \in Nat /\ l \in Nat /\ b >= f /\ b < f + p /\ p + 2 <= l
            <4>1. f = 2 * EndOf[k] /\ EndOf[k] \in Nat /\ b >= 2 * EndOf[k]
                BY <2>1, <2>4 DEF f
            <4> QED
                BY <1>1, <2>4, <4>1 DEF f, p, l
        <3>2. /\ b + 1 - f \in 1 .. p /\ b + 1 - f \in 1 .. 2 * l
              /\ b + 1 - f <= l /\ f + (b + 1 - f) = b + 1
            BY <3>1
        <3> QED
            BY <3>2 DEF f, p, l
    <2> HIDE DEF j
    <2>6. AirBytes[b + 1] = Packets[k + 1][j]
        BY <2>3, <2>5, AirIs
    <2>7. Packets[k + 1][j] = 0
        BY <2>3, <2>5, PacketIs DEF IsPacket
    <2> QED
        BY <2>6, <2>7
<1> QED
    BY <1>2, <1>3

\* A frame: SFD, PHR, PSDU.
LEMMA FrameOnAir ==
    ASSUME NEW k \in 1 .. Len(Packets)
    PROVE  /\ AirBytes[SfdByte(k) + 1] = SyncVector
           /\ AirBytes[SfdByte(k) + 2] = Len(Psdus[k])
           /\ \A j \in 1 .. Len(Psdus[k]) : AirBytes[SfdByte(k) + 2 + j] = Psdus[k][j]
<1> DEFINE pkt == Packets[k]
           m   == Len(Psdus[k])
<1>1. PreambleBytes \in Nat \ {0} /\ FirstByte(k) \in Nat /\ SfdByte(k) = FirstByte(k) + PreambleBytes
    BY WholePreamble, PlaceOf
<1>2. /\ Len(pkt) \in Nat /\ m \in Nat /\ PreambleBytes + 2 + m <= Len(pkt)
      /\ \A j \in 1 .. m : Psdus[k][j] = pkt[PreambleBytes + 2 + j]
      /\ m = pkt[PreambleBytes + 2] /\ pkt[PreambleBytes + 1] = SyncVector
    BY PacketIs, PsduIs, SinkAssumption DEF IsPacket
<1> HIDE DEF m
<1>3. ASSUME NEW j \in 1 .. Len(pkt)
      PROVE  AirBytes[FirstByte(k) + j] = pkt[j]
    <2>1. j \in 1 .. 2 * Len(pkt) /\ j <= Len(pkt)
        BY <1>2
    <2> QED
        BY <2>1, AirIs
<1> DEFINE f == FirstByte(k)
           p == PreambleBytes
           l == Len(pkt)
<1> HIDE DEF pkt, f, p, l
<1>4. f \in Nat /\ p \in Nat \ {0} /\ m \in Nat /\ l \in Nat /\ p + 2 + m <= l
    BY <1>1, <1>2, Zenon DEF f, p, l
<1>5. /\ p + 1 \in 1 .. l /\ f + p + 1 = f + (p + 1)
      /\ p + 2 \in 1 .. l /\ f + p + 2 = f + (p + 2)
      /\ \A j \in 1 .. m : p + 2 + j \in 1 .. l /\ f + p + 2 + j = f + (p + 2 + j)
    BY <1>4
<1>6. SfdByte(k) = f + p /\ \A j \in 1 .. l : AirBytes[f + j] = pkt[j]
    BY <1>1, <1>3, Zenon DEF f, p, l
<1>7. /\ AirBytes[f + p + 1] = pkt[p + 1] /\ AirBytes[f + p + 2] = pkt[p + 2]
      /\ \A j \in 1 .. m : AirBytes[f + p + 2 + j] = pkt[p + 2 + j]
    <2>1. AirBytes[f + p + 1] = AirBytes[f + (p + 1)] /\ AirBytes[f + p + 2] = AirBytes[f + (p + 2)]
        BY <1>5, Zenon
    <2>2. AirBytes[f + (p + 1)] = pkt[p + 1] /\ AirBytes[f + (p + 2)] = pkt[p + 2]
        BY <1>5, <1>6, Zenon
    <2>3. ASSUME NEW j \in 1 .. m
          PROVE  AirBytes[f + p + 2 + j] = pkt[p + 2 + j]
        <3>1. p + 2 + j \in 1 .. l /\ AirBytes[f + p + 2 + j] = AirBytes[f + (p + 2 + j)]
            BY <1>5, Zenon
        <3> QED
            BY <1>6, <3>1, Zenon
    <2> QED
        BY <2>1, <2>2, <2>3, Zenon
<1>8. /\ pkt[p + 1] = SyncVector /\ pkt[p + 2] = m
      /\ \A j \in 1 .. m : Psdus[k][j] = pkt[p + 2 + j]
    BY <1>2, Zenon DEF p
<1>9. /\ AirBytes[SfdByte(k) + 1] = SyncVector /\ AirBytes[SfdByte(k) + 2] = m
      /\ \A j \in 1 .. m : AirBytes[SfdByte(k) + 2 + j] = Psdus[k][j]
    BY <1>6, <1>7, <1>8, Zenon
<1> QED
    BY <1>9 DEF m
-----------------------------------------------------------------------------
(***************************************************************************)
(* Places on the air: chip c of bit i of byte b.                           *)
(***************************************************************************)
LEMMA Widths == ByteBits \in Nat \ {0, 1} /\ WordChips \in Nat \ {0}
BY SinkAssumption, LinkAssumption

\* A product grows with its factor.
LEMMA Multiples ==
    ASSUME NEW B \in Nat \ {0}, NEW b \in Nat, NEW l \in Nat, NEW i \in 0 .. B - 1
    PROVE  /\ b * B \in Nat /\ b * B + i \in Nat
           /\ b < l => b * B + i < l * B
           /\ b * B + i < l * B => b < l
<1>1. b * B \in Nat /\ l * B \in Nat /\ i \in Nat
    OBVIOUS
<1>2. CASE b < l
    <2>1. (l - b - 1) * B >= 0
        <3>1. l - b - 1 \in Nat
            BY <1>2
        <3> QED
            BY <3>1
    <2>2. l * B = b * B + B + (l - b - 1) * B
        OBVIOUS
    <2>3. (l - b - 1) * B \in Int
        OBVIOUS
    <2> DEFINE x == b * B
               y == l * B
               z == (l - b - 1) * B
    <2> HIDE DEF x, y, z
    <2>4. x \in Nat /\ y \in Nat /\ z \in Int /\ z >= 0 /\ y = x + B + z
        BY <1>1, <2>1, <2>2, <2>3 DEF x, y, z
    <2>5. x + i < y
        BY <2>4
    <2> QED
        BY <1>1, <1>2, <2>5 DEF x, y
<1>3. CASE ~(b < l)
    <2>1. (b - l) * B >= 0
        <3>1. b - l \in Nat
            BY <1>3
        <3> QED
            BY <3>1
    <2>2. b * B = l * B + (b - l) * B
        OBVIOUS
    <2>3. (b - l) * B \in Int
        OBVIOUS
    <2> DEFINE x == b * B
               y == l * B
               z == (b - l) * B
    <2> HIDE DEF x, y, z
    <2>4. x \in Nat /\ y \in Nat /\ z \in Int /\ z >= 0 /\ x = y + z
        BY <1>1, <2>1, <2>2, <2>3 DEF x, y, z
    <2>5. ~(x + i < y)
        BY <2>4
    <2> QED
        BY <1>1, <1>3, <2>5 DEF x, y
<1> QED
    BY <1>2, <1>3

LEMMA AirLength == Len(AirBytes) \in Nat /\ AirChips = (Len(AirBytes) * ByteBits) * WordChips
<1>1. Len(AirBytes) \in Nat /\ ByteBits \in Nat /\ WordChips \in Nat
    BY AirIs, Widths
<1>2. \A x, y, z \in Nat : x * (y * z) = (x * y) * z
    OBVIOUS
<1> QED
    BY <1>1, <1>2 DEF AirChips, ByteChips

\* Every number of chips is a place.
LEMMA SomePlace ==
    ASSUME NEW n \in Nat
    PROVE  \E b \in Nat, i \in 0 .. ByteBits - 1, c \in 0 .. WordChips - 1 :
               n = (b * ByteBits + i) * WordChips + c
<1>1. \A x \in Nat, m \in Nat \ {0} : x \div m \in Nat /\ x % m \in 0 .. m - 1
                                      /\ x = (x \div m) * m + (x % m)
    <2> TAKE x \in Nat, m \in Nat \ {0}
    <2>1. x \div m \in Nat
        OBVIOUS
    <2>2. x \in Int
        OBVIOUS
    <2> QED
        BY <2>1, <2>2, Division
<1> DEFINE s == n \div WordChips
<1>2. s \in Nat /\ n % WordChips \in 0 .. WordChips - 1 /\ n = s * WordChips + (n % WordChips)
    BY <1>1, Widths
<1> HIDE DEF s
<1>3. s \div ByteBits \in Nat /\ s % ByteBits \in 0 .. ByteBits - 1
      /\ s = (s \div ByteBits) * ByteBits + (s % ByteBits)
    BY <1>1, <1>2, Widths
<1>4. n = ((s \div ByteBits) * ByteBits + (s % ByteBits)) * WordChips + (n % WordChips)
    BY <1>2, <1>3, Zenon
<1> QED
    BY <1>2, <1>3, <1>4, Zenon

\* The byte, the bit and the chip of a place.
LEMMA PlaceIs ==
    ASSUME NEW b \in Nat, NEW i \in 0 .. ByteBits - 1, NEW c \in 0 .. WordChips - 1
    PROVE  LET n == (b * ByteBits + i) * WordChips + c
           IN  /\ n \in Nat
               /\ n \div WordChips = b * ByteBits + i /\ n % WordChips = c
               /\ (b * ByteBits + i) \div ByteBits = b /\ (b * ByteBits + i) % ByteBits = i
               /\ n < AirChips <=> b < Len(AirBytes)
<1> DEFINE s == b * ByteBits + i
           l == Len(AirBytes) * ByteBits
<1>1. ByteBits \in Nat \ {0} /\ WordChips \in Nat \ {0} /\ b \in Int /\ Len(AirBytes) \in Nat
    BY Widths, AirLength
<1>2. s \in Nat /\ l \in Nat /\ (s < l <=> b < Len(AirBytes))
    BY <1>1, Multiples
<1>3. s \div ByteBits = b /\ s % ByteBits = i
    BY <1>1, OneRemainder
<1> HIDE DEF s, l
<1>4. s \in Int
    BY <1>2
<1>5. (s * WordChips + c) \div WordChips = s /\ (s * WordChips + c) % WordChips = c
    BY <1>1, <1>4, OneRemainder
<1>6. s * WordChips + c \in Nat /\ (s * WordChips + c < l * WordChips <=> s < l)
    BY <1>1, <1>2, Multiples
<1>7. AirChips = l * WordChips
    BY AirLength DEF l
<1> QED
    BY <1>2, <1>3, <1>5, <1>6, <1>7, Zenon DEF s

\* What is sent next.
LEMMA ChipOnAir ==
    ASSUME NEW b, NEW i, NEW c, At(b, i, c), b < Len(AirBytes)
    PROVE  /\ BitAt(b, i) \in Symbols
           /\ AirChip(sent) = BitOf(d_symbol_table[BitAt(b, i)], WordChips, c)
           /\ AirChip(sent) \in Chips
<1>1. /\ b \in Nat /\ i \in 0 .. ByteBits - 1 /\ c \in 0 .. WordChips - 1
      /\ sent = (b * ByteBits + i) * WordChips + c
    BY DEF At
<1>2. /\ sent \div WordChips = b * ByteBits + i /\ sent % WordChips = c
      /\ (b * ByteBits + i) \div ByteBits = b /\ (b * ByteBits + i) % ByteBits = i
    BY <1>1, PlaceIs
<1>3. AirSymbol(sent \div WordChips) = BitAt(b, i)
    BY <1>2 DEF AirSymbol, BitAt
<1>4. AirChip(sent) = BitOf(d_symbol_table[BitAt(b, i)], WordChips, c)
    BY <1>2, <1>3 DEF AirChip
<1>5. AirBytes[b + 1] \in Nat
    <2>1. AirBytes \in Seq(Byte) /\ b + 1 \in 1 .. Len(AirBytes)
        BY <1>1, AirIs
    <2>2. AirBytes[b + 1] \in Byte
        BY <2>1
    <2> QED
        BY <2>2 DEF Byte
<1>6. BitAt(b, i) \in Symbols
    BY <1>1, <1>5, Widths, BitIsChip DEF BitAt, Chips, Symbols
<1>7. d_symbol_table[BitAt(b, i)] \in Nat
    BY <1>6, LinkAssumption
<1>8. AirChip(sent) \in Chips
    BY <1>1, <1>4, <1>7, Widths, BitIsChip
<1> QED
    BY <1>4, <1>6, <1>8

LEMMA RegistersType == Registers \subseteq Reg
BY CodeAssumption DEF Registers, Reg, Symbols

\* Within a word nothing is heard; its last chip makes the symbol that was sent.
LEMMA HeardOnAir ==
    ASSUME NEW b, NEW i, NEW c, At(b, i, c), b < Len(AirBytes), WordFollows(b, i, c)
    PROVE  LET reg == Shift(d_shift_reg, AirChip(sent))
           IN  /\ c < WordChips - 1 =>
                      /\ Heard(AirChip(sent)) = NoSymbol
                      /\ \E r \in Registers : reg = Reading(r, BitAt(b, i), c + 1)
               /\ c = WordChips - 1 => Heard(AirChip(sent)) = BitAt(b, i) /\ reg \in Registers
<1> DEFINE s == BitAt(b, i)
           reg == Shift(d_shift_reg, AirChip(sent))
<1>1. s \in Symbols /\ AirChip(sent) = BitOf(d_symbol_table[s], WordChips, c)
    BY ChipOnAir
<1>2. c \in 0 .. WordChips - 1 /\ 0 \in 0 .. WordChips - 1 /\ WordChips \in Nat \ {0}
    BY Widths DEF At
<1>3. PICK r \in Registers : d_shift_reg = Reading(r, s, c)
    <2>1. CASE c = 0
        <3>1. d_shift_reg \in Registers
            BY <2>1 DEF WordFollows
        <3>2. Reading(d_shift_reg, s, 0) = d_shift_reg
            BY <1>1, <1>2, <3>1, RegistersType, ReadingSteps
        <3> QED
            BY <2>1, <3>1, <3>2, Zenon
    <2>2. CASE c # 0
        BY <2>2, Zenon DEF WordFollows
    <2> QED
        BY <2>1, <2>2
<1>4. r \in Reg
    BY RegistersType
<1> HIDE DEF s
<1>5. Reading(r, s, c + 1) = Shift(Reading(r, s, c), BitOf(d_symbol_table[s], WordChips, c))
    BY <1>1, <1>2, <1>4, ReadingSteps
<1>6. reg = Reading(r, s, c + 1)
    BY <1>1, <1>3, <1>5, Zenon
<1>7. Heard(AirChip(sent)) = Symbol(Reading(r, s, c + 1))
    BY <1>6, Zenon DEF Heard
<1> HIDE DEF reg
<1>8. ASSUME c < WordChips - 1
      PROVE  Heard(AirChip(sent)) = NoSymbol
    <2>1. c + 1 \in 1 .. WordChips - 1
        BY <1>2, <1>8
    <2>2. Symbol(Reading(r, s, c + 1)) = NoSymbol
        BY <1>1, <2>1, WordsAssumption, Zenon
    <2> QED
        BY <1>7, <2>2, Zenon
<1>9. ASSUME c = WordChips - 1
      PROVE  Heard(AirChip(sent)) = s /\ reg \in Registers
    <2>1. c + 1 = WordChips
        BY <1>2, <1>9
    <2>2. Symbol(Reading(r, s, c + 1)) = s
        BY <1>1, <2>1, WordsAssumption, Zenon
    <2>3. Symbol(reg) = s
        BY <1>6, <2>2, Zenon
    <2>4. reg = CHIP_MAPPING[0] \/ reg = CHIP_MAPPING[1]
        BY <1>1, <2>3, CodeAssumption DEF Symbol
    <2> QED
        BY <1>7, <2>2, <2>4 DEF Registers
<1> QED
    BY <1>6, <1>8, <1>9, Zenon DEF reg, s
-----------------------------------------------------------------------------
(***************************************************************************)
(* The sink's actions, by what they ask for.                               *)
(***************************************************************************)
LEMMA SearchGuards ==
    ASSUME NEW c, NEW last
    PROVE  /\ SearchChip(c, last) => loop = STATE_SYNC_SEARCH /\ Heard(c) = NoSymbol
           /\ PreambleZero(c, last) => loop = STATE_SYNC_SEARCH /\ ~find_preamble /\ Heard(c) = 0
           /\ PreambleBroken(c) => loop = STATE_SYNC_SEARCH /\ ~find_preamble /\ Heard(c) = 1
           /\ SkipZero(c, last) =>
                  /\ loop = STATE_SYNC_SEARCH /\ find_preamble /\ Heard(c) # NoSymbol
                  /\ ~(search_sfd /\ SfdStarts(Heard(c)))
           /\ SfdBit(c, last) => SfdSymbol(c) /\ nbr_bit_sfd + 1 # ByteBits
           /\ SfdFound(c) =>
                  /\ SfdSymbol(c) /\ nbr_bit_sfd + 1 = ByteBits
                  /\ 2 * bit_sfd + Heard(c) = SyncVector
           /\ SfdWrong(c) =>
                  /\ SfdSymbol(c) /\ nbr_bit_sfd + 1 = ByteBits
                  /\ 2 * bit_sfd + Heard(c) # SyncVector
BY Zenon DEF SearchChip, PreambleZero, PreambleBroken, SkipZero, SfdBit, SfdFound, SfdWrong

LEMMA FieldGuards ==
    ASSUME NEW c, NEW last
    PROVE  /\ FieldChip(c, last) => loop # STATE_SYNC_SEARCH /\ Heard(c) = NoSymbol /\ ~FieldLost
           /\ FieldAbort(c, last) => loop # STATE_SYNC_SEARCH /\ Heard(c) = NoSymbol /\ FieldLost
           /\ PhrBit(c, last) =>
                  loop = STATE_HAVE_SYNC /\ Heard(c) # NoSymbol /\ nbr_bits + 1 # ByteBits
           /\ PhrAccepted(c) =>
                  loop = STATE_HAVE_SYNC /\ Heard(c) # NoSymbol /\ nbr_bits + 1 = ByteBits
           /\ PhrRejected(c) =>
                  /\ loop = STATE_HAVE_SYNC /\ Heard(c) # NoSymbol /\ nbr_bits + 1 = ByteBits
                  /\ PushBit(byte, Heard(c)) > MAX_PKT_LEN
           /\ PayloadBit(c, last) =>
                  loop = STATE_HAVE_HEADER /\ Heard(c) # NoSymbol /\ nbr_bits + 1 # ByteBits
           /\ PayloadByte(c, last) =>
                  /\ loop = STATE_HAVE_HEADER /\ Heard(c) # NoSymbol /\ nbr_bits + 1 = ByteBits
                  /\ ~(d_payload_cnt + 1 >= d_packetlen)
           /\ PayloadDone(c) =>
                  /\ loop = STATE_HAVE_HEADER /\ Heard(c) # NoSymbol /\ nbr_bits + 1 = ByteBits
                  /\ d_payload_cnt + 1 >= d_packetlen
BY DEF FieldChip, FieldAbort, PhrBit, PhrAccepted, PhrRejected, PayloadBit, PayloadByte,
       PayloadDone, FieldSymbol, StoreByte, FrameComplete

\* A loop hears its own actions only.
LEMMA Searching ==
    ASSUME NEW c, NEW last, ChipStep(c, last), loop = STATE_SYNC_SEARCH
    PROVE  \/ SearchChip(c, last) \/ PreambleZero(c, last) \/ PreambleBroken(c)
           \/ SkipZero(c, last) \/ SfdBit(c, last) \/ SfdFound(c) \/ SfdWrong(c)
BY FieldGuards DEF ChipStep, STATE_SYNC_SEARCH, STATE_HAVE_SYNC, STATE_HAVE_HEADER

LEMMA InField ==
    ASSUME NEW c, NEW last, ChipStep(c, last), loop # STATE_SYNC_SEARCH, Heard(c) # NoSymbol
    PROVE  \/ loop = STATE_HAVE_SYNC /\ (PhrBit(c, last) \/ PhrAccepted(c) \/ PhrRejected(c))
           \/ /\ loop = STATE_HAVE_HEADER
              /\ PayloadBit(c, last) \/ PayloadByte(c, last) \/ PayloadDone(c)
BY SearchGuards, FieldGuards DEF ChipStep, SfdSymbol

\* A chip that completes no symbol, in a field that is not given up.
LEMMA Between ==
    ASSUME NEW c, NEW last, ChipStep(c, last), Heard(c) = NoSymbol,
           loop # STATE_SYNC_SEARCH => ~FieldLost
    PROVE  /\ loop = STATE_SYNC_SEARCH => SearchChip(c, last)
           /\ loop # STATE_SYNC_SEARCH => FieldChip(c, last)
<1>1. NoSymbol # 0 /\ NoSymbol # 1
    BY CodeAssumption DEF Symbols
<1> QED
    BY <1>1, SearchGuards, FieldGuards DEF ChipStep, SfdSymbol
-----------------------------------------------------------------------------
(***************************************************************************)
(* A chip within a word.                                                   *)
(***************************************************************************)
\* What Hunting, Sizing and Taking look at.
placeVars == <<d_state, searchVars, phrVars, bodyVars>>

LEMMA SamePlace ==
    ASSUME NEW k, NEW b, NEW i, UNCHANGED placeVars, loop' = loop
    PROVE  /\ Hunting(k, b, i) => Hunting(k, b, i)'
           /\ Sizing(k, b, i) => Sizing(k, b, i)'
           /\ Taking(k, b, i) => Taking(k, b, i)'
BY DEF placeVars, searchVars, phrVars, bodyVars, Hunting, Sizing, Taking

LEMMA NextChip ==
    ASSUME NEW b, NEW i, NEW c, At(b, i, c), c < WordChips - 1, sent' = sent + 1
    PROVE  At(b, i, c + 1)' /\ c + 1 \in 0 .. WordChips - 1 /\ c + 1 # 0
<1> DEFINE n == (b * ByteBits + i) * WordChips
<1>1. c \in 0 .. WordChips - 1 /\ sent = n + c /\ WordChips \in Nat /\ b \in Nat
      /\ i \in 0 .. ByteBits - 1
    BY Widths DEF At
<1>2. n \in Nat
    <2>1. b * ByteBits + i \in Nat
        BY <1>1, Widths
    <2> QED
        BY <1>1, <2>1
<1> HIDE DEF n
<1>3. c + 1 \in 0 .. WordChips - 1 /\ c + 1 # 0 /\ sent' = n + (c + 1)
    BY <1>1, <1>2
<1> QED
    BY <1>1, <1>3, Zenon DEF At, n

LEMMA WithinWord ==
    ASSUME NEW k, NEW b, NEW i, NEW c, NEW last,
           Receives(k, b, i, c), b < Len(AirBytes), c < WordChips - 1,
           ChipStep(AirChip(sent), last), sent' = sent + 1, UNCHANGED received
    PROVE  Receives(k, b, i, c + 1)' /\ c + 1 \in 0 .. WordChips - 1
<1> DEFINE x == AirChip(sent)
           reg == Shift(d_shift_reg, x)
<1>1. At(b, i, c) /\ WordFollows(b, i, c) /\ c \in 0 .. WordChips - 1
    BY DEF Receives, At
<1>2. Heard(x) = NoSymbol /\ \E r \in Registers : reg = Reading(r, BitAt(b, i), c + 1)
    BY <1>1, HeardOnAir
<1>3. At(b, i, c + 1)' /\ c + 1 \in 0 .. WordChips - 1 /\ c + 1 # 0
    BY <1>1, NextChip
<1>4. loop = d_state /\ (loop # STATE_SYNC_SEARCH => d_chip_cnt = c)
    BY <1>1 DEF WordFollows
<1>5. loop # STATE_SYNC_SEARCH => ~FieldLost
    BY <1>1, <1>4, Widths, WordsAssumption, SinkAssumption DEF FieldLost
<1> HIDE DEF x
<1>6. \/ loop = STATE_SYNC_SEARCH /\ SearchChip(x, last)
      \/ loop # STATE_SYNC_SEARCH /\ FieldChip(x, last)
    BY <1>2, <1>5, Between DEF x
<1>7. /\ d_shift_reg' = reg /\ UNCHANGED <<placeVars, d_target_queue>>
      /\ loop # STATE_SYNC_SEARCH => d_chip_cnt' = c + 1
      /\ loop' = loop
    BY <1>4, <1>6 DEF SearchChip, FieldChip, NoBreak, placeVars, searchVars, phrVars, bodyVars
<1> HIDE DEF reg
<1>8. WordFollows(b, i, c + 1)'
    <2>1. d_state' = d_state
        BY <1>7 DEF placeVars
    <2> QED
        BY <1>2, <1>3, <1>4, <1>7, <2>1 DEF WordFollows
<1>9. (Hunting(k, b, i) \/ Sizing(k, b, i) \/ Taking(k, b, i))'
    BY <1>7, SamePlace DEF Receives
<1>10. (received \o d_target_queue = SubSeq(Psdus, 1, k))'
    BY <1>7 DEF Receives
<1> QED
    BY <1>3, <1>8, <1>9, <1>10 DEF Receives
-----------------------------------------------------------------------------
(***************************************************************************)
(* The last chip of a word: the sink hears a bit, and goes on to the next. *)
(***************************************************************************)
LEMMA NextBit ==
    ASSUME NEW b, NEW i, At(b, i, WordChips - 1), sent' = sent + 1
    PROVE  /\ i + 1 # ByteBits => At(b, i + 1, 0)' /\ i + 1 \in 1 .. ByteBits - 1
           /\ i + 1 = ByteBits => At(b + 1, 0, 0)'
<1> DEFINE s == b * ByteBits + i
           n == s * WordChips
<1>1. /\ b \in Nat /\ i \in 0 .. ByteBits - 1 /\ WordChips \in Nat \ {0} /\ ByteBits \in Nat \ {0}
      /\ sent = n + (WordChips - 1)
    BY Widths DEF At
<1>2. s \in Nat /\ n \in Nat
    BY <1>1, Multiples
<1>3. sent' = n + WordChips
    <2> HIDE DEF n
    <2> QED
        BY <1>1, <1>2
<1>4. n + WordChips = (s + 1) * WordChips + 0
    <2> HIDE DEF s
    <2> QED
        BY <1>1, <1>2
<1>5. 0 \in 0 .. ByteBits - 1 /\ 0 \in 0 .. WordChips - 1
    BY <1>1
<1>6. ASSUME i + 1 # ByteBits
      PROVE  At(b, i + 1, 0)' /\ i + 1 \in 1 .. ByteBits - 1
    <2>1. i + 1 \in 1 .. ByteBits - 1 /\ i + 1 \in 0 .. ByteBits - 1
        BY <1>1, <1>6
    <2>2. s + 1 = b * ByteBits + (i + 1)
        <3> DEFINE x == b * ByteBits
        <3>1. x \in Int
            BY <1>1
        <3> HIDE DEF x
        <3>2. (x + i) + 1 = x + (i + 1)
            BY <1>1, <3>1
        <3> QED
            BY <3>2 DEF x
    <2>3. sent' = (b * ByteBits + (i + 1)) * WordChips + 0
        BY <1>3, <1>4, <2>2, Zenon
    <2> QED
        BY <1>1, <1>5, <2>1, <2>3, Zenon DEF At
<1>7. ASSUME i + 1 = ByteBits
      PROVE  At(b + 1, 0, 0)'
    <2>1. s + 1 = (b + 1) * ByteBits + 0
        BY <1>1, <1>7
    <2>2. sent' = ((b + 1) * ByteBits + 0) * WordChips + 0 /\ b + 1 \in Nat
        BY <1>1, <1>3, <1>4, <2>1
    <2> QED
        BY <1>5, <2>2, Zenon DEF At
<1> QED
    BY <1>6, <1>7

\* The next bit is read from the beginning of its word: the search cleared the register,
\* a field left in it the word before.
Begins == loop = d_state /\ (loop # STATE_SYNC_SEARCH => d_chip_cnt = 0) /\ d_shift_reg \in Registers

LEMMA BeginsWord ==
    ASSUME NEW b, NEW i, Begins
    PROVE  WordFollows(b, i, 0)
BY DEF Begins, WordFollows

\* What the receiver knows of the packets, at a place.
Knows(k, b, i) == Hunting(k, b, i) \/ Sizing(k, b, i) \/ Taking(k, b, i)

Delivered(k) == received \o d_target_queue = SubSeq(Psdus, 1, k)

LEMMA NoBreakStays ==
    ASSUME NEW last, NoBreak(last), loop = d_state, d_state' = d_state
    PROVE  loop' = loop /\ loop' = d_state'
BY DEF NoBreak

\* The bits of the SFD, of the PHR and of the payload.
LEMMA BitsOfFrame ==
    ASSUME NEW k \in 1 .. Len(Packets), NEW i
    PROVE  /\ BitAt(SfdByte(k), i) = BitOf(SyncVector, ByteBits, i)
           /\ BitAt(SfdByte(k) + 1, i) = BitOf(Len(Psdus[k]), ByteBits, i)
           /\ \A j \in 0 .. Len(Psdus[k]) - 1 :
                  BitAt(SfdByte(k) + 2 + j, i) = BitOf(Psdus[k][j + 1], ByteBits, i)
<1> DEFINE s == SfdByte(k)
           m == Len(Psdus[k])
<1>1. s \in Nat /\ m \in Nat
    BY PlaceOf, PsduIs, SinkAssumption
<1>2. /\ AirBytes[s + 1] = SyncVector /\ AirBytes[s + 2] = m
      /\ \A j \in 1 .. m : AirBytes[s + 2 + j] = Psdus[k][j]
    BY FrameOnAir
<1> HIDE DEF s, m
<1>3. AirBytes[(s + 1) + 1] = m
    <2>1. (s + 1) + 1 = s + 2
        BY <1>1
    <2> QED
        BY <1>2, <2>1, Zenon
<1>4. ASSUME NEW j \in 0 .. m - 1
      PROVE  AirBytes[(s + 2 + j) + 1] = Psdus[k][j + 1]
    <2>1. j + 1 \in 1 .. m /\ (s + 2 + j) + 1 = s + 2 + (j + 1)
        BY <1>1
    <2>2. AirBytes[s + 2 + (j + 1)] = Psdus[k][j + 1]
        BY <1>2, <2>1, Zenon
    <2>3. AirBytes[(s + 2 + j) + 1] = AirBytes[s + 2 + (j + 1)]
        BY <2>1, Zenon
    <2> QED
        BY <2>2, <2>3, Zenon
<1> QED
    BY <1>2, <1>3, <1>4, Zenon DEF BitAt, s, m

\* A bit of the air that is shifted in.
LEMMA ShiftedIn ==
    ASSUME NEW v \in Nat, NEW i \in 0 .. ByteBits - 1
    PROVE  /\ 2 * ShiftRight(v, ByteBits - i) + BitOf(v, ByteBits, i)
                = ShiftRight(v, ByteBits - (i + 1))
           /\ i + 1 = ByteBits => ShiftRight(v, ByteBits - (i + 1)) = v
           /\ v \in Byte => ShiftRight(v, ByteBits - 0) = 0
<1>1. ByteBits \in Nat /\ ByteBits - 0 = ByteBits
    BY Widths
<1>2. PushBit(ShiftRight(v, ByteBits - i), BitOf(v, ByteBits, i)) = ShiftRight(v, ByteBits - (i + 1))
      /\ ShiftRight(v, 0) = v
    BY <1>1, BitComesIn
<1>3. i + 1 = ByteBits => ByteBits - (i + 1) = 0
    BY <1>1
<1> QED
    BY <1>1, <1>2, <1>3, BitsAssumption, Zenon DEF PushBit

\* The PHR.
LEMMA SizingNext ==
    ASSUME IInv, NEW k \in 0 .. Len(Packets), NEW b, NEW i, NEW c, NEW last,
           Sizing(k, b, i), b \in Nat, i \in 0 .. ByteBits - 1, loop = d_state,
           ChipStep(c, last), Heard(c) = BitAt(b, i), BitAt(b, i) \in Symbols,
           Shift(d_shift_reg, c) \in Registers
    PROVE  /\ Begins' /\ UNCHANGED d_target_queue
           /\ i + 1 # ByteBits => Sizing(k, b, i + 1)'
           /\ i + 1 = ByteBits => Taking(k, b + 1, 0)'
<1> DEFINE m == Len(Psdus[k + 1])
<1>1. /\ loop = STATE_HAVE_SYNC /\ ~IsLast(k) /\ b = SfdByte(k + 1) + 1
      /\ nbr_bits = i /\ byte = ShiftRight(m, ByteBits - i)
    BY DEF Sizing
<1>2. k + 1 \in 1 .. Len(Packets)
    BY <1>1, GapOf
<1>3. m \in Nat /\ m >= 1 /\ m <= MAX_PKT_LEN /\ SfdByte(k + 1) \in Nat
    BY <1>2, PsduIs, PlaceOf, SinkAssumption
<1>4. Heard(c) = BitOf(m, ByteBits, i)
    BY <1>1, <1>2, BitsOfFrame
<1> HIDE DEF m
<1>5. /\ PushBit(byte, Heard(c)) = ShiftRight(m, ByteBits - (i + 1))
      /\ i + 1 = ByteBits => PushBit(byte, Heard(c)) = m
    BY <1>1, <1>3, <1>4, ShiftedIn, Zenon DEF PushBit
<1>6. Heard(c) # NoSymbol
    BY CodeAssumption
<1>7. PhrBit(c, last) \/ PhrAccepted(c) \/ PhrRejected(c)
    BY <1>1, <1>6, InField DEF STATE_SYNC_SEARCH, STATE_HAVE_SYNC, STATE_HAVE_HEADER
<1>8. CASE i + 1 # ByteBits
    <2>1. PhrBit(c, last)
        BY <1>1, <1>7, <1>8, FieldGuards
    <2>2. /\ d_chip_cnt' = 0 /\ d_shift_reg' \in Registers /\ nbr_bits' = i + 1
          /\ byte' = ShiftRight(m, ByteBits - (i + 1))
          /\ UNCHANGED <<d_state, d_target_queue>> /\ NoBreak(last)
        BY <1>1, <1>5, <2>1 DEF PhrBit, FieldSymbol
    <2>3. loop' = loop /\ loop' = d_state'
        BY <2>2, NoBreakStays
    <2>4. Begins'
        BY <2>2, <2>3 DEF Begins
    <2>5. Sizing(k, b, i + 1)'
        BY <1>1, <2>2, <2>3 DEF Sizing, m
    <2> QED
        BY <1>8, <2>2, <2>4, <2>5
<1>9. CASE i + 1 = ByteBits
    <2>1. PhrAccepted(c)
        <3>1. ~(PushBit(byte, Heard(c)) > MAX_PKT_LEN)
            BY <1>3, <1>5, <1>9, SinkAssumption
        <3> QED
            BY <1>1, <1>7, <1>9, <3>1, FieldGuards
    <2>2. /\ d_chip_cnt' = 0 /\ d_shift_reg' \in Registers /\ nbr_bits' = 0 /\ d_byte' = 0
          /\ d_packetlen' = m /\ d_state' = STATE_HAVE_HEADER /\ loop' = STATE_HAVE_HEADER
          /\ UNCHANGED <<d_packet, d_packetlen_cnt, d_target_queue>>
        BY <1>5, <1>9, <2>1 DEF PhrAccepted, FieldSymbol, enter_have_header, Break
    <2>3. d_packetlen_cnt' = 0
        BY <1>1, <2>2 DEF IInv, NothingUninitialised
    <2>4. Begins'
        BY <2>2 DEF Begins
    <2>5. d_byte' = ShiftRight(Psdus[k + 1][d_packetlen_cnt' + 1], ByteBits - 0)
        <3>1. Psdus[k + 1][0 + 1] \in Byte
            <4>1. Psdus[k + 1] \in Seq(Byte) /\ 0 + 1 \in 1 .. Len(Psdus[k + 1])
                BY <1>2, <1>3, PsduIs DEF m
            <4> QED
                BY <4>1
        <3>2. Psdus[k + 1][0 + 1] \in Nat /\ 0 \in 0 .. ByteBits - 1
            BY <3>1, Widths DEF Byte
        <3>3. ShiftRight(Psdus[k + 1][0 + 1], ByteBits - 0) = 0
            BY <3>1, <3>2, ShiftedIn, Zenon
        <3> QED
            BY <2>2, <2>3, <3>3, Zenon
    <2>6. b + 1 = SfdByte(k + 1) + 2 + d_packetlen_cnt'
        BY <1>1, <1>3, <2>3
    <2>7. d_packetlen_cnt' < m /\ \A n \in 1 .. d_packetlen_cnt' : d_packet'[n - 1] = Psdus[k + 1][n]
        BY <1>3, <2>3
    <2>8. Taking(k, b + 1, 0)'
        BY <1>1, <2>2, <2>5, <2>6, <2>7 DEF Taking, m
    <2> QED
        BY <1>9, <2>2, <2>4, <2>8
<1> QED
    BY <1>8, <1>9

\* The payload: a bit, a byte that is not the last, the last byte.
TakingPsdu(k) ==
    /\ loop = STATE_HAVE_HEADER /\ ~IsLast(k) /\ d_packetlen = Len(Psdus[k + 1])
    /\ d_packetlen_cnt \in 0 .. Len(Psdus[k + 1]) - 1 /\ d_packetlen_cnt = d_payload_cnt
    /\ d_packetlen_cnt \in Cells /\ d_packet \in [Cells -> Byte \cup Garbage]
    /\ \A n \in 1 .. d_packetlen_cnt : d_packet[n - 1] = Psdus[k + 1][n]

\* The cells hold the beginning of the PSDU, one byte more after the store.
LEMMA ByteStored ==
    ASSUME NEW k, k + 1 \in 1 .. Len(Packets), TakingPsdu(k), NEW c, StoreByte(c),
           PushBit(d_byte, Heard(c)) = Psdus[k + 1][d_packetlen_cnt + 1]
    PROVE  /\ d_packetlen_cnt' = d_packetlen_cnt + 1
           /\ \A n \in 1 .. d_packetlen_cnt + 1 : d_packet'[n - 1] = Psdus[k + 1][n]
<1> DEFINE psdu == Psdus[k + 1]
           cnt == d_packetlen_cnt
           v == PushBit(d_byte, Heard(c)) % ByteSize
<1>1. psdu \in Seq(Byte) /\ Len(psdu) \in Nat
    BY PsduIs, SinkAssumption
<1>2. cnt \in Nat /\ cnt + 1 \in 1 .. Len(psdu) /\ cnt \in Cells /\ cnt \in Int
    BY <1>1 DEF TakingPsdu
<1>3. d_packet' = [d_packet EXCEPT ![cnt] = v] /\ d_packetlen_cnt' = cnt + 1
    BY DEF StoreByte
<1>4. v = psdu[cnt + 1]
    <2>1. psdu[cnt + 1] \in Byte
        BY <1>1, <1>2
    <2>2. \A x \in Byte : x % ByteSize = x
        BY SinkAssumption DEF Byte
    <2> QED
        BY <2>1, <2>2
<1>5. d_packet \in [Cells -> Byte \cup Garbage]
      /\ \A n \in 1 .. cnt : d_packet[n - 1] = psdu[n]
    BY DEF TakingPsdu
<1> HIDE DEF cnt, v, psdu
<1>6. d_packet'[cnt] = v /\ \A m \in Cells : m # cnt => d_packet'[m] = d_packet[m]
    BY <1>2, <1>3, <1>5
<1>7. ASSUME NEW n \in 1 .. cnt + 1
      PROVE  d_packet'[n - 1] = psdu[n]
    <2>1. CASE n = cnt + 1
        <3>1. n - 1 = cnt
            BY <1>2, <2>1
        <3> QED
            BY <1>4, <1>6, <2>1, <3>1, Zenon
    <2>2. CASE n # cnt + 1
        <3>1. n \in 1 .. cnt /\ n - 1 # cnt /\ n - 1 \in 0 .. cnt
            BY <1>2, <2>2
        <3>2. n - 1 \in Cells
            BY <1>2, <3>1, SinkAssumption DEF Cells
        <3> QED
            BY <1>5, <1>6, <3>1, <3>2, Zenon
    <2> QED
        BY <2>1, <2>2
<1> QED
    BY <1>3, <1>7, Zenon DEF cnt, psdu

\* The message is the PSDU.
LEMMA WholePsdu ==
    ASSUME NEW k \in 1 .. Len(Packets), NEW cells,
           \A n \in 1 .. Len(Psdus[k]) : cells[n - 1] = Psdus[k][n]
    PROVE  Message(cells, Len(Psdus[k])) = Psdus[k]
<1> DEFINE p == Psdus[k]
           m == Message(cells, Len(p))
<1>1. p \in Seq(Byte) /\ Len(p) \in Nat
    BY PsduIs, SinkAssumption
<1>2. \A n \in 0 .. Len(p) - 1 : cells[n] \in Byte
    <2> TAKE n \in 0 .. Len(p) - 1
    <2>1. n + 1 \in 1 .. Len(p) /\ (n + 1) - 1 = n
        BY <1>1
    <2>2. p[n + 1] \in Byte
        BY <1>1, <2>1
    <2> QED
        BY <2>1, <2>2
<1>3. m \in Seq(Byte) /\ Len(m) = Len(p)
    BY <1>1, <1>2, MessageType
<1>4. \A n \in 1 .. Len(p) : m[n] = p[n]
    BY DEF Message
<1> HIDE DEF m, p
<1>5. \A n \in 1 .. Len(m) : m[n] = p[n]
    BY <1>3, <1>4
<1>6. m = p
    BY <1>1, <1>3, <1>5, SameSequence
<1> QED
    BY <1>6 DEF m, p

LEMMA TakingNext ==
    ASSUME IInv, NEW k \in 0 .. Len(Packets), NEW b, NEW i, NEW c, NEW last,
           Taking(k, b, i), b \in Nat, i \in 0 .. ByteBits - 1, loop = d_state,
           ChipStep(c, last), Heard(c) = BitAt(b, i), BitAt(b, i) \in Symbols,
           Shift(d_shift_reg, c) \in Registers
    PROVE  /\ Begins'
           /\ i + 1 # ByteBits => Taking(k, b, i + 1)' /\ UNCHANGED d_target_queue
           /\ i + 1 = ByteBits =>
                  \/ Taking(k, b + 1, 0)' /\ UNCHANGED d_target_queue
                  \/ /\ ~IsLast(k) /\ b + 1 = EndByte(k + 1)
                     /\ d_target_queue' = Append(d_target_queue, Psdus[k + 1])
                     /\ d_state' = STATE_SYNC_SEARCH /\ loop' = STATE_SYNC_SEARCH
                     /\ ~first_found' /\ ~find_preamble' /\ bit_breamble' = 0
<1> DEFINE psdu == Psdus[k + 1]
           m == Len(psdu)
           cnt == d_packetlen_cnt
           s == SfdByte(k + 1)
<1>1. /\ loop = STATE_HAVE_HEADER /\ ~IsLast(k) /\ d_packetlen = m /\ cnt < m
      /\ b = s + 2 + cnt /\ nbr_bits = i
      /\ d_byte = ShiftRight(psdu[cnt + 1], ByteBits - i)
      /\ \A n \in 1 .. cnt : d_packet[n - 1] = psdu[n]
    BY DEF Taking
<1>2. k + 1 \in 1 .. Len(Packets)
    BY <1>1, GapOf
<1>3. psdu \in Seq(Byte) /\ m \in Nat /\ s \in Nat /\ EndByte(k + 1) = s + 2 + m
    <2>1. m \in 1 .. MAX_PKT_LEN
        BY <1>2, PsduIs
    <2>2. m \in Nat
        BY <2>1, SinkAssumption
    <2> QED
        BY <1>2, <2>2, PsduIs, PlaceOf, Zenon
<1>4. cnt \in Cells /\ cnt = d_payload_cnt /\ d_packet \in [Cells -> Byte \cup Garbage]
    BY <1>1 DEF IInv, BodyInBounds, TypeOK
<1>5. cnt \in Nat /\ cnt \in 0 .. m - 1 /\ cnt + 1 \in 1 .. m
    <2>1. cnt \in Nat /\ cnt < m /\ m \in Nat
        BY <1>1, <1>3, <1>4, SinkAssumption DEF Cells
    <2> HIDE DEF m
    <2> QED
        BY <2>1
<1>6. TakingPsdu(k)
    BY <1>1, <1>4, <1>5 DEF TakingPsdu
<1>7. \A j \in 1 .. m : psdu[j] \in Byte /\ psdu[j] \in Nat
    <2>1. \A j \in 1 .. m : psdu[j] \in Byte
        BY <1>3
    <2> QED
        BY <2>1 DEF Byte
<1>8. Heard(c) = BitOf(psdu[cnt + 1], ByteBits, i)
    BY <1>1, <1>2, <1>5, BitsOfFrame
<1> HIDE DEF psdu, m, s
<1>9. /\ PushBit(d_byte, Heard(c)) = ShiftRight(psdu[cnt + 1], ByteBits - (i + 1))
      /\ i + 1 = ByteBits => PushBit(d_byte, Heard(c)) = psdu[cnt + 1]
    BY <1>1, <1>5, <1>7, <1>8, ShiftedIn, Zenon DEF PushBit
<1>10. Heard(c) # NoSymbol
    BY CodeAssumption
<1>11. PayloadBit(c, last) \/ PayloadByte(c, last) \/ PayloadDone(c)
    BY <1>1, <1>10, InField DEF STATE_SYNC_SEARCH, STATE_HAVE_SYNC, STATE_HAVE_HEADER
<1>12. CASE i + 1 # ByteBits
    <2>1. PayloadBit(c, last)
        BY <1>1, <1>11, <1>12, FieldGuards
    <2>2. /\ d_chip_cnt' = 0 /\ d_shift_reg' \in Registers /\ nbr_bits' = i + 1
          /\ d_byte' = ShiftRight(psdu[cnt + 1], ByteBits - (i + 1))
          /\ UNCHANGED <<d_state, d_packet, d_packetlen, d_packetlen_cnt, d_target_queue>>
          /\ NoBreak(last)
        BY <1>1, <1>9, <2>1 DEF PayloadBit, FieldSymbol
    <2>3. loop' = loop /\ loop' = d_state'
        BY <2>2, NoBreakStays
    <2>4. Begins'
        BY <2>2, <2>3 DEF Begins
    <2>5. Taking(k, b, i + 1)'
        BY <1>1, <2>2, <2>3 DEF Taking, m, psdu, s
    <2> QED
        BY <1>12, <2>2, <2>4, <2>5
<1>13. CASE i + 1 = ByteBits
    <2>1. PayloadByte(c, last) \/ PayloadDone(c)
        BY <1>1, <1>11, <1>13, FieldGuards
    <2>2. StoreByte(c)
        BY <2>1 DEF PayloadByte, PayloadDone
    <2>3. d_packetlen_cnt' = cnt + 1 /\ \A n \in 1 .. cnt + 1 : d_packet'[n - 1] = psdu[n]
        BY <1>2, <1>6, <1>9, <1>13, <2>2, ByteStored DEF psdu
    <2>4. d_chip_cnt' = 0 \/ d_state' = STATE_SYNC_SEARCH
        BY <2>1 DEF PayloadByte, PayloadDone, StoreByte, FieldSymbol, enter_search
    <2>5. CASE PayloadByte(c, last)
        <3>1. /\ d_shift_reg' \in Registers /\ UNCHANGED <<d_state, d_target_queue>> /\ NoBreak(last)
              /\ d_chip_cnt' = 0 /\ nbr_bits' = 0 /\ d_byte' = 0 /\ d_packetlen' = m
            BY <1>1, <2>5 DEF PayloadByte, StoreByte, FieldSymbol
        <3>2. loop' = loop /\ loop' = d_state'
            BY <3>1, NoBreakStays
        <3>3. Begins'
            BY <3>1, <3>2 DEF Begins
        <3>4. cnt + 1 < m
            <4>1. ~(d_payload_cnt + 1 >= d_packetlen)
                BY <2>5, FieldGuards
            <4> QED
                BY <1>1, <1>3, <1>4, <1>5, <4>1
        <3>5. d_byte' = ShiftRight(psdu[d_packetlen_cnt' + 1], ByteBits - 0)
            <4>1. (cnt + 1) + 1 \in 1 .. m /\ 0 \in 0 .. ByteBits - 1
                BY <1>3, <1>5, <3>4, Widths
            <4>2. ShiftRight(psdu[(cnt + 1) + 1], ByteBits - 0) = 0
                BY <1>7, <4>1, ShiftedIn, Zenon
            <4> QED
                BY <2>3, <3>1, <4>2, Zenon
        <3>6. b + 1 = s + 2 + d_packetlen_cnt' /\ d_packetlen_cnt' < m
            BY <1>1, <1>3, <1>5, <2>3, <3>4
        <3>7. \A n \in 1 .. d_packetlen_cnt' : d_packet'[n - 1] = psdu[n]
            BY <2>3, Zenon
        <3>8. Taking(k, b + 1, 0)'
            BY <1>1, <3>1, <3>2, <3>5, <3>6, <3>7 DEF Taking, m, psdu, s
        <3> QED
            BY <1>13, <3>1, <3>3, <3>8
    <2>6. CASE PayloadDone(c)
        <3>1. cnt + 1 = m
            <4>1. d_payload_cnt + 1 >= d_packetlen
                BY <2>6, FieldGuards
            <4> QED
                BY <1>1, <1>3, <1>4, <1>5, <4>1
        <3>2. Message(d_packet', d_packetlen_cnt') = psdu
            BY <1>2, <2>3, <3>1, WholePsdu, Zenon DEF m, psdu
        <3>3. /\ d_target_queue' = Append(d_target_queue, psdu)
              /\ d_state' = STATE_SYNC_SEARCH /\ loop' = STATE_SYNC_SEARCH
              /\ ~first_found' /\ ~find_preamble' /\ bit_breamble' = 0 /\ d_shift_reg' = 0
            BY <2>6, <3>2 DEF PayloadDone, enter_search, Break
        <3>4. Begins'
            BY <3>3 DEF Begins, Registers
        <3>5. b + 1 = EndByte(k + 1)
            BY <1>1, <1>3, <1>5, <3>1
        <3> QED
            BY <1>1, <1>13, <3>3, <3>4, <3>5 DEF psdu
    <2> QED
        BY <2>1, <2>5, <2>6
<1> QED
    BY <1>12, <1>13

\* The SFD.  Its first bit is a one, which ends the zeros.
LEMMA SfdFirst ==
    ASSUME IInv, NEW k \in 0 .. Len(Packets), NEW b, NEW c, NEW last,
           Hunting(k, b, 0), b \in Nat, loop = d_state, ~IsLast(k), b = SfdByte(k + 1),
           ChipStep(c, last), Heard(c) = BitAt(b, 0)
    PROVE  Begins' /\ UNCHANGED d_target_queue /\ Hunting(k, b, 1)'
<1>1. k + 1 \in 1 .. Len(Packets) /\ EndByte(k) \in Nat
      /\ EndByte(k) + PreambleBytes <= SfdByte(k + 1)
    BY GapOf
<1>2. Heard(c) = 1
    BY <1>1, BitsOfFrame, BitsAssumption
<1> DEFINE zeros == (b - EndByte(k)) * ByteBits + 0
<1>3. /\ loop = STATE_SYNC_SEARCH /\ ~first_found /\ EndByte(k) <= b
      /\ ~(zeros < PreambleBits) => find_preamble
    <2>1. ~(0 > 0)
        OBVIOUS
    <2> QED
        BY <2>1, Zenon DEF Hunting
<1>4. zeros >= PreambleBits /\ zeros \in Int
    <2>1. b - EndByte(k) \in Nat /\ b - EndByte(k) >= PreambleBytes
        BY <1>1, <1>3, WholePreamble
    <2>2. \A x, y \in Nat, z \in Nat : x >= y => x * z + 0 >= y * z
        <3> TAKE x, y \in Nat, z \in Nat
        <3>1. ASSUME x >= y
              PROVE  x * z + 0 >= y * z
            <4>1. x - y \in Nat /\ x * z = y * z + (x - y) * z /\ y * z \in Nat
                BY <3>1
            <4>2. (x - y) * z >= 0
                BY <4>1
            <4>3. (x - y) * z \in Int /\ x * z \in Int
                BY <4>1
            <4> DEFINE p == x * z
                       q == y * z
                       r == (x - y) * z
            <4> HIDE DEF p, q, r
            <4>4. p \in Int /\ q \in Nat /\ r \in Int /\ r >= 0 /\ p = q + r
                BY <4>1, <4>2, <4>3 DEF p, q, r
            <4>5. p + 0 >= q
                BY <4>4
            <4> QED
                BY <4>5 DEF p, q
        <3> QED
            BY <3>1
    <2>3. (b - EndByte(k)) * ByteBits + 0 >= PreambleBytes * ByteBits
        BY <2>1, <2>2, WholePreamble, Widths
    <2>4. (b - EndByte(k)) * ByteBits + 0 \in Int
        BY <2>1, Widths
    <2> QED
        BY <2>3, <2>4, WholePreamble
<1> HIDE DEF zeros
<1>5. find_preamble
    BY <1>3, <1>4, SinkAssumption
<1>6. search_sfd /\ nbr_bit_sfd = 0 /\ bit_sfd = 0
    BY <1>3, <1>5 DEF IInv, SearchCoherent, TypeOK
<1>7. SfdStarts(Heard(c))
    BY <1>2, <1>6 DEF SfdStarts
<1>8. Heard(c) # NoSymbol /\ nbr_bit_sfd + 1 # ByteBits
    BY <1>2, <1>6, CodeAssumption, Widths DEF Symbols
<1>9. SfdBit(c, last)
    BY <1>3, <1>5, <1>6, <1>7, <1>8, Searching, SearchGuards
<1>10. /\ d_shift_reg' = 0 /\ first_found' /\ bit_sfd' = 1 /\ nbr_bit_sfd' = 1 /\ find_preamble'
       /\ UNCHANGED <<d_state, d_target_queue>> /\ NoBreak(last)
    BY <1>2, <1>5, <1>6, <1>9 DEF SfdBit
<1>11. loop' = loop /\ loop' = d_state'
    BY <1>10, NoBreakStays
<1>12. Begins'
    BY <1>3, <1>10, <1>11 DEF Begins, Registers
<1>13. bit_sfd' = ShiftRight(SyncVector, ByteBits - 1)
    <2>1. SyncVector \in Nat /\ SyncVector \in Byte /\ 0 \in 0 .. ByteBits - 1 /\ 0 + 1 = 1
        BY SinkAssumption, BitsAssumption, Widths
    <2>2. /\ 2 * ShiftRight(SyncVector, ByteBits - 0) + BitOf(SyncVector, ByteBits, 0)
                = ShiftRight(SyncVector, ByteBits - (0 + 1))
          /\ ShiftRight(SyncVector, ByteBits - 0) = 0
        BY <2>1, ShiftedIn, Zenon
    <2>3. 2 * 0 + BitOf(SyncVector, ByteBits, 0) = ShiftRight(SyncVector, ByteBits - 1)
        BY <2>1, <2>2, Zenon
    <2>4. 2 * 0 + 1 = 1
        OBVIOUS
    <2> QED
        BY <1>10, <2>3, <2>4, BitsAssumption, Zenon
<1>14. Hunting(k, b, 1)'
    <2>1. 1 > 0 /\ b <= SfdByte(k + 1)
        BY <1>1, PlaceOf
    <2>2. loop' = STATE_SYNC_SEARCH
        BY <1>3, <1>11
    <2> QED
        BY <1>3, <1>10, <1>13, <2>1, <2>2 DEF Hunting
<1> QED
    BY <1>10, <1>12, <1>14

LEMMA SfdNext ==
    ASSUME IInv, NEW k \in 0 .. Len(Packets), NEW b, NEW i, NEW c, NEW last,
           Hunting(k, b, i), b \in Nat, i \in 0 .. ByteBits - 1, i > 0, loop = d_state,
           ~IsLast(k), b = SfdByte(k + 1), ChipStep(c, last), Heard(c) = BitAt(b, i),
           BitAt(b, i) \in Symbols
    PROVE  /\ Begins' /\ UNCHANGED d_target_queue
           /\ i + 1 # ByteBits => Hunting(k, b, i + 1)'
           /\ i + 1 = ByteBits => Sizing(k, b + 1, 0)'
<1>1. k + 1 \in 1 .. Len(Packets)
    BY GapOf
<1>2. /\ loop = STATE_SYNC_SEARCH /\ EndByte(k) <= b /\ find_preamble /\ first_found
      /\ nbr_bit_sfd = i /\ bit_sfd = ShiftRight(SyncVector, ByteBits - i)
    BY DEF Hunting
<1>3. Heard(c) = BitOf(SyncVector, ByteBits, i)
    BY <1>1, BitsOfFrame
<1>4. /\ 2 * bit_sfd + Heard(c) = ShiftRight(SyncVector, ByteBits - (i + 1))
      /\ i + 1 = ByteBits => 2 * bit_sfd + Heard(c) = SyncVector
    <2>1. SyncVector \in Nat
        BY SinkAssumption
    <2> QED
        BY <1>2, <1>3, <2>1, ShiftedIn, Zenon
<1>5. search_sfd
    BY <1>2 DEF IInv, SearchCoherent
<1>6. SfdStarts(Heard(c)) /\ Heard(c) # NoSymbol
    BY <1>2, CodeAssumption DEF SfdStarts
<1>7. SfdBit(c, last) \/ SfdFound(c) \/ SfdWrong(c)
    BY <1>2, <1>5, <1>6, Searching, SearchGuards
<1>8. CASE i + 1 # ByteBits
    <2>1. SfdBit(c, last)
        BY <1>2, <1>7, <1>8, SearchGuards
    <2>2. /\ d_shift_reg' = 0 /\ first_found' /\ nbr_bit_sfd' = i + 1 /\ find_preamble'
          /\ bit_sfd' = ShiftRight(SyncVector, ByteBits - (i + 1))
          /\ UNCHANGED <<d_state, d_target_queue>> /\ NoBreak(last)
        BY <1>2, <1>4, <2>1 DEF SfdBit
    <2>3. loop' = loop /\ loop' = d_state'
        BY <2>2, NoBreakStays
    <2>4. Begins'
        BY <1>2, <2>2, <2>3 DEF Begins, Registers
    <2>5. Hunting(k, b, i + 1)'
        <3>1. i + 1 > 0 /\ b <= SfdByte(k + 1)
            BY <1>1, PlaceOf
        <3>2. loop' = STATE_SYNC_SEARCH
            BY <1>2, <2>3
        <3> QED
            BY <1>2, <2>2, <3>1, <3>2 DEF Hunting
    <2> QED
        BY <1>8, <2>2, <2>4, <2>5
<1>9. CASE i + 1 = ByteBits
    <2>1. SfdFound(c)
        BY <1>2, <1>4, <1>7, <1>9, SearchGuards
    <2>2. /\ d_state' = STATE_HAVE_SYNC /\ loop' = STATE_HAVE_SYNC /\ d_shift_reg' = 0
          /\ d_chip_cnt' = 0 /\ nbr_bits' = 0 /\ byte' = 0 /\ UNCHANGED d_target_queue
        BY <2>1 DEF SfdFound, enter_have_sync, Break
    <2>3. Begins'
        BY <2>2 DEF Begins, Registers
    <2>4. byte' = ShiftRight(Len(Psdus[k + 1]), ByteBits - 0)
        <3>1. Len(Psdus[k + 1]) \in Byte
            <4>1. Len(Psdus[k + 1]) = Packets[k + 1][PreambleBytes + 2]
                  /\ Packets[k + 1] \in Seq(Byte) /\ Len(Packets[k + 1]) \in Nat
                  /\ PreambleBytes + 2 + Len(Psdus[k + 1]) <= Len(Packets[k + 1])
                  /\ Len(Psdus[k + 1]) \in 1 .. MAX_PKT_LEN
                BY <1>1, PsduIs, PacketIs
            <4>2. PreambleBytes + 2 \in 1 .. Len(Packets[k + 1])
                <5> DEFINE m == Len(Psdus[k + 1])
                           l == Len(Packets[k + 1])
                <5> HIDE DEF m, l
                <5>1. m \in Nat /\ l \in Nat /\ PreambleBytes + 2 + m <= l
                    BY <4>1, SinkAssumption DEF m, l
                <5>2. PreambleBytes + 2 \in 1 .. l
                    BY <5>1, WholePreamble
                <5> QED
                    BY <5>2 DEF l
            <4>3. Packets[k + 1][PreambleBytes + 2] \in Byte
                BY <4>1, <4>2
            <4> QED
                BY <4>1, <4>3, Zenon
        <3>2. Len(Psdus[k + 1]) \in Nat /\ 0 \in 0 .. ByteBits - 1
            BY <3>1, Widths DEF Byte
        <3>3. ShiftRight(Len(Psdus[k + 1]), ByteBits - 0) = 0
            BY <3>1, <3>2, ShiftedIn, Zenon
        <3> QED
            BY <2>2, <3>3, Zenon
    <2>5. Sizing(k, b + 1, 0)'
        BY <2>2, <2>4 DEF Sizing
    <2> QED
        BY <1>9, <2>2, <2>3, <2>5
<1> QED
    BY <1>8, <1>9

\* A zero is counted, or skipped behind a whole preamble.
Zeros(z) ==
    /\ ~first_found
    /\ IF z < PreambleBits THEN ~find_preamble /\ bit_breamble = z ELSE find_preamble

LEMMA ZeroCounts ==
    ASSUME NEW z \in Nat, Zeros(z), loop = STATE_SYNC_SEARCH, loop = d_state, NEW c, NEW last,
           ChipStep(c, last), Heard(c) = 0
    PROVE  /\ Begins' /\ UNCHANGED d_target_queue /\ loop' = STATE_SYNC_SEARCH
           /\ Zeros(z + 1)'
<1>1. Heard(c) # NoSymbol /\ Heard(c) # 1 /\ PreambleBits \in Nat
    BY CodeAssumption, SinkAssumption DEF Symbols
<1>2. ~SfdStarts(Heard(c))
    BY <1>1 DEF SfdStarts, Zeros
<1>3. \/ ~find_preamble /\ PreambleZero(c, last)
      \/ find_preamble /\ SkipZero(c, last)
    BY <1>1, <1>2, Searching, SearchGuards DEF SfdSymbol
<1>4. d_shift_reg' = 0 /\ UNCHANGED <<d_state, first_found, d_target_queue>> /\ NoBreak(last)
    BY <1>3 DEF PreambleZero, SkipZero, searchVars
<1>5. loop' = loop /\ loop' = d_state'
    BY <1>4, NoBreakStays
<1>6. Begins'
    BY <1>4, <1>5 DEF Begins, Registers
<1>7. Zeros(z + 1)'
    <2>1. CASE ~find_preamble /\ PreambleZero(c, last)
        <3>1. z < PreambleBits /\ bit_breamble = z
            BY <2>1 DEF Zeros
        <3>2. CASE z + 1 = PreambleBits
            <4>1. find_preamble' /\ ~(z + 1 < PreambleBits)
                BY <1>1, <2>1, <3>1, <3>2 DEF PreambleZero
            <4> QED
                BY <1>4, <4>1 DEF Zeros
        <3>3. CASE z + 1 # PreambleBits
            <4>1. ~find_preamble' /\ bit_breamble' = z + 1 /\ z + 1 < PreambleBits
                BY <1>1, <2>1, <3>1, <3>3 DEF PreambleZero
            <4> QED
                BY <1>4, <4>1 DEF Zeros
        <3> QED
            BY <3>2, <3>3
    <2>2. CASE find_preamble /\ SkipZero(c, last)
        <3>1. find_preamble' /\ ~(z < PreambleBits)
            BY <2>2 DEF SkipZero, searchVars, Zeros
        <3>2. ~(z + 1 < PreambleBits)
            BY <1>1, <3>1
        <3> QED
            BY <1>4, <3>1, <3>2 DEF Zeros
    <2> QED
        BY <1>3, <2>1, <2>2
<1> QED
    BY <1>4, <1>5, <1>6, <1>7

LEMMA ZeroNext ==
    ASSUME NEW k \in 0 .. Len(Packets), NEW b, NEW i, NEW c, NEW last,
           Hunting(k, b, i), b \in Nat, i \in 0 .. ByteBits - 1, loop = d_state,
           b < Len(AirBytes), IsLast(k) \/ b < SfdByte(k + 1),
           ChipStep(c, last), Heard(c) = BitAt(b, i)
    PROVE  /\ Begins' /\ UNCHANGED d_target_queue
           /\ i + 1 # ByteBits => Hunting(k, b, i + 1)'
           /\ i + 1 = ByteBits => Hunting(k, b + 1, 0)'
<1> DEFINE e == EndByte(k)
           z == (b - e) * ByteBits + i
<1>1. e \in Nat /\ ByteBits \in Nat \ {0, 1} /\ (~IsLast(k) => SfdByte(k + 1) \in Nat)
    BY GapOf, PlaceOf, Widths
<1>2. loop = STATE_SYNC_SEARCH /\ e <= b
    BY DEF Hunting
<1>3. ~(~IsLast(k) /\ b = SfdByte(k + 1) /\ i > 0)
    BY <1>1
<1>4. Zeros(z)
    BY <1>3, Zenon DEF Hunting, Zeros
<1>5. z \in Nat
    <2>1. b - e \in Nat
        BY <1>1, <1>2
    <2> QED
        BY <1>1, <2>1, Multiples
<1>6. Heard(c) = 0
    <2>1. AirBytes[b + 1] = 0
        BY <1>2, ZerosBetween
    <2>2. ByteBits - 1 - i \in Nat
        BY <1>1
    <2>3. BitAt(b, i) = 0 % 2
        BY <2>1, <2>2, BitsOfZero, Zenon DEF BitAt, BitOf
    <2>4. 0 % 2 = 0
        OBVIOUS
    <2> QED
        BY <2>3, <2>4
<1> HIDE DEF z
<1>7. Begins' /\ UNCHANGED d_target_queue /\ loop' = STATE_SYNC_SEARCH /\ Zeros(z + 1)'
    BY <1>2, <1>4, <1>5, <1>6, ZeroCounts
<1>8. ASSUME i + 1 # ByteBits
      PROVE  Hunting(k, b, i + 1)'
    <2>1. z + 1 = (b - e) * ByteBits + (i + 1)
        <3> DEFINE x == (b - e) * ByteBits
        <3>1. x \in Int
            BY <1>1
        <3> HIDE DEF x
        <3>2. (x + i) + 1 = x + (i + 1)
            BY <3>1
        <3> QED
            BY <3>2 DEF x, z
    <2>2. IsLast(k) \/ b <= SfdByte(k + 1)
        BY <1>1
    <2>3. ~(~IsLast(k) /\ b = SfdByte(k + 1))
        BY <1>1
    <2> QED
        BY <1>2, <1>7, <2>1, <2>2, <2>3, Zenon DEF Hunting, Zeros
<1>9. ASSUME i + 1 = ByteBits
      PROVE  Hunting(k, b + 1, 0)'
    <2>1. z + 1 = ((b + 1) - e) * ByteBits + 0
        <3>1. \A x \in Int, y \in Nat : x * y + y = (x + 1) * y + 0
            OBVIOUS
        <3>2. b - e \in Int /\ (b - e) + 1 = (b + 1) - e
            BY <1>1
        <3>3. (b - e) * ByteBits + ByteBits = ((b + 1) - e) * ByteBits + 0
            <4>1. (b - e) * ByteBits + ByteBits = ((b - e) + 1) * ByteBits + 0
                BY <1>1, <3>1, <3>2
            <4> QED
                BY <3>2, <4>1, Zenon
        <3> DEFINE x == (b - e) * ByteBits
        <3>4. x \in Int
            BY <1>1
        <3> HIDE DEF x
        <3>5. (x + i) + 1 = x + ByteBits
            BY <1>1, <1>9, <3>4
        <3> QED
            BY <3>3, <3>5, Zenon DEF x, z
    <2>2. (IsLast(k) \/ b + 1 <= SfdByte(k + 1)) /\ e <= b + 1
        BY <1>1, <1>2
    <2>3. ~(0 > 0)
        OBVIOUS
    <2> QED
        BY <1>7, <2>1, <2>2, <2>3, Zenon DEF Hunting, Zeros
<1> QED
    BY <1>7, <1>8, <1>9

LEMMA HuntingNext ==
    ASSUME IInv, NEW k \in 0 .. Len(Packets), NEW b, NEW i, NEW c, NEW last,
           Hunting(k, b, i), b \in Nat, i \in 0 .. ByteBits - 1, loop = d_state,
           b < Len(AirBytes), ChipStep(c, last), Heard(c) = BitAt(b, i), BitAt(b, i) \in Symbols
    PROVE  /\ Begins' /\ UNCHANGED d_target_queue
           /\ i + 1 # ByteBits => Hunting(k, b, i + 1)'
           /\ i + 1 = ByteBits => Hunting(k, b + 1, 0)' \/ Sizing(k, b + 1, 0)'
<1>1. CASE IsLast(k) \/ b < SfdByte(k + 1)
    BY <1>1, ZeroNext
<1>2. CASE ~(IsLast(k) \/ b < SfdByte(k + 1))
    <2>1. ~IsLast(k) /\ b = SfdByte(k + 1)
        <3>1. SfdByte(k + 1) \in Nat /\ b <= SfdByte(k + 1)
            BY <1>2, GapOf, PlaceOf DEF Hunting
        <3> QED
            BY <1>2, <3>1
    <2>2. CASE i = 0
        <3>1. Begins' /\ UNCHANGED d_target_queue /\ Hunting(k, b, 1)'
            BY <2>1, <2>2, SfdFirst
        <3>2. i + 1 = 1 /\ 1 # ByteBits
            BY <2>2, Widths
        <3> QED
            BY <3>1, <3>2, Zenon
    <2>3. CASE i # 0
        <3>1. i > 0
            BY <2>3
        <3> QED
            BY <2>1, <3>1, SfdNext
    <2> QED
        BY <2>2, <2>3
<1> QED
    BY <1>1, <1>2

\* One PSDU more.
LEMMA PsdusType == Psdus \in Seq(Seq(Byte)) /\ Len(Psdus) = Len(Packets)
<1>1. Len(Packets) \in Nat
    BY LinkAssumption
<1>2. Psdus \in [1 .. Len(Packets) -> Seq(Byte)]
    <2>1. \A k \in 1 .. Len(Packets) : Psdus[k] \in Seq(Byte)
        BY PsduIs
    <2>2. Psdus = [k \in 1 .. Len(Packets) |-> Psdus[k]]
        BY DEF Psdus
    <2> QED
        BY <2>1, <2>2, Zenon
<1> QED
    BY <1>1, <1>2, FunctionIsSeq

LEMMA OneMore ==
    ASSUME NEW S, NEW a \in Seq(S), NEW k \in Nat, k + 1 <= Len(a)
    PROVE  SubSeq(a, 1, k + 1) = Append(SubSeq(a, 1, k), a[k + 1])
<1> DEFINE long == SubSeq(a, 1, k + 1)
           short == SubSeq(a, 1, k)
           m == a[k + 1]
<1>1. Len(a) \in Nat /\ m \in S
    OBVIOUS
<1>2. long \in Seq(S) /\ Len(long) = k + 1 /\ \A j \in 1 .. k + 1 : long[j] = a[j]
    OBVIOUS
<1>3. short \in Seq(S) /\ Len(short) = k /\ \A j \in 1 .. k : short[j] = a[j]
    OBVIOUS
<1> HIDE DEF long, short
<1>4. /\ Append(short, m) \in Seq(S) /\ Len(Append(short, m)) = k + 1
      /\ \A j \in 1 .. k : Append(short, m)[j] = short[j]
      /\ Append(short, m)[k + 1] = m
    <2>1. Len(short) = k
        BY <1>3
    <2> QED
        BY <1>1, <1>3, <2>1
<1>5. \A j \in 1 .. Len(long) : long[j] = Append(short, m)[j]
    <2> TAKE j \in 1 .. Len(long)
    <2>1. j \in 1 .. k \/ j = k + 1
        BY <1>2
    <2>2. k + 1 \in 1 .. k + 1 /\ (j \in 1 .. k => j \in 1 .. k + 1)
        OBVIOUS
    <2> QED
        BY <1>2, <1>3, <1>4, <2>1, <2>2, Zenon
<1>6. long = Append(short, m)
    BY <1>2, <1>4, <1>5, SameSequence
<1> QED
    BY <1>6 DEF long, short

\* The last chip of a word.
LEMMA WordEnds ==
    ASSUME IInv, NEW k \in 0 .. Len(Packets), NEW b, NEW i, NEW last,
           Receives(k, b, i, WordChips - 1), b < Len(AirBytes), received \in Seq(Seq(Byte)),
           ChipStep(AirChip(sent), last), sent' = sent + 1, UNCHANGED received
    PROVE  \E l \in 0 .. Len(Packets), d \in 0 .. Len(AirBytes), j \in 0 .. ByteBits - 1 :
               Receives(l, d, j, 0)'
<1> DEFINE c == AirChip(sent)
           w == WordChips - 1
<1>1. /\ At(b, i, w) /\ WordFollows(b, i, w) /\ Delivered(k)
      /\ Hunting(k, b, i) \/ Sizing(k, b, i) \/ Taking(k, b, i)
    BY DEF Receives, Delivered
<1>2. b \in Nat /\ i \in 0 .. ByteBits - 1 /\ loop = d_state
    BY <1>1 DEF At, WordFollows
<1>3. BitAt(b, i) \in Symbols
    BY <1>1, ChipOnAir
<1>4. Heard(c) = BitAt(b, i) /\ Shift(d_shift_reg, c) \in Registers
    BY <1>1, HeardOnAir
<1>5. /\ i + 1 # ByteBits => At(b, i + 1, 0)' /\ i + 1 \in 0 .. ByteBits - 1
      /\ i + 1 = ByteBits => At(b + 1, 0, 0)'
      /\ 0 \in 0 .. ByteBits - 1 /\ b \in 0 .. Len(AirBytes) /\ b + 1 \in 0 .. Len(AirBytes)
    <2>1. /\ i + 1 # ByteBits => At(b, i + 1, 0)' /\ i + 1 \in 1 .. ByteBits - 1
          /\ i + 1 = ByteBits => At(b + 1, 0, 0)'
        BY <1>1, NextBit
    <2> QED
        BY <1>2, <2>1, AirLength, Widths
<1> HIDE DEF c, w
<1>6. ASSUME NEW l \in 0 .. Len(Packets), Begins', Delivered(l)',
             i + 1 # ByteBits => Knows(l, b, i + 1)', i + 1 = ByteBits => Knows(l, b + 1, 0)'
      PROVE  \E d \in 0 .. Len(AirBytes), j \in 0 .. ByteBits - 1 : Receives(l, d, j, 0)'
    <2>1. CASE i + 1 # ByteBits
        <3>1. WordFollows(b, i + 1, 0)'
            BY <1>6 DEF Begins, WordFollows
        <3>2. Receives(l, b, i + 1, 0)'
            BY <1>5, <1>6, <2>1, <3>1, Zenon DEF Receives, Knows, Delivered
        <3> QED
            BY <1>5, <2>1, <3>2, Zenon
    <2>2. CASE i + 1 = ByteBits
        <3>1. WordFollows(b + 1, 0, 0)'
            BY <1>6 DEF Begins, WordFollows
        <3>2. Receives(l, b + 1, 0, 0)'
            BY <1>5, <1>6, <2>2, <3>1, Zenon DEF Receives, Knows, Delivered
        <3> QED
            BY <1>5, <3>2, Zenon
    <2> QED
        BY <2>1, <2>2
<1>7. UNCHANGED d_target_queue => Delivered(k)'
    BY <1>1 DEF Delivered
<1>8. CASE Hunting(k, b, i)
    <2>1. /\ Begins' /\ UNCHANGED d_target_queue
          /\ i + 1 # ByteBits => Hunting(k, b, i + 1)'
          /\ i + 1 = ByteBits => Hunting(k, b + 1, 0)' \/ Sizing(k, b + 1, 0)'
        BY <1>2, <1>3, <1>4, <1>8, HuntingNext DEF c
    <2>2. /\ i + 1 # ByteBits => Knows(k, b, i + 1)'
          /\ i + 1 = ByteBits => Knows(k, b + 1, 0)'
        BY <2>1, Zenon DEF Knows
    <2> QED
        BY <1>6, <1>7, <2>1, <2>2, Zenon
<1>9. CASE Sizing(k, b, i)
    <2>1. /\ Begins' /\ UNCHANGED d_target_queue
          /\ i + 1 # ByteBits => Sizing(k, b, i + 1)'
          /\ i + 1 = ByteBits => Taking(k, b + 1, 0)'
        BY <1>2, <1>3, <1>4, <1>9, SizingNext DEF c
    <2>2. /\ i + 1 # ByteBits => Knows(k, b, i + 1)'
          /\ i + 1 = ByteBits => Knows(k, b + 1, 0)'
        BY <2>1, Zenon DEF Knows
    <2> QED
        BY <1>6, <1>7, <2>1, <2>2, Zenon
<1>10. CASE Taking(k, b, i)
    <2>1. /\ Begins'
          /\ i + 1 # ByteBits => Taking(k, b, i + 1)' /\ UNCHANGED d_target_queue
          /\ i + 1 = ByteBits =>
                  \/ Taking(k, b + 1, 0)' /\ UNCHANGED d_target_queue
                  \/ /\ ~IsLast(k) /\ b + 1 = EndByte(k + 1)
                     /\ d_target_queue' = Append(d_target_queue, Psdus[k + 1])
                     /\ d_state' = STATE_SYNC_SEARCH /\ loop' = STATE_SYNC_SEARCH
                     /\ ~first_found' /\ ~find_preamble' /\ bit_breamble' = 0
        BY <1>2, <1>3, <1>4, <1>10, TakingNext DEF c
    <2>2. CASE UNCHANGED d_target_queue /\ (i + 1 = ByteBits => Taking(k, b + 1, 0)')
        <3>1. /\ i + 1 # ByteBits => Knows(k, b, i + 1)'
              /\ i + 1 = ByteBits => Knows(k, b + 1, 0)'
            BY <2>1, <2>2, Zenon DEF Knows
        <3> QED
            BY <1>6, <1>7, <2>1, <2>2, <3>1, Zenon
    <2>3. CASE /\ i + 1 = ByteBits /\ ~IsLast(k) /\ b + 1 = EndByte(k + 1)
               /\ d_target_queue' = Append(d_target_queue, Psdus[k + 1])
               /\ d_state' = STATE_SYNC_SEARCH /\ loop' = STATE_SYNC_SEARCH
               /\ ~first_found' /\ ~find_preamble' /\ bit_breamble' = 0
        <3>1. k + 1 \in 1 .. Len(Packets) /\ k + 1 \in 0 .. Len(Packets) /\ k \in Nat
              /\ k + 1 <= Len(Packets)
            BY <2>3, GapOf, LinkAssumption
        <3>2. IsLast(k + 1) \/ b + 1 <= SfdByte((k + 1) + 1)
            <4>1. CASE ~IsLast(k + 1)
                <5>1. /\ EndByte(k + 1) \in Nat /\ (k + 1) + 1 \in 1 .. Len(Packets)
                      /\ EndByte(k + 1) + PreambleBytes <= SfdByte((k + 1) + 1)
                    BY <3>1, <4>1, GapOf
                <5>2. SfdByte((k + 1) + 1) \in Nat /\ PreambleBytes \in Nat
                    BY <5>1, PlaceOf, WholePreamble
                <5>3. b + 1 <= SfdByte((k + 1) + 1)
                    BY <2>3, <5>1, <5>2
                <5> QED
                    BY <5>3
            <4> QED
                BY <4>1
        <3>3. EndByte(k + 1) <= b + 1 /\ ((b + 1) - EndByte(k + 1)) * ByteBits + 0 = 0
            <4>1. (b + 1) - EndByte(k + 1) = 0 /\ EndByte(k + 1) <= b + 1
                BY <1>2, <2>3
            <4>2. 0 * ByteBits + 0 = 0
                BY Widths
            <4> QED
                BY <4>1, <4>2, Zenon
        <3>4. 0 < PreambleBits /\ ~(0 > 0)
            BY SinkAssumption
        <3>5. Hunting(k + 1, b + 1, 0)'
            BY <2>3, <3>2, <3>3, <3>4, Zenon DEF Hunting
        <3>6. Delivered(k + 1)'
            <4>1. SubSeq(Psdus, 1, k + 1) = Append(SubSeq(Psdus, 1, k), Psdus[k + 1])
                BY <3>1, PsdusType, OneMore
            <4>2. Psdus[k + 1] \in Seq(Byte) /\ d_target_queue \in Seq(Seq(Byte))
                BY <3>1, PsduIs DEF IInv, TypeOK
            <4>3. received \o Append(d_target_queue, Psdus[k + 1])
                    = Append(received \o d_target_queue, Psdus[k + 1])
                <5>1. \A s, t \in Seq(Seq(Byte)), m \in Seq(Byte) :
                          s \o Append(t, m) = Append(s \o t, m)
                    BY AppendBehind, SMTT(20)
                <5> QED
                    BY <4>2, <5>1, Zenon
            <4> QED
                BY <1>1, <2>3, <4>1, <4>3, Zenon DEF Delivered
        <3>7. Knows(k + 1, b + 1, 0)'
            BY <3>5 DEF Knows
        <3> QED
            BY <1>6, <2>1, <2>3, <3>1, <3>6, <3>7, Zenon
    <2> QED
        BY <2>1, <2>2, <2>3, Zenon
<1> QED
    BY <1>1, <1>8, <1>9, <1>10
-----------------------------------------------------------------------------
(***************************************************************************)
(* The link.                                                               *)
(***************************************************************************)
\* The sink's invariant, what was taken and sent, and how far the receiver is.
LinkIInv ==
    /\ IInv /\ LinkInv
    /\ received \in Seq(Seq(Byte)) /\ sent \in Nat /\ start \in Nat

\* A chip of the air, or its inverse, is a chip.
LEMMA SentIsChip ==
    ASSUME sent \in Nat, sent < AirChips
    PROVE  AirChip(sent) \in Chips /\ 1 - AirChip(sent) \in Chips
<1>1. PICK b \in Nat, i \in 0 .. ByteBits - 1, c \in 0 .. WordChips - 1 :
          sent = (b * ByteBits + i) * WordChips + c
    BY SomePlace
<1>2. At(b, i, c) /\ b < Len(AirBytes)
    BY <1>1, PlaceIs DEF At
<1>3. AirChip(sent) \in Chips
    BY <1>2, ChipOnAir
<1> QED
    BY <1>3 DEF Chips

\* A step of the link is a step of its sink, or none.
LEMMA LinkStepsSink ==
    ASSUME sent \in Nat, [LinkNext]_linkVars
    PROVE  [Next]_vars
<1>1. CASE Air
    <2>1. AirChip(sent) \in Chips /\ 1 - AirChip(sent) \in Chips
        BY <1>1, SentIsChip DEF Air
    <2>2. \E c \in Chips, last \in BOOLEAN : ChipStep(c, last)
        BY <1>1, <2>1, Zenon DEF Air, Hear
    <2> QED
        BY <1>1, <2>2, Zenon DEF Air, Next, Work
<1>2. CASE Take
    BY <1>2 DEF Take, Next
<1>3. CASE UNCHANGED linkVars
    BY <1>3 DEF linkVars
<1> QED
    BY <1>1, <1>2, <1>3 DEF LinkNext

\* At the beginning nothing is counted, and the first byte is next.
LEMMA InitLinkIInv == LinkInit => LinkIInv
<1> SUFFICES ASSUME LinkInit PROVE LinkIInv
    OBVIOUS
<1>1. IInv /\ received \in Seq(Seq(Byte)) /\ sent \in Nat /\ start \in Nat /\ sent = start
    <2>1. start \in Nat /\ sent = start /\ received = <<>> /\ Init
        BY LinkAssumption DEF LinkInit
    <2> QED
        BY <2>1, InitIInv
<1>2. LinkInv
    <2> SUFFICES ASSUME Clean
                 PROVE  \E k \in 0 .. Len(Packets), b \in 0 .. Len(AirBytes),
                           i \in 0 .. ByteBits - 1, c \in 0 .. WordChips - 1 : Receives(k, b, i, c)
        BY DEF LinkInv
    <2>1. /\ 0 \in 0 .. Len(Packets) /\ 0 \in 0 .. Len(AirBytes) /\ 0 \in Nat
          /\ 0 \in 0 .. ByteBits - 1 /\ 0 \in 0 .. WordChips - 1
        BY LinkAssumption, AirLength, Widths
    <2>2. At(0, 0, 0)
        <3>1. sent = 0
            BY <1>1 DEF Clean
        <3>2. (0 * ByteBits + 0) * WordChips + 0 = 0
            BY Widths
        <3> QED
            BY <2>1, <3>1, <3>2, Zenon DEF At
    <2>3. WordFollows(0, 0, 0)
        BY DEF LinkInit, Init, WordFollows, Registers
    <2>4. Hunting(0, 0, 0)
        <3>1. EndByte(0) = 0 /\ (IsLast(0) \/ 0 <= SfdByte(0 + 1))
            <4>1. CASE ~IsLast(0)
                <5>1. 0 + 1 \in 1 .. Len(Packets)
                    BY <2>1, <4>1, GapOf
                <5>2. SfdByte(0 + 1) \in Nat
                    BY <5>1, PlaceOf
                <5>3. \A x \in Nat : 0 <= x
                    OBVIOUS
                <5> QED
                    BY <5>2, <5>3, Zenon DEF EndByte
            <4> QED
                BY <4>1 DEF EndByte
        <3>2. (0 - 0) * ByteBits + 0 = 0 /\ 0 < PreambleBits /\ ~(0 > 0) /\ 0 <= 0
            BY Widths, SinkAssumption
        <3>3. loop = STATE_SYNC_SEARCH /\ ~find_preamble /\ ~first_found /\ bit_breamble = 0
            BY DEF LinkInit, Init
        <3> QED
            BY <3>1, <3>2, <3>3, Zenon DEF Hunting
    <2>5. received \o d_target_queue = SubSeq(Psdus, 1, 0)
        <3>1. received = <<>> /\ d_target_queue = <<>>
            BY DEF LinkInit, Init
        <3>2. SubSeq(Psdus, 1, 0) \in Seq(Seq(Byte)) /\ Len(SubSeq(Psdus, 1, 0)) = 0
            BY PsdusType
        <3>3. SubSeq(Psdus, 1, 0) = <<>>
            BY <3>2, EmptySequence
        <3>4. <<>> \o <<>> = <<>>
            OBVIOUS
        <3> QED
            BY <3>1, <3>3, <3>4
    <2>6. Receives(0, 0, 0, 0)
        BY <2>2, <2>3, <2>4, <2>5 DEF Receives
    <2> QED
        BY <2>1, <2>6
<1> QED
    BY <1>1, <1>2 DEF LinkIInv

\* A chip takes a clean receiver to the next place.
LEMMA AirLinkInv ==
    ASSUME LinkIInv, Air
    PROVE  LinkInv'
<1> SUFFICES ASSUME Clean'
             PROVE  \E k \in 0 .. Len(Packets), b \in 0 .. Len(AirBytes),
                       i \in 0 .. ByteBits - 1, c \in 0 .. WordChips - 1 : Receives(k, b, i, c)'
    BY DEF LinkInv
<1>1. /\ sent < AirChips /\ sent' = sent + 1 /\ UNCHANGED <<start, received>>
      /\ \/ Hear(AirChip(sent)) /\ UNCHANGED flipped
         \/ Hear(1 - AirChip(sent)) /\ flipped' = flipped \cup {sent}
    BY DEF Air
<1>2. Clean /\ Hear(AirChip(sent))
    <2>1. flipped' = {} /\ start' = 0
        BY DEF Clean
    <2>2. flipped' # flipped \cup {sent}
        BY <2>1
    <2> QED
        BY <1>1, <2>1, <2>2 DEF Clean
<1>3. PICK last \in BOOLEAN : ChipStep(AirChip(sent), last)
    BY <1>2, Zenon DEF Hear
<1>4. PICK k \in 0 .. Len(Packets), b \in 0 .. Len(AirBytes),
           i \in 0 .. ByteBits - 1, c \in 0 .. WordChips - 1 : Receives(k, b, i, c)
    BY <1>2 DEF LinkIInv, LinkInv
<1>5. b < Len(AirBytes)
    <2>1. b \in Nat /\ sent = (b * ByteBits + i) * WordChips + c
        BY <1>4 DEF Receives, At
    <2> QED
        BY <1>1, <2>1, PlaceIs
<1>6. CASE c < WordChips - 1
    <2>1. Receives(k, b, i, c + 1)' /\ c + 1 \in 0 .. WordChips - 1
        BY <1>1, <1>3, <1>4, <1>5, <1>6, WithinWord
    <2> QED
        BY <2>1, Zenon
<1>7. CASE ~(c < WordChips - 1)
    <2>1. c = WordChips - 1 /\ 0 \in 0 .. WordChips - 1
        BY <1>7, Widths
    <2>2. Receives(k, b, i, WordChips - 1) /\ IInv /\ received \in Seq(Seq(Byte))
        BY <1>4, <2>1, Zenon DEF LinkIInv
    <2>3. \E l \in 0 .. Len(Packets), d \in 0 .. Len(AirBytes), j \in 0 .. ByteBits - 1 :
              Receives(l, d, j, 0)'
        BY <1>1, <1>3, <1>5, <2>2, WordEnds
    <2> QED
        BY <2>1, <2>3, Zenon
<1> QED
    BY <1>6, <1>7

\* The consumer takes a message from the queue to those received.
LEMMA TakeKeepsOrder ==
    ASSUME LinkIInv, Take
    PROVE  received' \in Seq(Seq(Byte)) /\ received' \o d_target_queue' = received \o d_target_queue
<1> DEFINE q == d_target_queue
           h == Head(q)
           t == Tail(q)
<1>1. q # <<>> /\ d_target_queue' = t /\ received' = Append(received, h)
    BY DEF Take, delete_head
<1>2. q \in Seq(Seq(Byte)) /\ received \in Seq(Seq(Byte))
    BY DEF LinkIInv, IInv, TypeOK
<1> HIDE DEF q
<1>3. h \in Seq(Byte) /\ t \in Seq(Seq(Byte))
    BY <1>1, <1>2
<1>4. <<h>> \o t = q
    BY <1>1, <1>2, HeadInFront
<1> HIDE DEF h, t
<1>5. Append(received, h) \o t = received \o (<<h>> \o t)
    BY <1>2, <1>3, BetweenTwo
<1>6. Append(received, h) \in Seq(Seq(Byte))
    BY <1>2, <1>3
<1> QED
    BY <1>1, <1>4, <1>5, <1>6, Zenon DEF q

LEMMA TakeLinkInv ==
    ASSUME LinkIInv, Take
    PROVE  LinkInv'
<1> SUFFICES ASSUME Clean'
             PROVE  \E k \in 0 .. Len(Packets), b \in 0 .. Len(AirBytes),
                       i \in 0 .. ByteBits - 1, c \in 0 .. WordChips - 1 : Receives(k, b, i, c)'
    BY DEF LinkInv
<1>1. UNCHANGED <<sinkVars, sent, start, flipped>>
    BY DEF Take, delete_head
<1>2. Clean
    BY <1>1 DEF Clean
<1>3. PICK k \in 0 .. Len(Packets), b \in 0 .. Len(AirBytes),
           i \in 0 .. ByteBits - 1, c \in 0 .. WordChips - 1 : Receives(k, b, i, c)
    BY <1>2 DEF LinkIInv, LinkInv
<1>4. UNCHANGED placeVars /\ loop' = loop /\ d_shift_reg' = d_shift_reg /\ d_chip_cnt' = d_chip_cnt
      /\ d_state' = d_state
    BY <1>1 DEF placeVars, sinkVars
<1>5. (Hunting(k, b, i) \/ Sizing(k, b, i) \/ Taking(k, b, i))'
    BY <1>3, <1>4, SamePlace DEF Receives
<1>6. At(b, i, c)' /\ WordFollows(b, i, c)'
    BY <1>1, <1>3, <1>4 DEF Receives, At, WordFollows
<1>7. (received \o d_target_queue = SubSeq(Psdus, 1, k))'
    BY <1>3, TakeKeepsOrder DEF Receives
<1>8. Receives(k, b, i, c)'
    BY <1>5, <1>6, <1>7 DEF Receives
<1> QED
    BY <1>8

LEMMA NextLinkIInv == LinkIInv /\ [LinkNext]_linkVars => LinkIInv'
<1> SUFFICES ASSUME LinkIInv, [LinkNext]_linkVars PROVE LinkIInv'
    OBVIOUS
<1>1. IInv'
    BY LinkStepsSink, NextIInv DEF LinkIInv
<1>2. CASE Air
    <2>1. sent' \in Nat /\ start' \in Nat /\ received' \in Seq(Seq(Byte))
        BY <1>2 DEF LinkIInv, Air
    <2> QED
        BY <1>1, <1>2, <2>1, AirLinkInv DEF LinkIInv
<1>3. CASE Take
    <2>1. sent' \in Nat /\ start' \in Nat
        BY <1>3 DEF LinkIInv, Take
    <2> QED
        BY <1>1, <1>3, <2>1, TakeLinkInv, TakeKeepsOrder DEF LinkIInv
<1>4. CASE UNCHANGED linkVars
    <2>1. UNCHANGED <<sent, start, flipped, received, d_target_queue>> /\ UNCHANGED sinkVars
        BY <1>4 DEF linkVars, vars
    <2>2. UNCHANGED placeVars /\ loop' = loop /\ d_shift_reg' = d_shift_reg
          /\ d_chip_cnt' = d_chip_cnt /\ d_state' = d_state
        BY <2>1 DEF placeVars, sinkVars
    <2>3. LinkInv'
        <3> SUFFICES ASSUME Clean'
                     PROVE  \E k \in 0 .. Len(Packets), b \in 0 .. Len(AirBytes),
                               i \in 0 .. ByteBits - 1, c \in 0 .. WordChips - 1 :
                                   Receives(k, b, i, c)'
            BY DEF LinkInv
        <3>1. Clean
            BY <2>1 DEF Clean
        <3>2. PICK k \in 0 .. Len(Packets), b \in 0 .. Len(AirBytes),
                   i \in 0 .. ByteBits - 1, c \in 0 .. WordChips - 1 : Receives(k, b, i, c)
            BY <3>1 DEF LinkIInv, LinkInv
        <3>3. (Hunting(k, b, i) \/ Sizing(k, b, i) \/ Taking(k, b, i))'
            BY <2>2, <3>2, SamePlace DEF Receives
        <3>4. At(b, i, c)' /\ WordFollows(b, i, c)'
            BY <2>1, <2>2, <3>2 DEF Receives, At, WordFollows
        <3>5. (received \o d_target_queue = SubSeq(Psdus, 1, k))'
            BY <2>1, <3>2 DEF Receives
        <3>6. Receives(k, b, i, c)'
            BY <3>3, <3>4, <3>5 DEF Receives
        <3> QED
            BY <3>6
    <2> QED
        BY <1>1, <2>1, <2>3 DEF LinkIInv
<1> QED
    BY <1>2, <1>3, <1>4 DEF LinkNext

(***************************************************************************)
(* Whatever the packets, the cuts of the buffers and the delays of the     *)
(* consumer: a receiver that misses no chip is at every chip where the     *)
(* transmitter is, has the preamble, the bits of the SFD, of the PHR and of*)
(* the payload that have been sent, and has delivered what was complete.   *)
(* Any other receiver keeps the sink's invariant at least.                 *)
(***************************************************************************)
THEOREM LinkInvariant == LinkSpec => []LinkIInv
BY InitLinkIInv, NextLinkIInv, PTL DEF LinkSpec

\* The sink at the end of a link, clean or not, is the sink of PacketSink: what the air
\* hands over is chips, one for each call of slice, and the queue is taken from its head.
THEOREM LinkImplementsSink == LinkSpec => Spec
<1>1. LinkInit => Init
    BY DEF LinkInit
<1>2. LinkIInv /\ [LinkNext]_linkVars => [Next]_vars
    BY LinkStepsSink DEF LinkIInv
<1> QED
    BY <1>1, <1>2, LinkInvariant, PTL DEF LinkSpec, Spec

\* What was taken is a beginning of what was sent.
LEMMA TakenInOrder ==
    ASSUME NEW S, NEW a \in Seq(S), NEW b \in Seq(S), NEW s \in Seq(S), NEW k \in 0 .. Len(s),
           a \o b = SubSeq(s, 1, k)
    PROVE  \A i \in 1 .. Len(a) : i <= Len(s) /\ a[i] = s[i]
<1>1. Len(s) \in Nat /\ Len(a) \in Nat /\ Len(b) \in Nat
    OBVIOUS
<1>2. Len(SubSeq(s, 1, k)) = k /\ \A j \in 1 .. k : SubSeq(s, 1, k)[j] = s[j]
    BY <1>1
<1>3. Len(a \o b) = Len(a) + Len(b)
    BY Together
<1>4. Len(a) <= k /\ k <= Len(s) /\ k \in Nat
    BY <1>1, <1>2, <1>3
<1> TAKE i \in 1 .. Len(a)
<1>5. (a \o b)[i] = a[i]
    BY FirstOfTwo
<1>6. i \in 1 .. k /\ i <= Len(s)
    BY <1>1, <1>4
<1> QED
    BY <1>2, <1>5, <1>6, Zenon

LEMMA CleanInOrder == LinkIInv => NothingElseDelivered
<1> SUFFICES ASSUME LinkIInv, flipped = {}, start = 0
             PROVE  \A i \in 1 .. Len(received) : i <= Len(Psdus) /\ received[i] = Psdus[i]
    BY DEF NothingElseDelivered
<1>1. PICK k \in 0 .. Len(Packets), b \in 0 .. Len(AirBytes),
           i \in 0 .. ByteBits - 1, c \in 0 .. WordChips - 1 : Receives(k, b, i, c)
    BY DEF LinkIInv, LinkInv, Clean
<1>2. received \in Seq(Seq(Byte)) /\ d_target_queue \in Seq(Seq(Byte))
    BY DEF LinkIInv, IInv, TypeOK
<1>3. received \o d_target_queue = SubSeq(Psdus, 1, k)
    BY <1>1 DEF Receives
<1>4. Psdus \in Seq(Seq(Byte)) /\ k \in 0 .. Len(Psdus)
    BY PsdusType
<1> QED
    BY <1>2, <1>3, <1>4, TakenInOrder, SMTT(20)

\* A clean link delivers no packet twice, none out of order and nothing else: what the
\* callback was given is always the PSDUs of the first packets sent, for any packets of
\* the builder's form that fit in the buffer of symbols_to_chips_bs.
THEOREM CleanLinkInOrder == LinkSpec => []NothingElseDelivered
BY LinkInvariant, CleanInOrder, PTL

\* Behind the last chip a clean receiver searches behind the last packet.
LEMMA NothingLeft ==
    ASSUME NEW k \in 0 .. Len(Packets), NEW b \in Nat, NEW i, b >= Len(AirBytes), Knows(k, b, i),
           IInv
    PROVE  k = Len(Packets)
<1> SUFFICES ASSUME ~IsLast(k) PROVE FALSE
    BY DEF IsLast
<1>1. k + 1 \in 1 .. Len(Packets)
    BY GapOf
<1> DEFINE s == SfdByte(k + 1)
           m == Len(Psdus[k + 1])
           l == Len(AirBytes)
<1>2. s \in Nat /\ l \in Nat /\ EndByte(k + 1) = s + 2 + m /\ EndByte(k + 1) <= l
    BY <1>1, PlaceOf, GapOf, LinkAssumption
<1>3. m \in Nat
    <2>1. m \in 1 .. MAX_PKT_LEN
        BY <1>1, PsduIs
    <2> HIDE DEF m
    <2> QED
        BY <2>1, SinkAssumption
<1>4. \/ b <= s
      \/ b = s + 1
      \/ b = s + 2 + d_packetlen_cnt /\ d_packetlen_cnt < m /\ d_packetlen_cnt \in Int
    BY DEF Knows, Hunting, Sizing, Taking, IInv, TypeOK
<1> HIDE DEF s, m, l
<1>5. b >= l
    BY DEF l
<1> QED
    BY <1>2, <1>3, <1>4, <1>5

LEMMA CleanComplete ==
    ASSUME LinkIInv, Clean, Finished
    PROVE  received = Psdus
<1>1. PICK k \in 0 .. Len(Packets), b \in 0 .. Len(AirBytes),
           i \in 0 .. ByteBits - 1, c \in 0 .. WordChips - 1 : Receives(k, b, i, c)
    BY DEF LinkIInv, LinkInv
<1>2. b \in Nat /\ sent = (b * ByteBits + i) * WordChips + c /\ sent = AirChips
    BY <1>1 DEF Receives, At, Finished
<1>3. ~(b < Len(AirBytes))
    <2>1. ~(sent < AirChips)
        <3>1. AirChips \in Nat
            BY <1>2 DEF LinkIInv
        <3> QED
            BY <1>2, <3>1
    <2> QED
        BY <1>2, <2>1, PlaceIs
<1>4. k = Len(Packets)
    <2>1. b >= Len(AirBytes)
        BY <1>2, <1>3, AirLength
    <2>2. Knows(k, b, i) /\ IInv
        BY <1>1 DEF Receives, Knows, LinkIInv
    <2> QED
        BY <1>2, <2>1, <2>2, NothingLeft
<1>5. received \o <<>> = SubSeq(Psdus, 1, Len(Psdus))
    BY <1>1, <1>4, PsdusType DEF Receives, Finished
<1>6. received \in Seq(Seq(Byte)) /\ Psdus \in Seq(Seq(Byte))
    BY PsdusType DEF LinkIInv
<1> HIDE DEF Psdus
<1>7. received \o <<>> = received /\ SubSeq(Psdus, 1, Len(Psdus)) = Psdus
    BY <1>6
<1> QED
    BY <1>5, <1>7

LEMMA CleanIntact ==
    ASSUME LinkIInv, Clean
    PROVE  IntactDelivered /\ (Finished => received = Psdus)
<1> SUFFICES ASSUME Finished PROVE IntactDelivered /\ received = Psdus
    BY DEF IntactDelivered
<1>1. received = Psdus
    BY CleanComplete
<1> DEFINE at == [k \in Intact |-> k]
<1>2. Intact \subseteq 1 .. Len(Psdus)
    BY DEF Intact
<1>3. at \in [Intact -> 1 .. Len(received)]
    BY <1>1, <1>2
<1>4. \A k \in Intact : received[at[k]] = Psdus[k]
    BY <1>1
<1>5. \A j, k \in Intact : j < k => at[j] < at[k]
    OBVIOUS
<1> HIDE DEF at
<1>6. IntactDelivered
    BY <1>3, <1>4, <1>5 DEF IntactDelivered
<1> QED
    BY <1>1, <1>6

\* And every one: when the last chip of a clean link has been heard and the queue is
\* empty, exactly the PSDUs of the packets sent have been delivered.
THEOREM CleanLinkDelivers ==
    LinkSpec => [](Clean => IntactDelivered /\ (Finished => received = Psdus))
<1>1. LinkIInv => (Clean => IntactDelivered /\ (Finished => received = Psdus))
    BY CleanIntact
<1> QED
    BY <1>1, LinkInvariant, PTL
=============================================================================
