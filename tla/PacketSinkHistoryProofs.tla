---------------------- MODULE PacketSinkHistoryProofs -----------------------
(***************************************************************************)
(* Proofs about PacketSinkHistory, for every value of the constants: the   *)
(* sink synchronises on what it should, and delivers what it heard.        *)
(***************************************************************************)
EXTENDS PacketSinkHistory, PacketSinkProofs

-----------------------------------------------------------------------------
(***************************************************************************)
(* What a sequence of bits spells.                                         *)
(***************************************************************************)
Doubles(v, bits, n) ==
    v \in [0 .. n -> Int] /\ v[0] = 0 /\ \A k \in 1 .. n : v[k] = 2 * v[k - 1] + bits[k]

\* Value is computed by a recursion that has a solution.
LEMMA ValueSteps ==
    ASSUME NEW bits \in Seq(Int)
    PROVE  \E v : Doubles(v, bits, Len(bits)) /\ Value(bits) = v[Len(bits)]
<1> DEFINE n == Len(bits)
           Step == [k \in 1 .. n |-> [i \in Int |-> 2 * i + bits[k]]]
           IsValue(f) == f = [k \in 0 .. n |-> IF k = 0 THEN 0 ELSE 2 * f[k - 1] + bits[k]]
           v == CHOOSE f : IsValue(f)
<1>1. n \in Nat /\ IsRecursion(n, Int, 0, Step)
    BY DEF IsRecursion
<1>2. \A i \in Int, k \in 1 .. n : Step[k][i] = 2 * i + bits[k]
    OBVIOUS
<1> HIDE DEF n, Step
<1>3. PICK g : Solves(g, n, Int, 0, Step)
    BY <1>1, RecursionExists
<1>4. IsValue(g)
    <2>1. ASSUME NEW k \in 1 .. n
          PROVE  g[k] = 2 * g[k - 1] + bits[k]
        <3>1. g[k - 1] \in Int /\ g[k] = Step[k][g[k - 1]]
            BY <1>1, <1>3 DEF Solves
        <3> QED
            BY <1>2, <3>1
    <2> QED
        BY <1>1, <1>3, <2>1 DEF Solves
<1>5. IsValue(v)
    BY <1>4
<1> HIDE DEF v
<1>6. v[0] = 0
    BY <1>1, <1>5
<1>7. ASSUME NEW k \in 1 .. n
      PROVE  v[k] = 2 * v[k - 1] + bits[k]
    <2>1. k \in 0 .. n /\ k # 0
        BY <1>1
    <2> QED
        BY <1>5, <2>1, Zenon
<1>8. \A k \in 1 .. n : v[k - 1] \in Int => v[k] = Step[k][v[k - 1]]
    BY <1>2, <1>7
<1>9. \A k \in 0 .. n : v[k] = g[k]
    BY <1>1, <1>3, <1>6, <1>8, RecursionUnique
<1>10. v \in [0 .. n -> Int]
    BY <1>3, <1>5, <1>9 DEF Solves
<1>11. Value(bits) = v[n]
    BY DEF Value, v, n
<1> QED
    BY <1>6, <1>7, <1>10, <1>11 DEF n, Doubles

\* And only one.
LEMMA DoublesUnique ==
    ASSUME NEW bits \in Seq(Int), NEW n \in 0 .. Len(bits), NEW g, NEW h,
           Doubles(g, bits, n), Doubles(h, bits, n)
    PROVE  g[n] = h[n]
<1> DEFINE Step == [k \in 1 .. n |-> [i \in Int |-> 2 * i + bits[k]]]
<1>1. \A i \in Int, k \in 1 .. n : Step[k][i] = 2 * i + bits[k]
    OBVIOUS
<1> HIDE DEF Step
<1>2. Solves(g, n, Int, 0, Step)
    <2>1. ASSUME NEW k \in 1 .. n
          PROVE  g[k] = Step[k][g[k - 1]]
        <3>1. g[k - 1] \in Int /\ g[k] = 2 * g[k - 1] + bits[k]
            BY DEF Doubles
        <3> QED
            BY <1>1, <3>1
    <2> QED
        BY <2>1 DEF Doubles, Solves
<1>3. h[0] = 0 /\ \A k \in 1 .. n : h[k - 1] \in Int => h[k] = Step[k][h[k - 1]]
    BY <1>1 DEF Doubles
<1>4. \A k \in 0 .. n : h[k] = g[k]
    BY <1>2, <1>3, RecursionUnique
<1> QED
    BY <1>4

\* A bit more.
LEMMA ValueAppend ==
    ASSUME NEW s \in Seq(Int), NEW b \in Int
    PROVE  /\ Value(s) \in Int /\ Value(Append(s, b)) = 2 * Value(s) + b
<1> DEFINE t == Append(s, b)
           n == Len(s)
<1>1. /\ t \in Seq(Int) /\ Len(t) = n + 1 /\ n \in 0 .. Len(s)
      /\ t[n + 1] = b /\ \A k \in 1 .. n : t[k] = s[k]
    OBVIOUS
<1> HIDE DEF t, n
<1>2. PICK v : Doubles(v, s, n) /\ Value(s) = v[n]
    BY ValueSteps DEF n
<1>3. PICK w : Doubles(w, t, n + 1) /\ Value(t) = w[n + 1]
    BY <1>1, ValueSteps
<1> DEFINE u == [k \in 0 .. n |-> w[k]]
<1>4. Doubles(u, s, n)
    <2>1. u \in [0 .. n -> Int] /\ u[0] = 0
        BY <1>1, <1>3 DEF Doubles
    <2>2. ASSUME NEW k \in 1 .. n
          PROVE  u[k] = 2 * u[k - 1] + s[k]
        <3>1. w[k] = 2 * w[k - 1] + s[k]
            BY <1>1, <1>3 DEF Doubles
        <3>2. u[k] = w[k] /\ u[k - 1] = w[k - 1]
            BY <1>1
        <3> HIDE DEF u
        <3> QED
            BY <3>1, <3>2, Zenon
    <2> QED
        BY <2>1, <2>2 DEF Doubles
<1> HIDE DEF u
<1>5. v[n] = u[n]
    BY <1>1, <1>2, <1>4, DoublesUnique
<1>6. v[n] = w[n] /\ w[n + 1] = 2 * w[n] + t[n + 1] /\ w[n] \in Int
    BY <1>1, <1>3, <1>5 DEF Doubles, u
<1> QED
    BY <1>1, <1>2, <1>3, <1>6 DEF t

\* Nothing spells zero.
LEMMA ValueOfNothing == Value(<<>>) = 0
<1> DEFINE none == <<>>
<1>1. none \in Seq(Int) /\ Len(none) = 0
    OBVIOUS
<1> HIDE DEF none
<1>2. PICK v : Doubles(v, none, Len(none)) /\ Value(none) = v[Len(none)]
    BY <1>1, ValueSteps
<1>3. Value(none) = 0
    BY <1>1, <1>2 DEF Doubles
<1> QED
    BY <1>3 DEF none

-----------------------------------------------------------------------------
(***************************************************************************)
(* What is remembered, and the ends of sequences.                          *)
(***************************************************************************)
LEMMA SymbolsAreIntegers ==
    ASSUME NEW s \in Seq(Symbols)
    PROVE  s \in Seq(Int)
BY DEF Symbols

\* A new symbol goes to the end of the window, the oldest falls out of a full one.
LEMMA Remembered ==
    ASSUME NEW w \in Seq(Symbols), Len(w) <= WindowSize, NEW s \in Symbols
    PROVE  LET r == Remember(Append(w, s))
           IN  /\ r \in Seq(Symbols) /\ Len(r) \in 1 .. WindowSize
               /\ Len(r) = IF Len(w) = WindowSize THEN Len(w) ELSE Len(w) + 1
               /\ r[Len(r)] = s
               /\ \A i \in 1 .. Len(r) - 1 : r[i] = w[i + Len(w) - Len(r) + 1]
<1> DEFINE a == Append(w, s)
           r == Remember(a)
<1>1. WindowSize \in Nat \ {0}
    BY SinkAssumption DEF WindowSize
<1>2. /\ a \in Seq(Symbols) /\ Len(a) = Len(w) + 1 /\ a[Len(w) + 1] = s
      /\ \A i \in 1 .. Len(w) : a[i] = w[i]
    OBVIOUS
<1> HIDE DEF a
<1>3. CASE Len(w) = WindowSize
    <2>1. r = SubSeq(a, 2, WindowSize + 1)
        BY <1>1, <1>2, <1>3 DEF Remember, Final
    <2>2. /\ r \in Seq(Symbols) /\ Len(r) = WindowSize
          /\ \A i \in 1 .. WindowSize : r[i] = a[i + 1]
        BY <1>1, <1>2, <1>3, <2>1
    <2> HIDE DEF r
    <2> QED
        BY <1>1, <1>2, <1>3, <2>2 DEF a, r
<1>4. CASE Len(w) # WindowSize
    <2>1. r = a
        BY <1>1, <1>2, <1>4 DEF Remember
    <2> HIDE DEF r
    <2> QED
        BY <1>1, <1>2, <1>4, <2>1 DEF a, r
<1> QED
    BY <1>3, <1>4

\* The end of a sequence.
LEMMA FinalType ==
    ASSUME NEW w \in Seq(Symbols), NEW k \in 0 .. Len(w)
    PROVE  /\ Final(w, k) \in Seq(Symbols) /\ Len(Final(w, k)) = k
           /\ \A i \in 1 .. k : Final(w, k)[i] = w[Len(w) - k + i]
BY DEF Final

\* What ends in the new symbol ended one symbol earlier before.
LEMMA FinalOfRemembered ==
    ASSUME NEW w \in Seq(Symbols), Len(w) <= WindowSize, NEW s \in Symbols,
           NEW k \in 0 .. Len(w), k < WindowSize
    PROVE  Final(Remember(Append(w, s)), k + 1) = Append(Final(w, k), s)
<1> DEFINE r == Remember(Append(w, s))
           e == Final(r, k + 1)
           f == Final(w, k)
<1>1. /\ r \in Seq(Symbols) /\ Len(r) \in 1 .. WindowSize
      /\ Len(r) = IF Len(w) = WindowSize THEN Len(w) ELSE Len(w) + 1
      /\ r[Len(r)] = s
      /\ \A i \in 1 .. Len(r) - 1 : r[i] = w[i + Len(w) - Len(r) + 1]
    BY Remembered
<1>2. WindowSize \in Nat
    BY SinkAssumption DEF WindowSize
<1> HIDE DEF r
<1>3. k + 1 \in 0 .. Len(r)
    BY <1>1, <1>2
<1>4. /\ e \in Seq(Symbols) /\ Len(e) = k + 1
      /\ \A i \in 1 .. k + 1 : e[i] = r[Len(r) - (k + 1) + i]
    BY <1>1, <1>3, FinalType
<1>5. /\ f \in Seq(Symbols) /\ Len(f) = k
      /\ \A i \in 1 .. k : f[i] = w[Len(w) - k + i]
    BY FinalType
<1> HIDE DEF e, f
<1>6. \A i \in 1 .. k : e[i] = f[i]
    <2> TAKE i \in 1 .. k
    <2> DEFINE j == Len(r) - (k + 1) + i
    <2>1. j \in 1 .. Len(r) - 1 /\ j + Len(w) - Len(r) + 1 = Len(w) - k + i
        <3>1. Len(w) \in Nat /\ Len(r) \in Nat /\ k \in Nat /\ i \in Nat /\ k + 1 <= Len(r)
            BY <1>1, <1>2, <1>3
        <3> QED
            BY <3>1
    <2>2. e[i] = r[j]
        BY <1>4
    <2> HIDE DEF j
    <2> QED
        BY <1>1, <1>5, <2>1, <2>2
<1>7. e[k + 1] = s
    BY <1>1, <1>3, <1>4
<1> QED
    BY <1>4, <1>5, <1>6, <1>7 DEF e, f, r

\* What lies before the new symbol is what lay there before.
LEMMA PartOfAppend ==
    ASSUME NEW f \in Seq(Symbols), NEW s \in Symbols, NEW a \in Nat \ {0}
    PROVE  /\ \A b \in 0 .. Len(f) : SubSeq(Append(f, s), a, b) = SubSeq(f, a, b)
           /\ a <= Len(f) + 1 =>
                 SubSeq(Append(f, s), a, Len(f) + 1) = Append(SubSeq(f, a, Len(f)), s)
OBVIOUS

\* One past the end there is nothing.
LEMMA PartOfNothing ==
    ASSUME NEW f \in Seq(Symbols)
    PROVE  SubSeq(f, Len(f) + 1, Len(f)) = <<>> /\ SubSeq(f, 1, Len(f)) = f
           /\ Final(f, 0) = <<>>
<1>1. SubSeq(f, Len(f) + 1, Len(f)) \in Seq(Symbols)
      /\ Len(SubSeq(f, Len(f) + 1, Len(f))) = 0
    OBVIOUS
<1>2. Final(f, 0) = SubSeq(f, Len(f) + 1, Len(f))
    BY DEF Final
<1> QED
    BY <1>1, <1>2, EmptySequence

-----------------------------------------------------------------------------
(***************************************************************************)
(* The search.                                                             *)
(***************************************************************************)
\* Where fewer symbols than the SFD has follow the zeros, it was not heard.
LEMMA NotYet ==
    ASSUME NEW w \in Seq(Symbols), NEW n \in 0 .. ByteBits - 1,
           \A i \in 1 .. Len(w) - n : w[i] = 0
    PROVE  ~SyncHeard(w)
<1> SUFFICES ASSUME SyncHeard(w) PROVE FALSE
    OBVIOUS
<1> DEFINE f == Final(w, ByteBits)
<1>1. Len(w) = PreambleBits + ByteBits /\ ByteBits \in 0 .. Len(w)
    BY SinkAssumption DEF SyncHeard, WindowSize
<1>2. /\ f \in Seq(Symbols) /\ Len(f) = ByteBits
      /\ \A i \in 1 .. ByteBits : f[i] = w[Len(w) - ByteBits + i]
    BY <1>1, FinalType
<1>3. Value(f) = SyncVector
    BY DEF SyncHeard
<1> HIDE DEF f
<1>4. f[1] = 1
    <2>1. f \in [1 .. ByteBits -> Symbols]
        BY <1>2
    <2> QED
        BY <1>3, <2>1, ByteAssumption
<1>5. f[1] = w[PreambleBits + 1]
    <2>1. 1 \in 1 .. ByteBits /\ Len(w) - ByteBits + 1 = PreambleBits + 1
        BY <1>1, SinkAssumption
    <2> QED
        BY <1>2, <2>1
<1>6. PreambleBits + 1 \in 1 .. Len(w) - n
    BY <1>1, SinkAssumption
<1> QED
    BY <1>4, <1>5, <1>6

\* The search in the order its symbols came, with the history made constants:
\* w is the window, n the bits of the SFD, s the symbol now heard.
Zeros(w, n) == \A i \in 1 .. Len(w) - n : w[i] = 0

\* A zero in front of the SFD leaves nothing but zeros.
LEMMA ZeroHeard ==
    ASSUME NEW w \in Seq(Symbols), Len(w) <= WindowSize, Zeros(w, 0)
    PROVE  Zeros(Remember(Append(w, 0)), 0)
<1> DEFINE r == Remember(Append(w, 0))
<1>1. /\ r \in Seq(Symbols) /\ Len(r) \in 1 .. WindowSize
      /\ Len(r) = IF Len(w) = WindowSize THEN Len(w) ELSE Len(w) + 1
      /\ r[Len(r)] = 0
      /\ \A i \in 1 .. Len(r) - 1 : r[i] = w[i + Len(w) - Len(r) + 1]
    BY Remembered DEF Symbols
<1> HIDE DEF r
<1>2. ASSUME NEW i \in 1 .. Len(r) - 1
      PROVE  r[i] = 0
    <2>1. i + Len(w) - Len(r) + 1 \in 1 .. Len(w) - 0
        BY <1>1
    <2> QED
        BY <1>1, <2>1 DEF Zeros
<1>3. \A i \in 1 .. Len(r) - 0 : r[i] = 0
    BY <1>1, <1>2
<1> QED
    BY <1>3 DEF Zeros, r

\* A bit of the SFD moves the zeros one on, and is the first of it or follows it.
LEMMA SfdBitHeard ==
    ASSUME NEW w \in Seq(Symbols), Len(w) <= WindowSize, NEW s \in Symbols,
           NEW n \in 0 .. ByteBits - 1, Zeros(w, n), Len(w) >= PreambleBits + n,
           n > 0 => w[Len(w) - n + 1] = 1, n = 0 => s = 1
    PROVE  LET r == Remember(Append(w, s))
           IN  /\ Zeros(r, n + 1) /\ Len(r) >= PreambleBits + n + 1
               /\ r[Len(r) - (n + 1) + 1] = 1
               /\ Value(Final(r, n + 1)) = 2 * Value(Final(w, n)) + s
<1> DEFINE r == Remember(Append(w, s))
<1>1. /\ r \in Seq(Symbols) /\ Len(r) \in 1 .. WindowSize
      /\ Len(r) = IF Len(w) = WindowSize THEN Len(w) ELSE Len(w) + 1
      /\ r[Len(r)] = s
      /\ \A i \in 1 .. Len(r) - 1 : r[i] = w[i + Len(w) - Len(r) + 1]
    BY Remembered
<1>2. /\ Len(w) \in Nat /\ PreambleBits \in Nat \ {0} /\ ByteBits \in Nat
      /\ WindowSize = PreambleBits + ByteBits /\ n \in 0 .. Len(w) /\ n < WindowSize
    BY SinkAssumption DEF WindowSize
<1>3. Final(r, n + 1) = Append(Final(w, n), s)
    BY <1>2, FinalOfRemembered
<1>4. Value(Final(r, n + 1)) = 2 * Value(Final(w, n)) + s
    <2>1. Final(w, n) \in Seq(Int) /\ s \in Int
        BY <1>2, FinalType, SymbolsAreIntegers DEF Symbols
    <2> HIDE DEF r
    <2> QED
        BY <1>3, <2>1, ValueAppend
<1> HIDE DEF r
<1>5. Len(r) >= PreambleBits + n + 1
    BY <1>1, <1>2
<1>6. ASSUME NEW i \in 1 .. Len(r) - (n + 1)
      PROVE  r[i] = 0
    <2>1. i \in 1 .. Len(r) - 1 /\ i + Len(w) - Len(r) + 1 \in 1 .. Len(w) - n
        BY <1>1, <1>2
    <2> QED
        BY <1>1, <2>1 DEF Zeros
<1>7. r[Len(r) - (n + 1) + 1] = 1
    <2>1. Len(r) - (n + 1) + 1 = Len(r) - n
        BY <1>1
    <2>2. CASE n = 0
        BY <1>1, <2>1, <2>2
    <2>3. CASE n > 0
        <3> DEFINE j == Len(r) - n
        <3>1. j \in 1 .. Len(r) - 1 /\ j + Len(w) - Len(r) + 1 = Len(w) - n + 1
            <4>1. Len(r) \in Nat /\ n \in Nat
                BY <1>1
            <4> QED
                BY <1>2, <1>5, <2>3, <4>1
        <3>2. r[j] = w[j + Len(w) - Len(r) + 1]
            BY <1>1, <3>1
        <3> HIDE DEF j
        <3> QED
            BY <2>1, <2>3, <3>1, <3>2 DEF j
    <2> QED
        BY <2>2, <2>3
<1> QED
    BY <1>4, <1>5, <1>6, <1>7 DEF Zeros, r

-----------------------------------------------------------------------------
(***************************************************************************)
(* The fields.                                                             *)
(***************************************************************************)
\* Bytes end behind one another.
LEMMA ByteEndsOrdered ==
    ASSUME NEW n \in Nat, NEW i \in 1 .. n
    PROVE  /\ (i - 1) * ByteBits + 1 \in Nat \ {0} /\ i * ByteBits \in Nat
           /\ i * ByteBits <= ByteBits * n
<1>1. ByteBits \in Nat
    BY SinkAssumption
<1>2. i \in Nat /\ i - 1 \in Nat /\ n - i \in Nat
    OBVIOUS
<1>3. (i - 1) * ByteBits \in Nat /\ i * ByteBits \in Nat /\ (n - i) * ByteBits \in Nat
    BY <1>1, <1>2
<1>4. ByteBits * n = i * ByteBits + (n - i) * ByteBits
    BY <1>1, <1>2
<1> QED
    BY <1>3, <1>4

\* The bytes that are complete are not changed by the symbols that follow.
LEMMA BytesStay ==
    ASSUME NEW f \in Seq(Symbols), NEW s \in Symbols, NEW n \in Nat, Len(f) >= ByteBits * n
    PROVE  \A i \in 1 .. n : ByteAt(Append(f, s), i) = ByteAt(f, i)
<1> TAKE i \in 1 .. n
<1>1. /\ (i - 1) * ByteBits + 1 \in Nat \ {0} /\ i * ByteBits \in Nat
      /\ i * ByteBits <= ByteBits * n /\ ByteBits * n \in Nat
    BY ByteEndsOrdered, SinkAssumption
<1>2. i * ByteBits \in 0 .. Len(f)
    BY <1>1
<1>3. SubSeq(Append(f, s), (i - 1) * ByteBits + 1, i * ByteBits)
        = SubSeq(f, (i - 1) * ByteBits + 1, i * ByteBits)
    BY <1>1, <1>2, PartOfAppend
<1> QED
    BY <1>3 DEF ByteAt

\* The byte that a symbol completes is the bits since the last one, and that symbol.
LEMMA ByteCompleted ==
    ASSUME NEW f \in Seq(Symbols), NEW s \in Symbols, NEW n \in Nat,
           Len(f) + 1 = ByteBits * n + ByteBits
    PROVE  LET b == ByteAt(Append(f, s), n + 1)
           IN  b = 2 * Value(SubSeq(f, ByteBits * n + 1, Len(f))) + s /\ b < ByteSize
<1> DEFINE a    == ByteBits * n + 1
           rest == SubSeq(f, a, Len(f))
           bits == Append(rest, s)
<1>1. /\ ByteBits \in Nat \ {0, 1} /\ ByteBits * n \in Nat
      /\ ((n + 1) - 1) * ByteBits = ByteBits * n
      /\ (n + 1) * ByteBits = ByteBits * n + ByteBits
    BY SinkAssumption
<1>2. a \in Nat \ {0} /\ a <= Len(f) + 1 /\ (n + 1) * ByteBits = Len(f) + 1
      /\ Len(f) - a + 1 = ByteBits - 1
    BY <1>1
<1>3. rest \in Seq(Symbols) /\ Len(rest) = ByteBits - 1
    <2> HIDE DEF a
    <2> QED
        BY <1>1, <1>2
<1>4. ByteAt(Append(f, s), n + 1) = Value(bits)
    <2>1. ByteAt(Append(f, s), n + 1) = Value(SubSeq(Append(f, s), a, Len(f) + 1))
        BY <1>1, <1>2 DEF ByteAt
    <2>2. SubSeq(Append(f, s), a, Len(f) + 1) = bits
        <3> HIDE DEF a
        <3> QED
            BY <1>2, PartOfAppend
    <2> HIDE DEF a, rest, bits
    <2> QED
        BY <2>1, <2>2
<1> HIDE DEF a, rest
<1>5. Value(bits) = 2 * Value(rest) + s
    <2>1. rest \in Seq(Int) /\ s \in Int
        BY <1>3, SymbolsAreIntegers DEF Symbols
    <2> QED
        BY <2>1, ValueAppend
<1>6. bits \in [1 .. ByteBits -> Symbols]
    <2>1. bits \in Seq(Symbols) /\ Len(bits) = ByteBits
        BY <1>1, <1>3
    <2> HIDE DEF bits
    <2> QED
        BY <2>1
<1> HIDE DEF bits
<1>7. Value(bits) < ByteSize
    BY <1>6, ByteAssumption
<1> QED
    BY <1>4, <1>5, <1>7 DEF a, rest

\* The byte that StoreByte stores: what the symbols since the SFD spell.
LEMMA StoredBits ==
    ASSUME IInv, HistoryInv, NEW c \in Chips, StoreByte(c)
    PROVE  LET bits == Append(field, Heard(c))
           IN  /\ bits \in Seq(Symbols) /\ d_packetlen_cnt \in Nat
               /\ Len(bits) = ByteBits * (1 + (d_packetlen_cnt + 1))
               /\ d_packetlen = ByteAt(bits, 1)
               /\ \A n \in 1 .. d_packetlen_cnt + 1 : d_packet'[n - 1] = ByteAt(bits, n + 1)
<1> DEFINE s    == Heard(c)
           bits == Append(field, s)
           cnt  == d_packetlen_cnt
<1>1. s \in Symbols /\ field \in Seq(Symbols) /\ loop = STATE_HAVE_HEADER
    BY HeardType DEF StoreByte, FieldSymbol, HistoryInv
<1>2. /\ cnt \in Cells /\ cnt \in Nat /\ d_byte \in Nat /\ nbr_bits = ByteBits - 1
      /\ d_packet \in [Cells -> Byte \cup Garbage]
      /\ d_packet' = [d_packet EXCEPT ![cnt] = (2 * d_byte + s) % ByteSize]
    BY <1>1, SinkAssumption
    DEF StoreByte, FieldSymbol, IInv, TypeOK, BodyInBounds, NothingUninitialised, Cells, PushBit
<1>3. /\ Len(field) = Stored + nbr_bits
      /\ d_packetlen = ByteAt(field, 1)
      /\ \A n \in 1 .. cnt : d_packet[n - 1] = ByteAt(field, n + 1)
      /\ d_byte = Value(SubSeq(field, Stored + 1, Len(field)))
    BY <1>1 DEF HistoryInv, FieldFollows
<1>4. /\ ByteBits \in Nat \ {0, 1} /\ Stored = ByteBits * (cnt + 1) /\ Stored \in Nat
      /\ ByteBits * (1 + (cnt + 1)) = Stored + ByteBits
    BY <1>2, SinkAssumption DEF Stored
<1>5. Len(field) + 1 = ByteBits * (cnt + 1) + ByteBits /\ Len(field) >= ByteBits * (cnt + 1)
    BY <1>2, <1>3, <1>4
<1> HIDE DEF s, cnt
<1>6. bits \in Seq(Symbols) /\ Len(bits) = ByteBits * (1 + (cnt + 1))
    BY <1>1, <1>4, <1>5
<1>7. \A i \in 1 .. cnt + 1 : ByteAt(bits, i) = ByteAt(field, i)
    BY <1>1, <1>2, <1>5, BytesStay
<1>8. /\ ByteAt(bits, cnt + 2) = 2 * d_byte + s /\ 2 * d_byte + s < ByteSize
    <2>1. (cnt + 1) + 1 = cnt + 2 /\ cnt + 1 \in Nat
        BY <1>2
    <2>2. d_byte = Value(SubSeq(field, ByteBits * (cnt + 1) + 1, Len(field)))
        BY <1>3, <1>4
    <2> HIDE DEF bits
    <2>3. /\ ByteAt(Append(field, s), (cnt + 1) + 1) = 2 * d_byte + s
          /\ ByteAt(Append(field, s), (cnt + 1) + 1) < ByteSize
        BY <1>1, <1>5, <2>1, <2>2, ByteCompleted
    <2> QED
        BY <2>1, <2>3 DEF bits
<1> HIDE DEF bits
<1>9. d_packet'[cnt] = ByteAt(bits, cnt + 2)
    <2>1. (2 * d_byte + s) % ByteSize = 2 * d_byte + s
        BY <1>1, <1>2, <1>8, SinkAssumption DEF Symbols
    <2> QED
        BY <1>2, <1>8, <2>1
<1>10. ASSUME NEW n \in 1 .. cnt + 1
       PROVE  d_packet'[n - 1] = ByteAt(bits, n + 1)
    <2>1. CASE n = cnt + 1
        <3>1. n - 1 = cnt /\ n + 1 = cnt + 2
            BY <1>2, <2>1
        <3> QED
            BY <1>9, <3>1
    <2>2. CASE n \in 1 .. cnt
        <3>1. n + 1 \in 1 .. cnt + 1 /\ n - 1 \in Cells /\ n - 1 # cnt
            BY <1>2, <2>2, SinkAssumption DEF Cells
        <3>2. d_packet'[n - 1] = d_packet[n - 1]
            BY <1>2, <3>1
        <3> QED
            BY <1>3, <1>7, <2>2, <3>1, <3>2
    <2> QED
        BY <1>2, <2>1, <2>2
<1>11. d_packetlen = ByteAt(bits, 1)
    BY <1>2, <1>3, <1>7
<1> QED
    BY <1>2, <1>6, <1>10, <1>11 DEF bits, s, cnt

-----------------------------------------------------------------------------
(***************************************************************************)
(* The invariant.                                                          *)
(***************************************************************************)
\* A search that starts over has heard nothing.
LEMMA SearchAnew ==
    IInv /\ loop = STATE_SYNC_SEARCH /\ bit_breamble = 0 /\ ~find_preamble
         /\ window = <<>> /\ field = <<>> => HistoryInv
<1> SUFFICES ASSUME IInv, loop = STATE_SYNC_SEARCH, bit_breamble = 0, ~find_preamble,
                    window = <<>>, field = <<>>
             PROVE  HistoryInv
    OBVIOUS
<1>1. /\ window \in Seq(Symbols) /\ Len(window) = 0 /\ field \in Seq(Symbols)
      /\ Len(window) <= WindowSize
    BY SinkAssumption DEF WindowSize
<1>2. ~first_found /\ nbr_bit_sfd = 0 /\ bit_sfd = 0
    BY DEF IInv, LoopMatchesState, SearchCoherent, TypeOK
<1>3. Value(Final(window, nbr_bit_sfd)) = 0
    BY <1>1, <1>2, PartOfNothing, ValueOfNothing
<1>4. SearchFollows
    BY <1>1, <1>2, <1>3 DEF SearchFollows
<1> QED
    BY <1>1, <1>4 DEF HistoryInv, GivenUpClean, FieldFollows, STATE_SYNC_SEARCH,
       STATE_HAVE_SYNC, STATE_HAVE_HEADER

LEMMA InitHistory == HistoryInit => HistoryInv
BY SearchAnew, InitIInv DEF HistoryInit, Init

\* The search preserves it.
LEMMA SearchHistoryInv ==
    ASSUME IInv, IInv', HistoryInv, NEW c \in Chips, NEW last \in BOOLEAN,
           SearchHistory(c, last)
    PROVE  HistoryInv'
<1> DEFINE s == Heard(c)
           r == Remember(Append(window, s))
           n == nbr_bit_sfd
<1> USE DEF STATE_SYNC_SEARCH, STATE_HAVE_SYNC, STATE_HAVE_HEADER
<1>a. loop = STATE_SYNC_SEARCH /\ d_state = STATE_SYNC_SEARCH
    BY DEF SearchHistory, SearchChip, PreambleZero, PreambleBroken, SkipZero, SfdBit,
       SfdFound, SfdWrong, SfdSymbol, IInv, LoopMatchesState
<1>b. /\ window \in Seq(Symbols) /\ Len(window) <= WindowSize /\ field = <<>>
      /\ Zeros(window, n)
      /\ IF find_preamble THEN Len(window) >= PreambleBits + n
                          ELSE Len(window) = bit_breamble
      /\ first_found => window[Len(window) - n + 1] = 1
      /\ Value(Final(window, n)) = bit_sfd
    BY <1>a DEF HistoryInv, SearchFollows, Zeros
<1>c. /\ find_preamble \in BOOLEAN /\ search_sfd \in BOOLEAN /\ first_found \in BOOLEAN
      /\ find_preamble <=> search_sfd
      /\ ~find_preamble => ~first_found
      /\ n \in 0 .. ByteBits - 1
      /\ first_found => n > 0
      /\ ~first_found => n = 0 /\ bit_sfd = 0
      /\ bit_breamble \in 0 .. PreambleBits - 1
    <2>1. /\ find_preamble \in BOOLEAN /\ search_sfd \in BOOLEAN /\ first_found \in BOOLEAN
          /\ bit_breamble \in 0 .. PreambleBits - 1
          /\ n \in 0 .. ByteBits - 1 /\ bit_sfd \in Nat
        BY DEF IInv, TypeOK
    <2>2. /\ find_preamble <=> search_sfd
          /\ ~find_preamble => ~first_found
        BY <1>a DEF IInv, SearchCoherent
    <2>3. first_found => n > 0
        BY <1>a DEF IInv, SearchCoherent
    <2>4. ~first_found => ~(n > 0) /\ ~(bit_sfd > 0)
        BY <1>a, Zenon DEF IInv, SearchCoherent
    <2> HIDE DEF n
    <2>5. ~first_found => n = 0 /\ bit_sfd = 0
        BY <2>1, <2>4, SinkAssumption
    <2> QED
        BY <2>1, <2>2, <2>3, <2>5
<1>d. /\ PreambleBits \in Nat \ {0} /\ ByteBits \in Nat \ {0, 1}
      /\ WindowSize = PreambleBits + ByteBits
    BY SinkAssumption DEF WindowSize
<1>e. ASSUME SearchFollows', loop' = STATE_SYNC_SEARCH,
             window' \in Seq(Symbols), Len(window') <= WindowSize, field' = field
      PROVE  HistoryInv'
    BY <1>b, <1>e DEF HistoryInv, GivenUpClean, FieldFollows
<1>f. ASSUME s \in Symbols
      PROVE  /\ r \in Seq(Symbols) /\ Len(r) \in 1 .. WindowSize
             /\ Len(r) = IF Len(window) = WindowSize THEN Len(window) ELSE Len(window) + 1
    BY <1>b, <1>f, Remembered
<1> HIDE DEF r
<1>1. CASE SearchChip(c, last) /\ UNCHANGED <<window, field>>
    <2>1. loop' = STATE_SYNC_SEARCH /\ SearchFollows'
        BY <1>1, <1>a DEF SearchChip, NoBreak, searchVars, HistoryInv, SearchFollows
    <2> QED
        BY <1>1, <1>b, <1>e, <2>1
<1>2. CASE /\ PreambleBroken(c) \/ SfdWrong(c)
           /\ window' = <<>> /\ UNCHANGED field
    <2>1. loop' = STATE_SYNC_SEARCH /\ bit_breamble' = 0 /\ ~find_preamble'
        BY <1>2 DEF PreambleBroken, SfdWrong, enter_search, Break
    <2>2. (IInv /\ loop = STATE_SYNC_SEARCH /\ bit_breamble = 0 /\ ~find_preamble
                /\ window = <<>> /\ field = <<>> => HistoryInv)'
        BY SearchAnew, PTL
    <2> QED
        BY <1>2, <1>b, <2>1, <2>2
<1>3. CASE PreambleZero(c, last) /\ window' = r /\ UNCHANGED field
    <2>1. s = 0 /\ s \in Symbols /\ n = 0 /\ ~first_found /\ ~find_preamble /\ bit_sfd = 0
        BY <1>3, <1>c DEF PreambleZero, Symbols
    <2>2. /\ loop' = STATE_SYNC_SEARCH /\ nbr_bit_sfd' = 0 /\ ~first_found' /\ bit_sfd' = 0
          /\ IF bit_breamble + 1 = PreambleBits THEN find_preamble'
             ELSE ~find_preamble' /\ bit_breamble' = bit_breamble + 1
        BY <1>3, <1>a, <2>1 DEF PreambleZero, NoBreak
    <2>3. Zeros(r, 0)
        BY <1>b, <2>1, ZeroHeard DEF r
    <2>4. r \in Seq(Symbols) /\ Len(r) = bit_breamble + 1 /\ Len(r) <= WindowSize
        BY <1>b, <1>c, <1>d, <1>f, <2>1
    <2>5. Value(Final(r, 0)) = 0
        BY <2>4, PartOfNothing, ValueOfNothing
    <2>6. SearchFollows'
        BY <1>3, <1>b, <1>d, <2>2, <2>3, <2>4, <2>5 DEF SearchFollows, Zeros
    <2> QED
        BY <1>3, <1>e, <2>2, <2>4, <2>6
<1>4. CASE SkipZero(c, last) /\ window' = r /\ UNCHANGED field
    <2>1. s = 0 /\ s \in Symbols /\ n = 0 /\ ~first_found /\ find_preamble /\ bit_sfd = 0
        BY <1>4, <1>c, HeardType DEF SkipZero, SfdStarts, Symbols
    <2>2. /\ loop' = STATE_SYNC_SEARCH
          /\ UNCHANGED <<find_preamble, first_found, bit_sfd, nbr_bit_sfd>>
        BY <1>4, <1>a DEF SkipZero, searchVars, NoBreak
    <2>3. Zeros(r, 0)
        BY <1>b, <2>1, ZeroHeard DEF r
    <2>4. r \in Seq(Symbols) /\ Len(r) >= PreambleBits /\ Len(r) <= WindowSize
        BY <1>b, <1>d, <1>f, <2>1
    <2>5. Value(Final(r, 0)) = 0
        BY <2>4, PartOfNothing, ValueOfNothing
    <2>6. SearchFollows'
        BY <1>4, <1>b, <1>d, <2>1, <2>2, <2>3, <2>4, <2>5 DEF SearchFollows, Zeros
    <2> QED
        BY <1>4, <1>e, <2>2, <2>4, <2>6
<1>5. CASE SfdBit(c, last) /\ window' = r /\ UNCHANGED field
    <2>1. /\ s \in Symbols /\ find_preamble /\ n + 1 # ByteBits
          /\ first_found \/ (s = 1 /\ n = 0)
        BY <1>5, HeardType DEF SfdBit, SfdSymbol, SfdStarts
    <2>2. /\ loop' = STATE_SYNC_SEARCH /\ find_preamble' /\ first_found'
          /\ nbr_bit_sfd' = n + 1 /\ bit_sfd' = 2 * bit_sfd + s
        BY <1>5, <1>a, <2>1 DEF SfdBit, NoBreak
    <2>3. /\ Zeros(r, n + 1) /\ Len(r) >= PreambleBits + n + 1
          /\ r[Len(r) - (n + 1) + 1] = 1
          /\ Value(Final(r, n + 1)) = 2 * bit_sfd + s
        <3>1. n > 0 => window[Len(window) - n + 1] = 1
            BY <1>b, <1>c
        <3>2. n = 0 => s = 1
            BY <1>c, <2>1
        <3> HIDE DEF n, s
        <3> QED
            BY <1>b, <1>c, <2>1, <3>1, <3>2, SfdBitHeard DEF r
    <2>4. SearchFollows'
        BY <1>5, <1>b, <1>c, <1>d, <2>2, <2>3 DEF SearchFollows, Zeros
    <2> QED
        BY <1>5, <1>e, <1>f, <2>1, <2>2, <2>4
<1>6. CASE SfdFound(c) /\ window' = r /\ UNCHANGED field
    <2>1. s \in Symbols
        BY <1>6, HeardType DEF SfdFound, SfdSymbol
    <2>2. loop' = STATE_HAVE_SYNC /\ d_state' = STATE_HAVE_SYNC /\ nbr_bits' = 0 /\ byte' = 0
        BY <1>6 DEF SfdFound, enter_have_sync, Break
    <2>3. field' = <<>> /\ field' \in Seq(Symbols) /\ Len(field') = 0 /\ Value(field') = 0
        BY <1>6, <1>b, ValueOfNothing
    <2> QED
        BY <1>6, <1>f, <2>1, <2>2, <2>3 DEF HistoryInv, SearchFollows, GivenUpClean, FieldFollows
<1> QED
    BY <1>1, <1>2, <1>3, <1>4, <1>5, <1>6 DEF SearchHistory, r

\* So do the fields.
LEMMA FieldHistoryInv ==
    ASSUME IInv, IInv', HistoryInv, NEW c \in Chips, NEW last \in BOOLEAN,
           FieldHistory(c, last)
    PROVE  HistoryInv'
<1> DEFINE s    == Heard(c)
           bits == Append(field, s)
<1> USE DEF STATE_SYNC_SEARCH, STATE_HAVE_SYNC, STATE_HAVE_HEADER
<1>a. /\ window \in Seq(Symbols) /\ Len(window) <= WindowSize /\ field \in Seq(Symbols)
      /\ GivenUpClean /\ FieldFollows
    BY DEF HistoryInv
<1>b. ByteBits \in Nat \ {0, 1}
    BY SinkAssumption
\* A field that is left ends in a search that starts over.
<1>c. ASSUME loop' = STATE_SYNC_SEARCH, bit_breamble' = 0, ~find_preamble'
      PROVE  HistoryInv'
    <2>1. window' = <<>> /\ field' = <<>>
        BY <1>c DEF FieldHistory, InField
    <2>2. (IInv /\ loop = STATE_SYNC_SEARCH /\ bit_breamble = 0 /\ ~find_preamble
                /\ window = <<>> /\ field = <<>> => HistoryInv)'
        BY SearchAnew, PTL
    <2> QED
        BY <1>c, <2>1, <2>2
\* It was left without a break when it had been given up before.
<1>d. ASSUME loop # STATE_SYNC_SEARCH, UNCHANGED <<d_state, searchVars>>, NoBreak(last),
             loop' # loop
      PROVE  HistoryInv'
    <2>1. loop' = STATE_SYNC_SEARCH /\ d_state = STATE_SYNC_SEARCH
        BY <1>d DEF NoBreak, IInv, LoopMatchesState
    <2>2. bit_breamble' = 0 /\ ~find_preamble'
        BY <1>a, <1>d, <2>1 DEF GivenUpClean, searchVars
    <2> QED
        BY <1>c, <2>1, <2>2
\* And has its bits as long as its loop goes on.
<1>e. ASSUME loop' # STATE_SYNC_SEARCH, GivenUpClean', FieldFollows', field' \in Seq(Symbols)
      PROVE  HistoryInv'
    <2>1. window' = window
        BY <1>e DEF FieldHistory, InField
    <2> QED
        BY <1>a, <1>e, <2>1 DEF HistoryInv, SearchFollows
<1>f. ASSUME s \in Symbols
      PROVE  /\ bits \in Seq(Symbols) /\ Len(bits) = Len(field) + 1 /\ field \in Seq(Int)
             /\ s \in Int /\ Value(bits) = 2 * Value(field) + s
    <2>1. field \in Seq(Int) /\ s \in Int
        BY <1>a, <1>f, SymbolsAreIntegers DEF Symbols
    <2> HIDE DEF s
    <2>2. Value(bits) = 2 * Value(field) + s
        BY <2>1, ValueAppend
    <2>3. bits \in Seq(Symbols) /\ Len(bits) = Len(field) + 1
        BY <1>a, <1>f
    <2> QED
        BY <2>1, <2>2, <2>3
<1> HIDE DEF bits
<1>1. CASE /\ FieldChip(c, last) \/ FieldAbort(c, last)
           /\ field' = IF InField THEN field ELSE <<>>
    <2>1. CASE FieldAbort(c, last) /\ loop' = STATE_SYNC_SEARCH
        BY <1>c, <2>1 DEF FieldAbort, enter_search
    <2>2. CASE FieldChip(c, last) /\ loop' # loop
        BY <1>d, <2>2 DEF FieldChip
    <2>3. CASE loop' = loop
        <3>1. /\ loop' # STATE_SYNC_SEARCH /\ UNCHANGED <<phrVars, bodyVars, field>>
            BY <1>1, <2>3 DEF FieldChip, FieldAbort, InField
        <3>2. FieldFollows'
            BY <1>a, <2>3, <3>1 DEF FieldFollows, phrVars, bodyVars, Stored
        <3>3. GivenUpClean'
            BY <1>1, <1>a DEF FieldChip, FieldAbort, enter_search, searchVars, GivenUpClean
        <3> QED
            BY <1>a, <1>e, <3>1, <3>2, <3>3
    <2>4. FieldAbort(c, last) => loop' \in {loop, STATE_SYNC_SEARCH}
        BY DEF FieldAbort, enter_search, NoBreak
    <2> QED
        BY <1>1, <2>1, <2>2, <2>3, <2>4
<1>2. CASE PhrRejected(c) \/ PayloadDone(c)
    <2>1. loop' = STATE_SYNC_SEARCH /\ bit_breamble' = 0 /\ ~find_preamble'
        BY <1>2 DEF PhrRejected, PayloadDone, enter_search, Break
    <2> QED
        BY <1>c, <2>1
<1>3. CASE PhrBit(c, last) /\ field' = IF InField THEN bits ELSE <<>>
    <2>1. /\ loop = STATE_HAVE_SYNC /\ s \in Symbols /\ NoBreak(last)
          /\ UNCHANGED <<d_state, searchVars>>
          /\ byte' = 2 * byte + s /\ nbr_bits' = nbr_bits + 1
        BY <1>3, HeardType DEF PhrBit, FieldSymbol, PushBit
    <2>2. CASE loop' = loop
        <3>1. field' = bits
            BY <1>3, <2>1, <2>2 DEF InField
        <3>2. FieldFollows'
            BY <1>a, <1>f, <2>1, <2>2, <3>1 DEF FieldFollows
        <3>3. GivenUpClean'
            BY <1>a, <2>1, <2>2 DEF GivenUpClean, searchVars
        <3> QED
            BY <1>e, <1>f, <2>1, <2>2, <3>1, <3>2, <3>3
    <2> QED
        BY <1>d, <2>1, <2>2
<1>4. CASE PhrAccepted(c) /\ field' = IF InField THEN bits ELSE <<>>
    <2>1. /\ loop = STATE_HAVE_SYNC /\ s \in Symbols /\ nbr_bits + 1 = ByteBits
          /\ loop' = STATE_HAVE_HEADER /\ d_state' = STATE_HAVE_HEADER
          /\ d_packetlen' = 2 * byte + s /\ d_packetlen_cnt' = 0
          /\ d_byte' = 0 /\ nbr_bits' = 0
        BY <1>4, HeardType
        DEF PhrAccepted, FieldSymbol, PushBit, enter_have_header, Break, IInv, NothingUninitialised
    <2>2. field' = bits /\ Len(field) = nbr_bits /\ byte = Value(field)
        BY <1>4, <1>a, <2>1 DEF InField, FieldFollows
    <2>3. bits \in Seq(Symbols) /\ Len(bits) = ByteBits /\ Value(bits) = 2 * byte + s
        <3>1. nbr_bits \in Nat
            BY <1>a, <2>2
        <3> QED
            BY <1>b, <1>f, <2>1, <2>2, <3>1
    <2>4. Stored' = ByteBits
        BY <1>b, <2>1 DEF Stored
    <2>5. ByteAt(bits, 1) = Value(bits)
        <3>1. (1 - 1) * ByteBits + 1 = 1 /\ 1 * ByteBits = Len(bits)
            BY <1>b, <2>3
        <3>2. SubSeq(bits, 1, Len(bits)) = bits
            BY <2>3, PartOfNothing
        <3> QED
            BY <3>1, <3>2 DEF ByteAt
    <2>6. Value(SubSeq(bits, ByteBits + 1, Len(bits))) = 0
        BY <2>3, PartOfNothing, ValueOfNothing
    <2>7. FieldFollows'
        BY <1>b, <2>1, <2>2, <2>3, <2>4, <2>5, <2>6 DEF FieldFollows
    <2> QED
        BY <1>e, <2>1, <2>2, <2>3, <2>7 DEF GivenUpClean
<1>5. CASE PayloadBit(c, last) /\ field' = IF InField THEN bits ELSE <<>>
    <2>1. /\ loop = STATE_HAVE_HEADER /\ s \in Symbols /\ NoBreak(last)
          /\ UNCHANGED <<d_state, searchVars, d_packet, d_packetlen, d_packetlen_cnt>>
          /\ d_byte' = 2 * d_byte + s /\ nbr_bits' = nbr_bits + 1
        BY <1>5, HeardType DEF PayloadBit, FieldSymbol, PushBit
    <2>2. CASE loop' = loop
        <3>1. field' = bits
            BY <1>5, <2>1, <2>2 DEF InField
        <3>2. /\ d_packetlen_cnt \in Nat /\ nbr_bits \in 0 .. ByteBits - 1
              /\ Stored = ByteBits * (d_packetlen_cnt + 1) /\ Stored \in Nat
              /\ Stored' = Stored
            BY <1>b, <2>1, SinkAssumption
            DEF IInv, BodyInBounds, NothingUninitialised, Cells, Stored
        <3>3. /\ Len(field) = Stored + nbr_bits
              /\ d_packetlen = ByteAt(field, 1)
              /\ \A n \in 1 .. d_packetlen_cnt : d_packet[n - 1] = ByteAt(field, n + 1)
              /\ d_byte = Value(SubSeq(field, Stored + 1, Len(field)))
            BY <1>a, <2>1 DEF FieldFollows
        <3>4. \A i \in 1 .. d_packetlen_cnt + 1 : ByteAt(bits, i) = ByteAt(field, i)
            <4>1. d_packetlen_cnt + 1 \in Nat /\ Len(field) >= ByteBits * (d_packetlen_cnt + 1)
                BY <3>2, <3>3
            <4> QED
                BY <1>a, <2>1, <4>1, BytesStay DEF bits
        <3>5. Value(SubSeq(bits, Stored + 1, Len(bits))) = 2 * d_byte + s
            <4> DEFINE rest == SubSeq(field, Stored + 1, Len(field))
            <4>1. Stored + 1 \in Nat \ {0} /\ Stored + 1 <= Len(field) + 1
                BY <3>2, <3>3
            <4>2. SubSeq(bits, Stored + 1, Len(field) + 1) = Append(rest, s)
                BY <1>a, <2>1, <4>1, PartOfAppend DEF bits
            <4>3. rest \in Seq(Int)
                BY <1>a, <4>1 DEF Symbols
            <4> HIDE DEF rest
            <4>4. Value(Append(rest, s)) = 2 * Value(rest) + s
                BY <1>f, <2>1, <4>3, ValueAppend
            <4> QED
                BY <1>f, <2>1, <3>3, <4>2, <4>4 DEF rest
        <3>6. FieldFollows'
            <4>1. Len(field') = Stored' + nbr_bits'
                <5>1. Len(field') = Len(field) + 1
                    BY <1>f, <2>1, <3>1
                <5>2. nbr_bits \in Nat /\ Stored \in Nat /\ nbr_bits' = nbr_bits + 1
                      /\ Stored' = Stored /\ Len(field) = Stored + nbr_bits
                    BY <2>1, <3>2, <3>3
                <5> QED
                    BY <5>1, <5>2
            <4>2. d_packetlen' = ByteAt(field', 1)
                BY <2>1, <3>1, <3>2, <3>3, <3>4
            <4>3. \A n \in 1 .. d_packetlen_cnt' : d_packet'[n - 1] = ByteAt(field', n + 1)
                BY <2>1, <3>1, <3>2, <3>3, <3>4
            <4>4. d_byte' = Value(SubSeq(field', Stored' + 1, Len(field')))
                BY <2>1, <3>1, <3>2, <3>5
            <4> QED
                BY <2>1, <2>2, <4>1, <4>2, <4>3, <4>4 DEF FieldFollows
        <3>7. GivenUpClean'
            BY <1>a, <2>1, <2>2 DEF GivenUpClean, searchVars
        <3> QED
            BY <1>e, <1>f, <2>1, <2>2, <3>1, <3>6, <3>7
    <2> QED
        BY <1>d, <2>1, <2>2
<1>6. CASE PayloadByte(c, last) /\ field' = IF InField THEN bits ELSE <<>>
    <2>1. /\ loop = STATE_HAVE_HEADER /\ s \in Symbols /\ NoBreak(last) /\ StoreByte(c)
          /\ UNCHANGED <<d_state, searchVars, d_packetlen>>
          /\ d_packetlen_cnt' = d_packetlen_cnt + 1 /\ d_byte' = 0 /\ nbr_bits' = 0
        BY <1>6, HeardType DEF PayloadByte, StoreByte, FieldSymbol
    <2>2. CASE loop' = loop
        <3>1. field' = bits
            BY <1>6, <2>1, <2>2 DEF InField
        <3>2. /\ bits \in Seq(Symbols) /\ d_packetlen_cnt \in Nat
              /\ Len(bits) = ByteBits * (1 + (d_packetlen_cnt + 1))
              /\ d_packetlen = ByteAt(bits, 1)
              /\ \A n \in 1 .. d_packetlen_cnt + 1 : d_packet'[n - 1] = ByteAt(bits, n + 1)
            BY <2>1, StoredBits DEF bits
        <3>3. Stored' = Len(bits)
            BY <2>1, <3>2 DEF Stored
        <3>4. Value(SubSeq(bits, Len(bits) + 1, Len(bits))) = 0
            BY <3>2, PartOfNothing, ValueOfNothing
        <3>5. FieldFollows'
            BY <2>1, <2>2, <3>1, <3>2, <3>3, <3>4 DEF FieldFollows
        <3>6. GivenUpClean'
            BY <1>a, <2>1, <2>2 DEF GivenUpClean, searchVars
        <3> QED
            BY <1>e, <2>1, <2>2, <3>1, <3>2, <3>5, <3>6
    <2> QED
        BY <1>d, <2>1, <2>2
<1> QED
    BY <1>1, <1>2, <1>3, <1>4, <1>5, <1>6 DEF FieldHistory, bits

\* A step of the history is a step of the sink.
LEMMA HistoryIsSink == HistoryNext => Next
BY DEF HistoryNext, SearchHistory, FieldHistory, Next, Work, ChipStep

LEMMA NextHistoryInv == IInv /\ IInv' /\ HistoryInv /\ [HistoryNext]_hvars => HistoryInv'
<1> SUFFICES ASSUME IInv, IInv', HistoryInv, [HistoryNext]_hvars PROVE HistoryInv'
    OBVIOUS
<1> USE DEF HistoryInv, SearchFollows, GivenUpClean, FieldFollows, Stored
<1>1. CASE delete_head /\ UNCHANGED <<window, field>>
    BY <1>1 DEF delete_head, sinkVars, searchVars, phrVars, bodyVars
<1>2. CASE UNCHANGED hvars
    BY <1>2 DEF hvars, vars, sinkVars, searchVars, phrVars, bodyVars
<1> HIDE DEF HistoryInv
<1> QED
    BY <1>1, <1>2, SearchHistoryInv, FieldHistoryInv DEF HistoryNext

(***************************************************************************)
(* Where the search is in what it heard, and what of it the fields hold.   *)
(***************************************************************************)
THEOREM HistoryFollows == HistorySpec => [](IInv /\ HistoryInv)
<1>1. HistoryInit => IInv /\ HistoryInv
    BY InitIInv, InitHistory DEF HistoryInit
<1>2. IInv /\ HistoryInv /\ [HistoryNext]_hvars => (IInv /\ HistoryInv)'
    <2> SUFFICES ASSUME IInv, HistoryInv, [HistoryNext]_hvars PROVE IInv' /\ HistoryInv'
        OBVIOUS
    <2>1. [Next]_vars
        BY HistoryIsSink DEF hvars
    <2> QED
        BY <2>1, NextIInv, NextHistoryInv
<1> QED
    BY <1>1, <1>2, PTL DEF HistorySpec

(***************************************************************************)
(* The search hands over to the PHR with the symbol that completes a whole *)
(* preamble of zeros and the SFD behind it, and with no other.             *)
(***************************************************************************)
THEOREM Synchronises == HistorySpec => SyncIffHeard
<1> DEFINE Found == loop = STATE_SYNC_SEARCH =>
                       (loop' = STATE_HAVE_SYNC <=> SyncHeard(window'))
<1> USE DEF STATE_SYNC_SEARCH, STATE_HAVE_SYNC, STATE_HAVE_HEADER
<1>1. ASSUME IInv, HistoryInv, IInv', HistoryInv', HistoryNext, loop = STATE_SYNC_SEARCH
      PROVE  loop' = STATE_HAVE_SYNC <=> SyncHeard(window')
    <2>1. loop' = STATE_SYNC_SEARCH => ~SyncHeard(window')
        <3> SUFFICES ASSUME loop' = STATE_SYNC_SEARCH PROVE ~SyncHeard(window')
            OBVIOUS
        <3>1. window' \in Seq(Symbols) /\ nbr_bit_sfd' \in 0 .. ByteBits - 1
            BY <1>1 DEF HistoryInv, IInv, TypeOK
        <3>2. \A i \in 1 .. Len(window') - nbr_bit_sfd' : window'[i] = 0
            BY <1>1 DEF HistoryInv, SearchFollows
        <3> QED
            BY <3>1, <3>2, NotYet
    <2>2. CASE loop' = STATE_SYNC_SEARCH
        BY <2>1, <2>2
    <2>3. CASE loop' # STATE_SYNC_SEARCH
        <3>1. PICK c \in Chips, last \in BOOLEAN : SearchHistory(c, last)
            BY <1>1, <2>3 DEF HistoryNext, delete_head, sinkVars, FieldHistory, FieldChip,
               FieldAbort, PhrBit, PhrAccepted, PhrRejected, PayloadBit, PayloadByte,
               PayloadDone, StoreByte, FieldSymbol
        <3>2. d_state = STATE_SYNC_SEARCH
            BY <1>1 DEF IInv, LoopMatchesState
        <3> DEFINE s == Heard(c)
                   r == Remember(Append(window, s))
                   n == nbr_bit_sfd
        <3>3. SfdFound(c) /\ window' = r
            BY <1>1, <2>3, <3>1, <3>2
            DEF SearchHistory, SearchChip, PreambleZero, PreambleBroken, SkipZero, SfdBit,
                SfdWrong, enter_search, Break, NoBreak
        <3>4. /\ s \in Symbols /\ n + 1 = ByteBits /\ 2 * bit_sfd + s = SyncVector
              /\ find_preamble /\ loop' = STATE_HAVE_SYNC
              /\ first_found \/ (s = 1 /\ n = 0)
            BY <3>3, HeardType DEF SfdFound, SfdSymbol, SfdStarts, enter_have_sync, Break
        <3>5. /\ window \in Seq(Symbols) /\ Len(window) <= WindowSize
              /\ Zeros(window, n) /\ Len(window) >= PreambleBits + n
              /\ first_found => window[Len(window) - n + 1] = 1
              /\ Value(Final(window, n)) = bit_sfd
            <4>1. SearchFollows /\ loop = STATE_SYNC_SEARCH
                BY <1>1 DEF HistoryInv
            <4>2. Zeros(window, n) /\ Value(Final(window, n)) = bit_sfd
                BY <4>1 DEF SearchFollows, Zeros
            <4>3. Len(window) >= PreambleBits + n
                BY <4>1, <3>4 DEF SearchFollows
            <4>4. first_found => window[Len(window) - n + 1] = 1
                BY <4>1 DEF SearchFollows
            <4> QED
                BY <1>1, <4>2, <4>3, <4>4 DEF HistoryInv
        <3>6. n \in 0 .. ByteBits - 1 /\ (n > 0 => first_found) /\ (first_found => n > 0)
            <4>1. n \in 0 .. ByteBits - 1
                BY <1>1 DEF IInv, TypeOK
            <4>2. (n > 0 => first_found) /\ (first_found => n > 0)
                BY <1>1, <3>2, Zenon DEF IInv, SearchCoherent
            <4> QED
                BY <4>1, <4>2
        <3>7. (n > 0 => window[Len(window) - n + 1] = 1) /\ (n = 0 => s = 1)
            <4>1. n > 0 => window[Len(window) - n + 1] = 1
                BY <3>5, <3>6
            <4>2. n = 0 => ~first_found
                BY <3>6
            <4> QED
                BY <3>4, <4>1, <4>2
        <3> HIDE DEF r, s, n
        <3>8. /\ Zeros(r, n + 1) /\ Len(r) >= PreambleBits + n + 1
              /\ Value(Final(r, n + 1)) = SyncVector
            BY <3>4, <3>5, <3>6, <3>7, SfdBitHeard DEF r
        <3>9. Len(r) <= WindowSize /\ Len(r) \in Nat
            BY <3>4, <3>5, Remembered DEF r
        <3>10. SyncHeard(r)
            <4>1. PreambleBits \in Nat /\ ByteBits \in Nat /\ WindowSize = PreambleBits + ByteBits
                BY SinkAssumption DEF WindowSize
            <4>2. Len(r) = WindowSize
                BY <3>4, <3>6, <3>8, <3>9, <4>1
            <4>3. \A i \in 1 .. PreambleBits : r[i] = 0
                BY <3>4, <3>8, <4>1, <4>2 DEF Zeros
            <4> QED
                BY <3>4, <3>8, <4>2, <4>3 DEF SyncHeard
        <3> QED
            BY <3>3, <3>4, <3>10
    <2> QED
        BY <2>2, <2>3
<1>2. IInv /\ HistoryInv /\ IInv' /\ HistoryInv' /\ [HistoryNext]_hvars => [Found]_hvars
    BY <1>1
<1> QED
    BY <1>2, HistoryFollows, PTL DEF HistorySpec, SyncIffHeard

(***************************************************************************)
(* A message is, bit by bit, what was heard since its SFD: the length byte *)
(* and as many bytes behind it, whatever cuts and gaps lay in between.     *)
(***************************************************************************)
THEOREM DeliversHeard == HistorySpec => DeliversWhatWasHeard
<1> DEFINE Delivered(s) ==
        LET bits == Append(field, s)
            msg  == d_target_queue'[Len(d_target_queue')]
        IN  /\ Len(bits) = ByteBits * (1 + Len(msg))
            /\ Len(msg) = 1 \/ Len(msg) = ByteAt(bits, 1)
            /\ \A n \in 1 .. Len(msg) : msg[n] = ByteAt(bits, n + 1)
<1>1. ASSUME IInv, HistoryInv, HistoryNext, Len(d_target_queue') > Len(d_target_queue)
      PROVE  \E s \in Symbols : Delivered(s)
    <2>1. PICK c \in Chips : PayloadDone(c)
        <3>1. ~delete_head /\ d_target_queue' # d_target_queue
            BY <1>1 DEF delete_head, IInv, TypeOK
        <3> QED
            BY <1>1, <3>1, HistoryIsSink, OnlyDoneDelivers DEF Next, Work
    <2>2. StoreByte(c) /\ Heard(c) \in Symbols
        BY <2>1, HeardType DEF PayloadDone, StoreByte, FieldSymbol
    <2> DEFINE s    == Heard(c)
               bits == Append(field, s)
               msg  == Message(d_packet', d_packetlen_cnt')
    <2>3. /\ bits \in Seq(Symbols) /\ d_packetlen_cnt \in Nat
          /\ Len(bits) = ByteBits * (1 + (d_packetlen_cnt + 1))
          /\ d_packetlen = ByteAt(bits, 1)
          /\ \A n \in 1 .. d_packetlen_cnt + 1 : d_packet'[n - 1] = ByteAt(bits, n + 1)
        BY <1>1, <2>2, StoredBits
    <2>4. /\ msg \in Seq(Byte) /\ Len(msg) = d_packetlen_cnt + 1
          /\ d_packetlen_cnt' = d_packetlen_cnt + 1
        BY <1>1, <2>2, StoredByte DEF StoreByte
    <2>5. \A n \in 1 .. d_packetlen_cnt + 1 : msg[n] = d_packet'[n - 1]
        BY <2>4 DEF Message
    <2> HIDE DEF msg, bits, s
    <2>6. d_target_queue'[Len(d_target_queue')] = msg
        <3>1. d_target_queue' = Append(d_target_queue, msg) /\ d_target_queue \in Seq(Seq(Byte))
            BY <1>1, <2>1 DEF PayloadDone, msg, IInv, TypeOK
        <3> QED
            BY <2>4, <3>1, LastOfAppend
    <2>7. Len(msg) = 1 \/ Len(msg) = d_packetlen
        <3>1. Len(msg) = (IF d_packetlen = 0 THEN 1 ELSE d_packetlen)
            BY <1>1, <2>1, <2>6, DoneHasDeclaredLength
        <3> QED
            BY <3>1
    <2>8. Delivered(s)
        BY <2>3, <2>4, <2>5, <2>6, <2>7 DEF bits
    <2> QED
        BY <2>2, <2>8 DEF s
<1> DEFINE Heeded == Len(d_target_queue') > Len(d_target_queue) =>
                        \E s \in Symbols : Delivered(s)
<1>2. IInv /\ HistoryInv /\ [HistoryNext]_hvars => [Heeded]_hvars
    BY <1>1
<1> QED
    BY <1>2, HistoryFollows, PTL DEF HistorySpec, DeliversWhatWasHeard
=============================================================================
