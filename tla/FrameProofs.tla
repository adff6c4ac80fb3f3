---------------------------- MODULE FrameProofs -----------------------------
(***************************************************************************)
(* Proofs about the builders: what they make of addresses and payloads of  *)
(* every length and content can be taken apart, by the length byte alone,  *)
(* and passes the test of the watcher; and no other does that differs from *)
(* it in one byte.  At the end, that the two checksums are remainders of   *)
(* the message as a polynomial.                                            *)
(***************************************************************************)
EXTENDS CrcPolynomials, SequenceLemmas

(***************************************************************************)
(* The recursions of the checksum: each is the one sequence of values that *)
(* its first one and its step make.                                        *)
(***************************************************************************)
Halves(s, v, n) == s \in [0 .. n -> Nat] /\ s[0] = v /\ \A k \in 1 .. n : s[k] = s[k - 1] \div 2

\* The bits of a number are the remainders of its halves.
LEMMA BitsOfHalves ==
    ASSUME NEW v \in Nat, NEW n \in Nat
    PROVE  \E s : Halves(s, v, n) /\ BitsOf(v, n) = [i \in 1 .. n |-> s[n - i] % 2]
<1> DEFINE Step == [k \in 1 .. n |-> [x \in Nat |-> x \div 2]]
           IsHalf(f) == f = [k \in 0 .. n |-> IF k = 0 THEN v ELSE f[k - 1] \div 2]
           shifted == CHOOSE f : IsHalf(f)
<1>1. IsRecursion(n, Nat, v, Step)
    BY DEF IsRecursion
<1>2. \A x \in Nat, k \in 1 .. n : Step[k][x] = x \div 2
    OBVIOUS
<1> HIDE DEF Step
<1>3. PICK g : Solves(g, n, Nat, v, Step)
    BY <1>1, RecursionExists
<1>4. Halves(g, v, n)
    <2>1. ASSUME NEW k \in 1 .. n
          PROVE  g[k] = g[k - 1] \div 2
        <3>1. g[k - 1] \in Nat /\ g[k] = Step[k][g[k - 1]]
            BY <1>3 DEF Solves
        <3> QED
            BY <1>2, <3>1
    <2> QED
        BY <1>3, <2>1 DEF Solves, Halves
<1>5. IsHalf(g)
    BY <1>4 DEF Halves
<1>6. IsHalf(shifted)
    BY <1>5
<1>7. BitsOf(v, n) = [i \in 1 .. n |-> shifted[n - i] % 2]
    BY DEF BitsOf
<1> HIDE DEF shifted
<1>8. shifted[0] = v
    BY <1>6
<1>9. ASSUME NEW k \in 1 .. n
      PROVE  shifted[k] = shifted[k - 1] \div 2
    <2>1. k \in 0 .. n /\ k # 0
        OBVIOUS
    <2> QED
        BY <1>6, <2>1, Zenon
<1>10. \A k \in 1 .. n : shifted[k - 1] \in Nat => shifted[k] = Step[k][shifted[k - 1]]
    BY <1>2, <1>9
<1>11. \A k \in 0 .. n : shifted[k] = g[k]
    BY <1>3, <1>8, <1>10, RecursionUnique
<1>12. \A i \in 1 .. n : shifted[n - i] = g[n - i]
    BY <1>11
<1> QED
    BY <1>4, <1>7, <1>12

\* They are bits.
LEMMA BitsOfType ==
    ASSUME NEW v \in Nat, NEW n \in Nat
    PROVE  BitsOf(v, n) \in [1 .. n -> Bit]
<1>1. PICK s : Halves(s, v, n) /\ BitsOf(v, n) = [i \in 1 .. n |-> s[n - i] % 2]
    BY BitsOfHalves
<1>2. ASSUME NEW i \in 1 .. n
      PROVE  s[n - i] % 2 \in Bit
    <2>1. s[n - i] \in Nat
        BY <1>1 DEF Halves
    <2> QED
        BY <2>1 DEF Bit
<1> QED
    BY <1>1, <1>2

\* What is known of the half of a number.
LEMMA HalfBelow ==
    \A m \in Nat : \A x \in 0 .. 2 * m + 1 : x \div 2 \in 0 .. m
OBVIOUS

LEMMA HalfAndRemainder ==
    \A x, y \in Nat : x \div 2 = y \div 2 /\ x % 2 = y % 2 => x = y
<1>1. \A x \in Nat : x = 2 * (x \div 2) + (x % 2)
    OBVIOUS
<1> QED
    BY <1>1

\* Two bytes of the same bits are one.
LEMMA BytesOfBits ==
    ASSUME NEW a \in Octet, NEW b \in Octet, BitsOf(a, 8) = BitsOf(b, 8)
    PROVE  a = b
<1>0. a \in Nat /\ b \in Nat /\ 8 \in Nat
    BY DEF Octet
<1>1. PICK s : Halves(s, a, 8) /\ BitsOf(a, 8) = [i \in 1 .. 8 |-> s[8 - i] % 2]
    BY <1>0, BitsOfHalves, Zenon
<1>2. PICK t : Halves(t, b, 8) /\ BitsOf(b, 8) = [i \in 1 .. 8 |-> t[8 - i] % 2]
    BY <1>0, BitsOfHalves, Zenon
<1> DEFINE A == {k \in 0 .. 8 : s[8 - k] = t[8 - k]}
<1>3. s[8] = 0 /\ t[8] = 0
    <2>1. ASSUME NEW f, NEW x \in Octet, Halves(f, x, 8)
          PROVE  f[8] = 0
        <3>1. f[0] \in 0 .. 255 /\ \A k \in 1 .. 8 : f[k] = f[k - 1] \div 2
            BY <2>1 DEF Halves, Octet
        <3>2. f[1] \in 0 .. 127
            BY <3>1, HalfBelow
        <3>3. f[2] \in 0 .. 63
            BY <3>1, <3>2, HalfBelow
        <3>4. f[3] \in 0 .. 31
            BY <3>1, <3>3, HalfBelow
        <3>5. f[4] \in 0 .. 15
            BY <3>1, <3>4, HalfBelow
        <3>6. f[5] \in 0 .. 7
            BY <3>1, <3>5, HalfBelow
        <3>7. f[6] \in 0 .. 3
            BY <3>1, <3>6, HalfBelow
        <3>8. f[7] \in 0 .. 1
            BY <3>1, <3>7, HalfBelow
        <3> QED
            BY <3>1, <3>8, HalfBelow
    <2> QED
        BY <1>1, <1>2, <2>1
<1>4. \A k \in 1 .. 8 : s[k - 1] % 2 = t[k - 1] % 2
    <2> TAKE k \in 1 .. 8
    <2>1. 9 - k \in 1 .. 8 /\ 8 - (9 - k) = k - 1
        OBVIOUS
    <2>2. BitsOf(a, 8)[9 - k] = s[k - 1] % 2 /\ BitsOf(b, 8)[9 - k] = t[k - 1] % 2
        BY <1>1, <1>2, <2>1
    <2> QED
        BY <2>2
<1>5. ASSUME NEW k \in 1 .. 8, k - 1 \in A
      PROVE  k \in A
    <2> DEFINE j == 9 - k
    <2>1. j \in 1 .. 8 /\ 8 - (k - 1) = j /\ 8 - k = j - 1 /\ k \in 0 .. 8
        OBVIOUS
    <2>2. s[j] = t[j]
        BY <1>5, <2>1
    <2>3. /\ s[j] = s[j - 1] \div 2 /\ t[j] = t[j - 1] \div 2
          /\ s[j - 1] \in Nat /\ t[j - 1] \in Nat
        BY <1>1, <1>2, <2>1 DEF Halves
    <2>4. s[j - 1] % 2 = t[j - 1] % 2
        BY <1>4, <2>1
    <2>5. s[j - 1] = t[j - 1]
        BY <2>2, <2>3, <2>4, HalfAndRemainder, Zenon
    <2> QED
        BY <2>1, <2>5
<1>6. 0 \in A
    BY <1>3
<1> HIDE DEF A
<1>7. 8 \in A
    BY <1>5, <1>6, BoundedInduction
<1> QED
    BY <1>1, <1>2, <1>7 DEF A, Halves

Doubles(v, bits, n) ==
    v \in [0 .. n -> Int] /\ v[0] = 0 /\ \A k \in 1 .. n : v[k] = 2 * v[k - 1] + bits[k]

\* The value of bits doubles with each one.
LEMMA ValueOfDoubles ==
    ASSUME NEW bits \in Seq(Bit)
    PROVE  \E v : Doubles(v, bits, Len(bits)) /\ ValueOf(bits) = v[Len(bits)]
<1> DEFINE n == Len(bits)
           Step == [k \in 1 .. n |-> [x \in Int |-> 2 * x + bits[k]]]
           IsValue(f) == f = [k \in 0 .. n |-> IF k = 0 THEN 0 ELSE 2 * f[k - 1] + bits[k]]
           v == CHOOSE f : IsValue(f)
<1>1. n \in Nat /\ IsRecursion(n, Int, 0, Step)
    BY DEF IsRecursion, Bit
<1>2. \A x \in Int, k \in 1 .. n : Step[k][x] = 2 * x + bits[k]
    OBVIOUS
<1>3. ValueOf(bits) = v[n]
    BY DEF ValueOf
<1> HIDE DEF n, Step
<1>4. PICK g : Solves(g, n, Int, 0, Step)
    BY <1>1, RecursionExists
<1>5. Doubles(g, bits, n)
    <2>1. ASSUME NEW k \in 1 .. n
          PROVE  g[k] = 2 * g[k - 1] + bits[k]
        <3>1. g[k - 1] \in Int /\ g[k] = Step[k][g[k - 1]]
            BY <1>1, <1>4 DEF Solves
        <3> QED
            BY <1>2, <3>1
    <2> QED
        BY <1>4, <2>1 DEF Solves, Doubles
<1>6. IsValue(g)
    BY <1>1, <1>5 DEF Doubles
<1>7. IsValue(v)
    BY <1>6
<1> HIDE DEF v
<1>8. v[0] = 0
    BY <1>1, <1>7
<1>9. ASSUME NEW k \in 1 .. n
      PROVE  v[k] = 2 * v[k - 1] + bits[k]
    <2>1. k \in 0 .. n /\ k # 0
        BY <1>1
    <2> QED
        BY <1>7, <2>1, Zenon
<1>10. \A k \in 1 .. n : v[k - 1] \in Int => v[k] = Step[k][v[k - 1]]
    BY <1>2, <1>9
<1>11. \A k \in 0 .. n : v[k] = g[k]
    BY <1>1, <1>4, <1>8, <1>10, RecursionUnique
<1>12. v[n] = g[n]
    BY <1>1, <1>11
<1> QED
    BY <1>3, <1>5, <1>12 DEF n

\* The value of the first k bits is at most m.
AtMost(v, k, m) == v[k] \in Nat /\ v[k] <= m

LEMMA FourMore ==
    ASSUME NEW r \in Register, NEW v, Doubles(v, r, 16), NEW k \in 0 .. 12, NEW m \in Nat,
           AtMost(v, k, m)
    PROVE  AtMost(v, k + 4, 16 * m + 15)
<1>1. \A n \in Nat : \A x \in 0 .. n : \A b \in 0 .. 1 : 2 * x + b \in 0 .. 2 * n + 1
    OBVIOUS
<1>2. ASSUME NEW j \in 0 .. 15, NEW n \in Nat, v[j] \in 0 .. n
      PROVE  v[j + 1] \in 0 .. 2 * n + 1
    <2>1. j + 1 \in 1 .. 16 /\ (j + 1) - 1 = j
        OBVIOUS
    <2>2. v[j + 1] = 2 * v[j] + r[j + 1]
        BY <2>1, Zenon DEF Doubles
    <2>3. r[j + 1] \in 0 .. 1
        BY <2>1 DEF Register, CrcWidth, Bit
    <2> QED
        BY <1>1, <1>2, <2>2, <2>3
<1>3. v[k + 1] \in 0 .. 2 * m + 1
    BY <1>2 DEF AtMost
<1>4. v[(k + 1) + 1] \in 0 .. 2 * (2 * m + 1) + 1
    BY <1>2, <1>3
<1>5. v[(k + 2) + 1] \in 0 .. 2 * (4 * m + 3) + 1
    BY <1>2, <1>4
<1>6. v[(k + 3) + 1] \in 0 .. 2 * (8 * m + 7) + 1
    BY <1>2, <1>5
<1> QED
    BY <1>6 DEF AtMost

\* The value of a register has 16 bits.
LEMMA ValueOfRegister ==
    ASSUME NEW r \in Register
    PROVE  ValueOf(r) \in Word
<1>1. r \in Seq(Bit) /\ Len(r) = 16
    BY FunctionIsSeq DEF Register, CrcWidth
<1>2. PICK v : Doubles(v, r, 16) /\ ValueOf(r) = v[16]
    BY <1>1, ValueOfDoubles
<1>3. \A k \in 0 .. 12 : \A m \in Nat : AtMost(v, k, m) => AtMost(v, k + 4, 16 * m + 15)
    BY <1>2, FourMore, SMT
<1>4. AtMost(v, 0, 0)
    BY <1>2 DEF Doubles, AtMost
<1>5. AtMost(v, 4, 15)
    BY <1>3, <1>4, SMT
<1>6. AtMost(v, 8, 255)
    BY <1>3, <1>5, SMT
<1>7. AtMost(v, 12, 4095)
    BY <1>3, <1>6, SMT
<1>8. AtMost(v, 16, 65535)
    BY <1>3, <1>7, SMT
<1>9. v[16] \in Word
    BY <1>8, SMT DEF AtMost, Word
<1> QED
    BY <1>2, <1>9, Zenon

\* And no other register has it.
LEMMA ValueOfDiffers ==
    ASSUME NEW r \in Register, NEW s \in Register, ValueOf(r) = ValueOf(s)
    PROVE  r = s
<1>1. r \in Seq(Bit) /\ Len(r) = 16 /\ s \in Seq(Bit) /\ Len(s) = 16
    BY FunctionIsSeq DEF Register, CrcWidth
<1>2. PICK v : Doubles(v, r, 16) /\ ValueOf(r) = v[16]
    BY <1>1, ValueOfDoubles
<1>3. PICK w : Doubles(w, s, 16) /\ ValueOf(s) = w[16]
    BY <1>1, ValueOfDoubles
<1> DEFINE A == {k \in 0 .. 16 : v[16 - k] = w[16 - k]}
<1>4. ASSUME NEW j \in 1 .. 16, v[j] = w[j]
      PROVE  v[j - 1] = w[j - 1] /\ r[j] = s[j]
    <2>1. r[j] \in 0 .. 1 /\ s[j] \in 0 .. 1
        BY DEF Register, CrcWidth, Bit
    <2>2. /\ v[j] = 2 * v[j - 1] + r[j] /\ v[j - 1] \in Int
          /\ w[j] = 2 * w[j - 1] + s[j] /\ w[j - 1] \in Int
        BY <1>2, <1>3 DEF Doubles
    <2>3. \A x, y \in Int : \A b, c \in 0 .. 1 : 2 * x + b = 2 * y + c => x = y /\ b = c
        OBVIOUS
    <2>4. 2 * v[j - 1] + r[j] = 2 * w[j - 1] + s[j]
        BY <1>4, <2>2, Zenon
    <2>5. \A b, c \in 0 .. 1 : 2 * v[j - 1] + b = 2 * w[j - 1] + c => v[j - 1] = w[j - 1] /\ b = c
        BY <2>2, <2>3, ZenonT(30)
    <2> QED
        BY <2>1, <2>4, <2>5, Zenon
<1>5. ASSUME NEW k \in 1 .. 16, k - 1 \in A
      PROVE  k \in A
    <2>1. 17 - k \in 1 .. 16 /\ 16 - (k - 1) = 17 - k /\ (17 - k) - 1 = 16 - k /\ k \in 0 .. 16
        OBVIOUS
    <2>2. v[17 - k] = w[17 - k]
        BY <1>5, <2>1
    <2>3. v[16 - k] = w[16 - k]
        BY <1>4, <2>1, <2>2
    <2> QED
        BY <2>1, <2>3
<1>6. 0 \in A
    <2>1. v[16] = w[16]
        BY <1>2, <1>3
    <2> QED
        BY <2>1
<1> HIDE DEF A
<1>7. \A k \in 0 .. 16 : k \in A
    BY <1>5, <1>6, BoundedInduction
<1>8. ASSUME NEW j \in 1 .. 16
      PROVE  r[j] = s[j]
    <2>1. 16 - j \in 0 .. 16 /\ 16 - (16 - j) = j
        OBVIOUS
    <2>2. v[j] = w[j]
        BY <1>7, <2>1 DEF A
    <2> QED
        BY <1>4, <2>2
<1> QED
    BY <1>1, <1>8, SameSequence

(***************************************************************************)
(* The register.                                                           *)
(***************************************************************************)
LEMMA ElementsOfTail ==
    ASSUME NEW S, NEW a \in Seq(S), Len(a) > 1
    PROVE  /\ Tail(a) \in Seq(S) /\ Len(Tail(a)) = Len(a) - 1
           /\ \A k \in 1 .. Len(a) - 1 : Tail(a)[k] = a[k + 1]
OBVIOUS

LEMMA ElementsOfAppend ==
    ASSUME NEW S, NEW a \in Seq(S), NEW m \in S
    PROVE  /\ Append(a, m) \in Seq(S) /\ Len(Append(a, m)) = Len(a) + 1
           /\ Append(a, m)[Len(a) + 1] = m
           /\ \A k \in 1 .. Len(a) : Append(a, m)[k] = a[k]
OBVIOUS

LEMMA RegisterIsSeq ==
    ASSUME NEW r \in Register
    PROVE  /\ r \in Seq(Bit) /\ Len(r) = 16 /\ Head(r) = r[1]
           /\ \A i \in 1 .. 16 : r[i] \in Bit
<1>1. r \in [1 .. 16 -> Bit] /\ 16 \in Nat
    BY DEF Register, CrcWidth
<1>2. r \in Seq(Bit) /\ Len(r) = 16
    BY <1>1, FunctionIsSeq
<1>3. Head(r) = r[1]
    BY <1>2
<1> QED
    BY <1>1, <1>2, <1>3

LEMMA PolynomialIs ==
    Polynomial \in Register /\ Polynomial[16] = 1
<1>1. PICK v \in Nat : v = 4129
    OBVIOUS
<1>2. PICK n \in Nat : n = 16
    OBVIOUS
<1>3. Polynomial = BitsOf(v, n)
    BY <1>1, <1>2 DEF Polynomial, CrcWidth
<1>4. PICK s : Halves(s, v, n) /\ BitsOf(v, n) = [i \in 1 .. n |-> s[n - i] % 2]
    BY BitsOfHalves
<1>5. BitsOf(v, n) \in [1 .. n -> Bit]
    BY BitsOfType
<1>6. s[0] = v /\ v % 2 = 1 /\ n \in 1 .. n /\ n - n = 0
    BY <1>1, <1>2, <1>4 DEF Halves
<1>7. Polynomial[n] = 1
    BY <1>3, <1>4, <1>6
<1> QED
    BY <1>2, <1>3, <1>5, <1>7 DEF Register, CrcWidth

\* One bit shifted in.
LEMMA ShiftInElements ==
    ASSUME NEW r \in Register, NEW b \in Bit
    PROVE  /\ ShiftIn(r, b) \in Register
           /\ \A i \in 1 .. 15 :
                  ShiftIn(r, b)[i] = IF r[1] = 1 THEN (r[i + 1] + Polynomial[i]) % 2 ELSE r[i + 1]
           /\ ShiftIn(r, b)[16] = IF r[1] = 1 THEN (b + 1) % 2 ELSE b
<1> DEFINE shifted == Append(Tail(r), b)
<1>1. r \in Seq(Bit) /\ Len(r) = 16 /\ Head(r) = r[1]
    BY RegisterIsSeq
<1>2. /\ shifted \in Seq(Bit) /\ Len(shifted) = 16 /\ shifted[16] = b
      /\ \A i \in 1 .. 15 : shifted[i] = r[i + 1]
    <2> DEFINE rest == Tail(r)
    <2>1. Len(r) > 1
        BY <1>1
    <2>2. /\ rest \in Seq(Bit) /\ Len(rest) = Len(r) - 1
          /\ \A i \in 1 .. Len(r) - 1 : rest[i] = r[i + 1]
        BY <1>1, <2>1, ElementsOfTail, Zenon
    <2> HIDE DEF rest
    <2>3. Len(rest) = 15 /\ \A i \in 1 .. 15 : rest[i] = r[i + 1]
        BY <1>1, <2>2
    <2>4. /\ Append(rest, b) \in Seq(Bit) /\ Len(Append(rest, b)) = Len(rest) + 1
          /\ Append(rest, b)[Len(rest) + 1] = b
          /\ \A i \in 1 .. Len(rest) : Append(rest, b)[i] = rest[i]
        BY <2>2, ElementsOfAppend
    <2>5. /\ Append(rest, b) \in Seq(Bit) /\ Len(Append(rest, b)) = 16
          /\ Append(rest, b)[16] = b /\ \A i \in 1 .. 15 : Append(rest, b)[i] = r[i + 1]
        BY <2>3, <2>4, SMTT(30)
    <2> QED
        BY <2>5, Zenon DEF rest
<1>3. ShiftIn(r, b) = IF r[1] = 1 THEN Xor(shifted, Polynomial) ELSE shifted
    BY <1>1 DEF ShiftIn
<1> HIDE DEF shifted
<1>4. shifted \in Register
    BY <1>2 DEF Register, CrcWidth
<1>5. /\ Xor(shifted, Polynomial) \in Register
      /\ \A i \in 1 .. 16 : Xor(shifted, Polynomial)[i] = (shifted[i] + Polynomial[i]) % 2
    BY <1>2, <1>4, PolynomialIs DEF Xor, Register, CrcWidth, Bit
<1>6. CASE r[1] = 1
    <2>1. ShiftIn(r, b) = Xor(shifted, Polynomial)
        BY <1>3, <1>6, Zenon
    <2> QED
        BY <1>2, <1>5, <1>6, <2>1, PolynomialIs
<1>7. CASE r[1] # 1
    <2>1. ShiftIn(r, b) = shifted
        BY <1>3, <1>7, Zenon
    <2> QED
        BY <1>2, <1>4, <1>7, <2>1, PolynomialIs
<1> QED
    BY <1>6, <1>7, Zenon

\* Bits added to one bit keep apart.
LEMMA AddedBits ==
    \A x, y, z \in Bit : (x + z) % 2 = (y + z) % 2 => x = y
BY DEF Bit

\* What a register was before a bit came in follows from what it is, when its first bit
\* is known, and the bit that came in does.
LEMMA ShiftBack ==
    ASSUME NEW r \in Register, NEW s \in Register, NEW b \in Bit, NEW c \in Bit,
           r[1] = s[1], ShiftIn(r, b) = ShiftIn(s, c)
    PROVE  r = s /\ b = c
<1>1. /\ \A i \in 1 .. 16 : r[i] \in Bit /\ s[i] \in Bit /\ Polynomial[i] \in Bit
      /\ r \in Seq(Bit) /\ Len(r) = 16 /\ s \in Seq(Bit) /\ Len(s) = 16
    BY PolynomialIs, RegisterIsSeq
<1>2. \A i \in 1 .. 15 : r[i + 1] = s[i + 1]
    <2> TAKE i \in 1 .. 15
    <2>1. ShiftIn(r, b)[i] = ShiftIn(s, c)[i]
        OBVIOUS
    <2>2. r[i + 1] \in Bit /\ s[i + 1] \in Bit /\ Polynomial[i] \in Bit
        BY <1>1, SMTT(30)
    <2>3. CASE r[1] = 1
        <3>1. ShiftIn(r, b)[i] = (r[i + 1] + Polynomial[i]) % 2
            BY <2>3, ShiftInElements, Zenon
        <3>2. ShiftIn(s, c)[i] = (s[i + 1] + Polynomial[i]) % 2
            BY <2>3, ShiftInElements, Zenon
        <3>3. (r[i + 1] + Polynomial[i]) % 2 = (s[i + 1] + Polynomial[i]) % 2
            BY <2>1, <3>1, <3>2, Zenon
        <3> QED
            BY <2>2, <3>3, AddedBits, Zenon
    <2>4. CASE r[1] # 1
        BY <2>1, <2>4, ShiftInElements
    <2> QED
        BY <2>3, <2>4
<1>3. b = c
    <2>1. ShiftIn(r, b)[16] = ShiftIn(s, c)[16]
        OBVIOUS
    <2>2. CASE r[1] = 1
        <3>1. ShiftIn(r, b)[16] = (b + 1) % 2
            BY <2>2, ShiftInElements, Zenon
        <3>2. ShiftIn(s, c)[16] = (c + 1) % 2
            BY <2>2, ShiftInElements, Zenon
        <3>3. (b + 1) % 2 = (c + 1) % 2
            BY <2>1, <3>1, <3>2, Zenon
        <3> QED
            BY <3>3 DEF Bit
    <2>3. CASE r[1] # 1
        BY <2>1, <2>3, ShiftInElements
    <2> QED
        BY <2>2, <2>3
<1>4. \A i \in 1 .. 16 : r[i] = s[i]
    <2> TAKE i \in 1 .. 16
    <2>1. CASE i = 1
        BY <2>1
    <2>2. CASE i # 1
        <3>1. i - 1 \in 1 .. 15 /\ (i - 1) + 1 = i
            BY <2>2
        <3> QED
            BY <1>2, <3>1
    <2> QED
        BY <2>1, <2>2
<1> QED
    BY <1>1, <1>3, <1>4, SameSequence

\* The same bit keeps registers apart.
LEMMA ShiftSame ==
    ASSUME NEW r \in Register, NEW s \in Register, NEW b \in Bit, ShiftIn(r, b) = ShiftIn(s, b)
    PROVE  r = s
<1>1. r[1] \in Bit /\ s[1] \in Bit
    BY DEF Register, CrcWidth
<1>2. r[1] = s[1]
    <2>1. ShiftIn(r, b)[16] = ShiftIn(s, b)[16]
        OBVIOUS
    <2>2. (IF r[1] = 1 THEN (b + 1) % 2 ELSE b) = (IF s[1] = 1 THEN (b + 1) % 2 ELSE b)
        BY <2>1, ShiftInElements
    <2> QED
        BY <1>1, <2>2 DEF Bit
<1> QED
    BY <1>2, ShiftBack

Shifts(g, r, bits, n) ==
    g \in [0 .. n -> Register] /\ g[0] = r /\ \A k \in 1 .. n : g[k] = ShiftIn(g[k - 1], bits[k])

\* The registers of the loop over bits.
LEMMA ShiftAllSteps ==
    ASSUME NEW r \in Register, NEW bits \in Seq(Bit)
    PROVE  \E g : Shifts(g, r, bits, Len(bits)) /\ ShiftAll(r, bits) = g[Len(bits)]
<1> DEFINE n == Len(bits)
           Step == [k \in 1 .. n |-> [x \in Register |-> ShiftIn(x, bits[k])]]
           turn == [t \in Register \X Bit |-> ShiftIn(t[1], t[2])]
           IsCrc(f) == f = [k \in 0 .. n |-> IF k = 0 THEN r ELSE turn[<<f[k - 1], bits[k]>>]]
           crc == CHOOSE f : IsCrc(f)
<1>1. n \in Nat /\ \A k \in 1 .. n : bits[k] \in Bit
    OBVIOUS
<1>2. ShiftAll(r, bits) = crc[n]
    BY DEF ShiftAll
<1>3. \A x \in Register : \A k \in 1 .. n : ShiftIn(x, bits[k]) \in Register
    BY <1>1, ShiftInElements
<1> HIDE DEF n
<1>4. IsRecursion(n, Register, r, Step)
    BY <1>1, <1>3 DEF IsRecursion
<1>5. \A x \in Register, k \in 1 .. n : Step[k][x] = ShiftIn(x, bits[k])
    OBVIOUS
<1>6. \A x \in Register, k \in 1 .. n : turn[<<x, bits[k]>>] = ShiftIn(x, bits[k])
    BY <1>1
<1> HIDE DEF Step, turn
<1>7. PICK g : Solves(g, n, Register, r, Step)
    BY <1>4, RecursionExists
<1>8. Shifts(g, r, bits, n)
    <2>1. ASSUME NEW k \in 1 .. n
          PROVE  g[k] = ShiftIn(g[k - 1], bits[k])
        <3>1. g[k - 1] \in Register /\ g[k] = Step[k][g[k - 1]]
            BY <1>1, <1>7 DEF Solves
        <3> QED
            BY <1>5, <3>1
    <2> QED
        BY <1>7, <2>1 DEF Solves, Shifts
<1>9. IsCrc(g)
    <2>1. ASSUME NEW k \in 1 .. n
          PROVE  g[k] = turn[<<g[k - 1], bits[k]>>]
        <3>1. g[k - 1] \in Register /\ g[k] = ShiftIn(g[k - 1], bits[k])
            BY <1>1, <1>8 DEF Shifts
        <3> QED
            BY <1>6, <3>1
    <2> QED
        BY <1>1, <1>8, <2>1 DEF Shifts
<1>10. IsCrc(crc)
    BY <1>9
<1> HIDE DEF crc
<1>11. crc[0] = r
    BY <1>1, <1>10
<1>12. ASSUME NEW k \in 1 .. n
       PROVE  crc[k] = turn[<<crc[k - 1], bits[k]>>]
    <2>1. k \in 0 .. n /\ k # 0
        BY <1>1
    <2> QED
        BY <1>10, <2>1, Zenon
<1>13. ASSUME NEW k \in 1 .. n, crc[k - 1] \in Register
       PROVE  crc[k] = Step[k][crc[k - 1]]
    <2>1. turn[<<crc[k - 1], bits[k]>>] = ShiftIn(crc[k - 1], bits[k])
        BY <1>6, <1>13
    <2>2. Step[k][crc[k - 1]] = ShiftIn(crc[k - 1], bits[k])
        BY <1>5, <1>13
    <2> QED
        BY <1>12, <2>1, <2>2, Zenon
<1>14. \A k \in 0 .. n : crc[k] = g[k]
    BY <1>1, <1>7, <1>11, <1>13, RecursionUnique
<1>15. crc[n] = g[n]
    BY <1>1, <1>14
<1> QED
    BY <1>2, <1>8, <1>15 DEF n

\* They are registers.
LEMMA ShiftAllType ==
    ASSUME NEW r \in Register, NEW bits \in Seq(Bit)
    PROVE  ShiftAll(r, bits) \in Register
<1>1. PICK g : Shifts(g, r, bits, Len(bits)) /\ ShiftAll(r, bits) = g[Len(bits)]
    BY ShiftAllSteps
<1>2. Len(bits) \in 0 .. Len(bits)
    OBVIOUS
<1> QED
    BY <1>1, <1>2 DEF Shifts

\* The same bits keep registers apart.
LEMMA ShiftAllSame ==
    ASSUME NEW r \in Register, NEW s \in Register, NEW bits \in Seq(Bit),
           ShiftAll(r, bits) = ShiftAll(s, bits)
    PROVE  r = s
<1> DEFINE n == Len(bits)
<1>1. n \in Nat /\ \A k \in 1 .. n : bits[k] \in Bit
    OBVIOUS
<1>2. PICK g : Shifts(g, r, bits, n) /\ ShiftAll(r, bits) = g[n]
    BY ShiftAllSteps
<1>3. PICK h : Shifts(h, s, bits, n) /\ ShiftAll(s, bits) = h[n]
    BY ShiftAllSteps
<1> HIDE DEF n
<1> DEFINE A == {k \in 0 .. n : g[n - k] = h[n - k]}
<1>4. ASSUME NEW j \in 1 .. n, g[j] = h[j]
      PROVE  g[j - 1] = h[j - 1]
    <2>1. /\ g[j] = ShiftIn(g[j - 1], bits[j]) /\ g[j - 1] \in Register
          /\ h[j] = ShiftIn(h[j - 1], bits[j]) /\ h[j - 1] \in Register
        BY <1>1, <1>2, <1>3 DEF Shifts
    <2> QED
        BY <1>1, <1>4, <2>1, ShiftSame
<1>5. ASSUME NEW k \in 1 .. n, k - 1 \in A
      PROVE  k \in A
    <2>1. LET j == (n - k) + 1 IN j \in 1 .. n /\ n - (k - 1) = j /\ j - 1 = n - k /\ k \in 0 .. n
        BY <1>1
    <2> QED
        BY <1>4, <1>5, <2>1
<1>6. 0 \in A
    <2>1. g[n] = h[n]
        BY <1>2, <1>3, Zenon
    <2>2. n - 0 = n /\ 0 \in 0 .. n
        BY <1>1
    <2> QED
        BY <2>1, <2>2
<1> HIDE DEF A
<1>7. \A k \in 0 .. n : k \in A
    BY <1>1, <1>5, <1>6, BoundedInduction
<1>8. g[0] = h[0]
    <2>1. n \in 0 .. n /\ n - n = 0
        BY <1>1
    <2> QED
        BY <1>7, <2>1 DEF A
<1> QED
    BY <1>2, <1>3, <1>8 DEF Shifts

\* Two bytes shifted into the same register make different ones: the difference does not
\* reach the bit that falls out.
LEMMA ShiftAllBytes ==
    ASSUME NEW r \in Register, NEW a \in Seq(Bit), NEW c \in Seq(Bit), Len(a) = 8, Len(c) = 8,
           ShiftAll(r, a) = ShiftAll(r, c)
    PROVE  a = c
<1>1. PICK g : Shifts(g, r, a, 8) /\ ShiftAll(r, a) = g[8]
    BY ShiftAllSteps
<1>2. PICK h : Shifts(h, r, c, 8) /\ ShiftAll(r, c) = h[8]
    BY ShiftAllSteps
<1>3. \A k \in 1 .. 8 : a[k] \in Bit /\ c[k] \in Bit
    <2>1. \A s \in Seq(Bit) : \A k \in 1 .. Len(s) : s[k] \in Bit
        OBVIOUS
    <2> QED
        BY <2>1, Zenon
<1>4. \A k \in 1 .. 8 :
          /\ g[k] = ShiftIn(g[k - 1], a[k]) /\ g[k - 1] \in Register /\ a[k] \in Bit
          /\ h[k] = ShiftIn(h[k - 1], c[k]) /\ h[k - 1] \in Register /\ c[k] \in Bit
    BY <1>1, <1>2, <1>3 DEF Shifts
<1> DEFINE A == {k \in 0 .. 8 : \A i \in 1 .. 16 - k : g[k][i] = h[k][i]}
           B == {k \in 0 .. 8 : g[8 - k] = h[8 - k]}
<1>5. ASSUME NEW k \in 1 .. 8, k - 1 \in A
      PROVE  k \in A
    <2>1. \A i \in 1 .. 17 - k : g[k - 1][i] = h[k - 1][i]
        BY <1>5
    <2>2. ASSUME NEW i \in 1 .. 16 - k
          PROVE  g[k][i] = h[k][i]
        <3>1. i \in 1 .. 15 /\ i + 1 \in 1 .. 17 - k /\ 1 \in 1 .. 17 - k
            OBVIOUS
        <3>2. g[k - 1][1] = h[k - 1][1] /\ g[k - 1][i + 1] = h[k - 1][i + 1]
            BY <2>1, <3>1
        <3>3. PICK x \in Register : x = g[k - 1]
            BY <1>4
        <3>4. PICK y \in Register : y = h[k - 1]
            BY <1>4
        <3>5. ShiftIn(x, a[k])[i] = IF x[1] = 1 THEN (x[i + 1] + Polynomial[i]) % 2 ELSE x[i + 1]
            BY <1>3, <3>1, ShiftInElements, ZenonT(30)
        <3>6. ShiftIn(y, c[k])[i] = IF y[1] = 1 THEN (y[i + 1] + Polynomial[i]) % 2 ELSE y[i + 1]
            BY <1>3, <3>1, ShiftInElements, ZenonT(30)
        <3>7. x[1] = y[1] /\ x[i + 1] = y[i + 1]
            BY <3>2, <3>3, <3>4, Zenon
        <3>8. g[k] = ShiftIn(x, a[k]) /\ h[k] = ShiftIn(y, c[k])
            BY <1>4, <3>3, <3>4, Zenon
        <3> QED
            BY <3>5, <3>6, <3>7, <3>8, Zenon
    <2> QED
        BY <2>2
<1>6. 0 \in A
    BY <1>1, <1>2 DEF Shifts
<1> HIDE DEF A
<1>7. \A k \in 0 .. 8 : k \in A
    BY <1>5, <1>6, BoundedInduction
<1>8. ASSUME NEW j \in 1 .. 8, g[j] = h[j]
      PROVE  g[j - 1] = h[j - 1] /\ a[j] = c[j]
    <2>1. j - 1 \in 0 .. 8 /\ 1 \in 1 .. 16 - (j - 1)
        OBVIOUS
    <2>2. g[j - 1][1] = h[j - 1][1]
        BY <1>7, <2>1 DEF A
    <2>3. PICK x \in Register : x = g[j - 1]
        BY <1>4
    <2>4. PICK y \in Register : y = h[j - 1]
        BY <1>4
    <2>5. x[1] = y[1] /\ a[j] \in Bit /\ c[j] \in Bit
        BY <1>3, <2>2, <2>3, <2>4, Zenon
    <2>6. ShiftIn(x, a[j]) = ShiftIn(y, c[j])
        BY <1>4, <1>8, <2>3, <2>4, Zenon
    <2>7. x = y /\ a[j] = c[j]
        BY <2>5, <2>6, ShiftBack
    <2> QED
        BY <2>3, <2>4, <2>7, Zenon
<1>9. ASSUME NEW k \in 1 .. 8, k - 1 \in B
      PROVE  k \in B
    <2>1. LET j == 9 - k IN j \in 1 .. 8 /\ 8 - (k - 1) = j /\ j - 1 = 8 - k /\ k \in 0 .. 8
        OBVIOUS
    <2> QED
        BY <1>8, <1>9, <2>1
<1>10. 0 \in B
    <2>1. g[8] = h[8]
        BY <1>1, <1>2, Zenon
    <2> QED
        BY <2>1
<1> HIDE DEF B
<1>11. \A k \in 0 .. 8 : k \in B
    BY <1>9, <1>10, BoundedInduction
<1>12. ASSUME NEW j \in 1 .. 8
       PROVE  a[j] = c[j]
    <2>1. 8 - j \in 0 .. 8 /\ 8 - (8 - j) = j
        OBVIOUS
    <2> QED
        BY <1>8, <1>11, <2>1 DEF B
<1> QED
    BY <1>12, SameSequence

(***************************************************************************)
(* The bytes of a message.                                                 *)
(***************************************************************************)
LEMMA ReflectedType ==
    ASSUME NEW n \in Nat, NEW a \in [1 .. n -> Bit]
    PROVE  /\ reflect(a) \in [1 .. n -> Bit]
           /\ \A i \in 1 .. n : reflect(a)[i] = a[(n - i) + 1]
<1>1. Len(a) = n
    BY FunctionIsSeq
<1>2. reflect(a) = [i \in 1 .. n |-> a[(n - i) + 1]]
    BY <1>1 DEF reflect, Reverse
<1>3. \A i \in 1 .. n : (n - i) + 1 \in 1 .. n
    OBVIOUS
<1> QED
    BY <1>2, <1>3

LEMMA ReflectedSame ==
    ASSUME NEW n \in Nat, NEW a \in [1 .. n -> Bit], NEW c \in [1 .. n -> Bit],
           reflect(a) = reflect(c)
    PROVE  a = c
<1>1. ASSUME NEW i \in 1 .. n
      PROVE  a[i] = c[i]
    <2>1. (n - i) + 1 \in 1 .. n /\ (n - ((n - i) + 1)) + 1 = i
        OBVIOUS
    <2>2. /\ reflect(a)[(n - i) + 1] = a[(n - ((n - i) + 1)) + 1]
          /\ reflect(c)[(n - i) + 1] = c[(n - ((n - i) + 1)) + 1]
        BY <2>1, ReflectedType
    <2> QED
        BY <2>1, <2>2
<1> QED
    BY <1>1

ByteBits(b) == reflect(BitsOf(b, 8))

LEMMA ByteBitsType ==
    ASSUME NEW b \in Octet
    PROVE  ByteBits(b) \in Seq(Bit) /\ Len(ByteBits(b)) = 8
<1>1. PICK n \in Nat : n = 8
    OBVIOUS
<1>2. b \in Nat
    BY DEF Octet
<1>3. reflect(BitsOf(b, n)) \in [1 .. n -> Bit]
    BY <1>2, BitsOfType, ReflectedType
<1>4. reflect(BitsOf(b, n)) \in Seq(Bit) /\ Len(reflect(BitsOf(b, n))) = n
    BY <1>3, FunctionIsSeq
<1> QED
    BY <1>1, <1>4 DEF ByteBits

LEMMA ByteBitsSame ==
    ASSUME NEW b \in Octet, NEW c \in Octet, ByteBits(b) = ByteBits(c)
    PROVE  b = c
<1>1. PICK n \in Nat : n = 8
    OBVIOUS
<1>2. b \in Nat /\ c \in Nat
    BY DEF Octet
<1>3. BitsOf(b, n) \in [1 .. n -> Bit] /\ BitsOf(c, n) \in [1 .. n -> Bit]
    BY <1>2, BitsOfType
<1>4. reflect(BitsOf(b, n)) = reflect(BitsOf(c, n))
    BY <1>1 DEF ByteBits
<1>5. BitsOf(b, n) = BitsOf(c, n)
    BY <1>3, <1>4, ReflectedSame
<1> QED
    BY <1>1, <1>5, BytesOfBits

LEMMA ZerosType ==
    Zeros(CrcWidth) \in Register /\ Zeros(CrcWidth) \in Seq(Bit)
<1>1. Zeros(CrcWidth) \in Register
    BY DEF Zeros, Register, CrcWidth, Bit
<1> QED
    BY <1>1, RegisterIsSeq

Divides(g, p, n) ==
    /\ g \in [0 .. n -> Register] /\ g[0] = Zeros(CrcWidth)
    /\ \A k \in 1 .. n : g[k] = ShiftAll(g[k - 1], ByteBits(p[k]))

\* The registers of the loop over bytes.
LEMMA DividedSteps ==
    ASSUME NEW p \in Seq(Octet)
    PROVE  \E g : Divides(g, p, Len(p)) /\ Divided(p) = g[Len(p)]
<1> DEFINE n == Len(p)
           start == Zeros(CrcWidth)
           Step == [k \in 1 .. n |-> [x \in Register |-> ShiftAll(x, ByteBits(p[k]))]]
           over == [t \in Register \X Octet |-> ShiftAll(t[1], reflect(BitsOf(t[2], 8)))]
           IsCrc(f) == f = [k \in 0 .. n |-> IF k = 0 THEN start ELSE over[<<f[k - 1], p[k]>>]]
           crc == CHOOSE f : IsCrc(f)
<1>1. n \in Nat /\ \A k \in 1 .. n : p[k] \in Octet
    OBVIOUS
<1>2. Divided(p) = crc[n]
    BY DEF Divided
<1>3. \A x \in Register : \A k \in 1 .. n : ShiftAll(x, ByteBits(p[k])) \in Register
    BY <1>1, ByteBitsType, ShiftAllType
<1>4. start \in Register
    BY ZerosType
<1> HIDE DEF n, start
<1>5. IsRecursion(n, Register, start, Step)
    BY <1>1, <1>3, <1>4 DEF IsRecursion
<1>6. \A x \in Register, k \in 1 .. n : Step[k][x] = ShiftAll(x, ByteBits(p[k]))
    OBVIOUS
<1>7. \A x \in Register, k \in 1 .. n : over[<<x, p[k]>>] = ShiftAll(x, ByteBits(p[k]))
    BY <1>1 DEF ByteBits
<1> HIDE DEF Step, over
<1>8. PICK g : Solves(g, n, Register, start, Step)
    BY <1>5, RecursionExists
<1>9. Divides(g, p, n)
    <2>1. ASSUME NEW k \in 1 .. n
          PROVE  g[k] = ShiftAll(g[k - 1], ByteBits(p[k]))
        <3>1. g[k - 1] \in Register /\ g[k] = Step[k][g[k - 1]]
            BY <1>1, <1>8 DEF Solves
        <3> QED
            BY <1>6, <3>1
    <2> QED
        BY <1>8, <2>1 DEF Solves, Divides, start
<1>10. IsCrc(g)
    <2>1. ASSUME NEW k \in 1 .. n
          PROVE  g[k] = over[<<g[k - 1], p[k]>>]
        <3>1. g[k - 1] \in Register /\ g[k] = ShiftAll(g[k - 1], ByteBits(p[k]))
            BY <1>1, <1>9 DEF Divides
        <3> QED
            BY <1>7, <3>1
    <2> QED
        BY <1>1, <1>8, <2>1 DEF Solves
<1>11. IsCrc(crc)
    BY <1>10
<1> HIDE DEF crc
<1>12. crc[0] = start
    BY <1>1, <1>11
<1>13. ASSUME NEW k \in 1 .. n
       PROVE  crc[k] = over[<<crc[k - 1], p[k]>>]
    <2>1. k \in 0 .. n /\ k # 0
        BY <1>1
    <2> QED
        BY <1>11, <2>1, Zenon
<1>14. ASSUME NEW k \in 1 .. n, crc[k - 1] \in Register
       PROVE  crc[k] = Step[k][crc[k - 1]]
    <2>1. over[<<crc[k - 1], p[k]>>] = ShiftAll(crc[k - 1], ByteBits(p[k]))
        BY <1>7, <1>14
    <2>2. Step[k][crc[k - 1]] = ShiftAll(crc[k - 1], ByteBits(p[k]))
        BY <1>6, <1>14
    <2> QED
        BY <1>13, <2>1, <2>2, Zenon
<1>15. \A k \in 0 .. n : crc[k] = g[k]
    BY <1>1, <1>8, <1>12, <1>14, RecursionUnique
<1>16. crc[n] = g[n]
    BY <1>1, <1>15
<1> QED
    BY <1>2, <1>9, <1>16 DEF n

\* Two runs that begin and end alike, and of which a step neither brings together nor
\* takes apart but the i-th, are alike before that one and behind it.
LEMMA RunsMeet ==
    ASSUME NEW n \in Nat, NEW i \in 1 .. n, NEW g, NEW h, g[0] = h[0], g[n] = h[n],
           \A k \in 1 .. n : k # i => (g[k - 1] = h[k - 1] <=> g[k] = h[k])
    PROVE  g[i - 1] = h[i - 1] /\ g[i] = h[i]
<1> DEFINE A == {k \in 0 .. n : k < i => g[k] = h[k]}
           B == {k \in 0 .. n : k <= n - i => g[n - k] = h[n - k]}
<1>1. ASSUME NEW k \in 1 .. n, k - 1 \in A
      PROVE  k \in A
    <2> SUFFICES ASSUME k < i PROVE g[k] = h[k]
        OBVIOUS
    <2>1. k # i /\ g[k - 1] = h[k - 1]
        BY <1>1
    <2> QED
        BY <2>1, Zenon
<1>2. 0 \in A
    OBVIOUS
<1> HIDE DEF A
<1>3. g[i - 1] = h[i - 1]
    <2>1. \A k \in 0 .. n : k \in A
        BY <1>1, <1>2, BoundedInduction
    <2>2. i - 1 \in 0 .. n /\ i - 1 < i
        OBVIOUS
    <2> QED
        BY <2>1, <2>2 DEF A
<1>4. ASSUME NEW k \in 1 .. n, k - 1 \in B
      PROVE  k \in B
    <2> SUFFICES ASSUME k <= n - i PROVE g[n - k] = h[n - k]
        OBVIOUS
    <2> DEFINE j == (n - k) + 1
    <2>1. j \in 1 .. n /\ j # i /\ j - 1 = n - k /\ n - (k - 1) = j /\ k - 1 <= n - i
        OBVIOUS
    <2>2. g[j] = h[j]
        BY <1>4, <2>1
    <2> HIDE DEF j
    <2>3. g[j - 1] = h[j - 1]
        BY <2>1, <2>2, Zenon
    <2> QED
        BY <2>1, <2>3, Zenon
<1>5. 0 \in B
    <2>1. n - 0 = n /\ 0 \in 0 .. n
        OBVIOUS
    <2> QED
        BY <2>1
<1> HIDE DEF B
<1>6. g[i] = h[i]
    <2>1. \A k \in 0 .. n : k \in B
        BY <1>4, <1>5, BoundedInduction
    <2>2. n - i \in 0 .. n /\ n - i <= n - i /\ n - (n - i) = i
        OBVIOUS
    <2> QED
        BY <2>1, <2>2 DEF B
<1> QED
    BY <1>3, <1>6

\* Messages of one length that differ in one byte leave different registers.
LEMMA DividedDiffers ==
    ASSUME NEW p \in Seq(Octet), NEW q \in Seq(Octet), Len(p) = Len(q), NEW i \in 1 .. Len(p),
           \A k \in 1 .. Len(p) : k # i => p[k] = q[k],
           Divided(p) = Divided(q)
    PROVE  p[i] = q[i]
<1> DEFINE n == Len(p)
<1>1. /\ n \in Nat /\ n = Len(q) /\ i \in 1 .. n
      /\ \A k \in 1 .. n : p[k] \in Octet /\ q[k] \in Octet /\ (k # i => p[k] = q[k])
    OBVIOUS
<1>2. PICK g : Divides(g, p, n) /\ Divided(p) = g[n]
    BY DividedSteps
<1>3. PICK h : Divides(h, q, n) /\ Divided(q) = h[n]
    BY <1>1, DividedSteps
<1> HIDE DEF n
<1>4. \A k \in 1 .. n :
          /\ g[k] = ShiftAll(g[k - 1], ByteBits(p[k])) /\ g[k - 1] \in Register
          /\ h[k] = ShiftAll(h[k - 1], ByteBits(q[k])) /\ h[k - 1] \in Register
    <2> TAKE k \in 1 .. n
    <2>1. k - 1 \in 0 .. n
        BY <1>1
    <2>2. g[k - 1] \in Register /\ h[k - 1] \in Register
        BY <1>2, <1>3, <2>1 DEF Divides
    <2> QED
        BY <1>2, <1>3, <2>2, Zenon DEF Divides
<1>5. ASSUME NEW k \in 1 .. n, k # i
      PROVE  g[k - 1] = h[k - 1] <=> g[k] = h[k]
    <2>1. p[k] = q[k] /\ ByteBits(p[k]) \in Seq(Bit)
        BY <1>1, <1>5, ByteBitsType
    <2>2. ASSUME g[k] = h[k] PROVE g[k - 1] = h[k - 1]
        BY <1>4, <2>1, <2>2, ShiftAllSame
    <2>3. ASSUME g[k - 1] = h[k - 1] PROVE g[k] = h[k]
        BY <1>4, <2>1, <2>3, Zenon
    <2> QED
        BY <2>2, <2>3
<1>6. g[0] = h[0] /\ g[n] = h[n]
    BY <1>2, <1>3, Zenon DEF Divides
<1>7. g[i - 1] = h[i - 1] /\ g[i] = h[i]
    BY <1>1, <1>5, <1>6, RunsMeet
<1>8. /\ ByteBits(p[i]) \in Seq(Bit) /\ Len(ByteBits(p[i])) = 8
      /\ ByteBits(q[i]) \in Seq(Bit) /\ Len(ByteBits(q[i])) = 8
      /\ p[i] \in Octet /\ q[i] \in Octet /\ g[i - 1] \in Register
    BY <1>1, <1>4, ByteBitsType
<1>9. ShiftAll(g[i - 1], ByteBits(p[i])) = ShiftAll(g[i - 1], ByteBits(q[i]))
    BY <1>1, <1>4, <1>7, Zenon
<1>10. ByteBits(p[i]) = ByteBits(q[i])
    BY <1>8, <1>9, ShiftAllBytes
<1> QED
    BY <1>8, <1>10, ByteBitsSame

LEMMA DividedType ==
    ASSUME NEW p \in Seq(Octet)
    PROVE  Divided(p) \in Register
<1>1. PICK g : Divides(g, p, Len(p)) /\ Divided(p) = g[Len(p)]
    BY DividedSteps
<1>2. Len(p) \in 0 .. Len(p)
    OBVIOUS
<1> QED
    BY <1>1, <1>2 DEF Divides

LEMMA SixteenBits ==
    ASSUME NEW s \in Seq(Bit), Len(s) = 16
    PROVE  s \in Register
<1>1. s \in [1 .. Len(s) -> Bit]
    BY SeqIsFunction
<1>2. PICK n : n = Len(s)
    OBVIOUS
<1>3. s \in [1 .. n -> Bit] /\ n = 16
    BY <1>1, <1>2
<1> QED
    BY <1>3, Zenon DEF Register, CrcWidth

\* The register of the second loop, which grows.
Wide == {s \in Seq(Bit) : Len(s) >= CrcWidth}

\* A turn of the second loop is one of the first, as far as the low bits go.
LEMMA GrowLow ==
    ASSUME NEW s \in Wide
    PROVE  /\ Grow(s) \in Wide
           /\ LowBits(s) \in Register
           /\ LowBits(Grow(s)) = ShiftIn(LowBits(s), 0)
<1>1. PICK n, P : n = Len(s) /\ P = Polynomial
    OBVIOUS
<1>2. s \in Seq(Bit) /\ n \in Nat /\ n >= 16
    BY <1>1 DEF Wide, CrcWidth
<1>3. PICK b : b = n - 15
    OBVIOUS
<1>4. b \in Nat \ {0} /\ b + 15 = n /\ Bit15(s) = b /\ b \in 1 .. n
    BY <1>1, <1>2, <1>3 DEF Bit15, CrcWidth
<1>5. \A i \in 1 .. n : s[i] \in Bit
    BY <1>1, <1>2
<1> DEFINE shifted == Append(s, 0)
           divisor == Zeros(b) \o P
           low == LowBits(s)
           t == Grow(s)
<1>6. P \in Seq(Bit) /\ Len(P) = 16 /\ P \in Register /\ \A i \in 1 .. 16 : P[i] \in Bit
    BY <1>1, PolynomialIs, RegisterIsSeq, Zenon
<1>7. 0 \in Bit
    BY DEF Bit
<1>8. /\ shifted \in Seq(Bit) /\ Len(shifted) = n + 1 /\ shifted[n + 1] = 0
      /\ \A i \in 1 .. n : shifted[i] = s[i]
    <2>1. /\ shifted \in Seq(Bit) /\ Len(shifted) = Len(s) + 1 /\ shifted[Len(s) + 1] = 0
          /\ \A i \in 1 .. Len(s) : shifted[i] = s[i]
        BY <1>2, <1>7, ElementsOfAppend
    <2> HIDE DEF shifted
    <2> QED
        BY <1>1, <2>1, Zenon
<1>9. /\ divisor \in Seq(Bit) /\ Len(divisor) = n + 1
      /\ \A i \in 1 .. 16 : divisor[b + i] = P[i]
    <2>1. Zeros(b) \in [1 .. b -> Bit]
        BY <1>7 DEF Zeros
    <2>2. Zeros(b) \in Seq(Bit) /\ Len(Zeros(b)) = b
        BY <1>4, <2>1, FunctionIsSeq
    <2>3. PICK z : z = Zeros(b)
        OBVIOUS
    <2>4. z \in Seq(Bit) /\ Len(z) = b
        BY <2>2, <2>3
    <2>5. /\ z \o P \in Seq(Bit) /\ Len(z \o P) = Len(z) + Len(P)
          /\ \A i \in 1 .. Len(P) : (z \o P)[Len(z) + i] = P[i]
        <3>1. z \in Seq(Bit) /\ P \in Seq(Bit)
            BY <1>6, <2>4, Zenon
        <3>2. z \o P \in Seq(Bit) /\ Len(z \o P) = Len(z) + Len(P)
            BY <3>1, Together, Zenon
        <3>3. \A i \in 1 .. Len(P) : (z \o P)[Len(z) + i] = P[i]
            BY <3>1, SecondOfTwo, Zenon
        <3> QED
            BY <3>2, <3>3, Zenon
    <2>6. PICK d : d = z \o P
        OBVIOUS
    <2>7. d \in Seq(Bit) /\ Len(d) = b + 16 /\ \A i \in 1 .. 16 : d[b + i] = P[i]
        BY <1>6, <2>4, <2>5, <2>6
    <2>8. b + 16 = n + 1
        BY <1>4
    <2> QED
        BY <2>3, <2>6, <2>7, <2>8, Zenon
<1>10. t = IF s[b] = 1 THEN Xor(shifted, divisor) ELSE shifted
    BY <1>1, <1>4 DEF Grow
<1>11. low \in Seq(Bit) /\ Len(low) = 16 /\ \A i \in 1 .. 16 : low[i] = s[(b - 1) + i]
    <2>1. PICK m : m = b - 1
        OBVIOUS
    <2>2. m \in Nat /\ m + 16 <= Len(s) /\ 16 \in Nat /\ m + 1 = b /\ m + 16 = n
        BY <1>1, <1>4, <2>1
    <2>3. LET part == SubSeq(s, m + 1, m + 16)
          IN  part \in Seq(Bit) /\ Len(part) = 16 /\ \A i \in 1 .. 16 : part[i] = s[m + i]
        BY <1>2, <2>2, PartOf, Zenon
    <2>4. low = SubSeq(s, m + 1, m + 16)
        BY <1>1, <1>4, <2>2 DEF LowBits
    <2> QED
        BY <2>1, <2>3, <2>4
<1> HIDE DEF shifted, divisor, low
<1>12. low \in Register
    BY <1>11, SixteenBits
<1>13. /\ t \in Seq(Bit) /\ Len(t) = n + 1
       /\ \A i \in 1 .. 16 : t[b + i] = IF s[b] = 1 THEN (shifted[b + i] + P[i]) % 2
                                                    ELSE shifted[b + i]
    <2> DEFINE x == Xor(shifted, divisor)
    <2>1. x = [i \in 1 .. n + 1 |-> (shifted[i] + divisor[i]) % 2]
        BY <1>8 DEF Xor
    <2>2. \A i \in 1 .. n + 1 : (shifted[i] + divisor[i]) % 2 \in Bit
        <3>1. \A i \in 1 .. n + 1 : shifted[i] \in Bit /\ divisor[i] \in Bit
            BY <1>8, <1>9
        <3>2. \A c, d \in Bit : (c + d) % 2 \in Bit
            BY DEF Bit
        <3> QED
            BY <3>1, <3>2
    <2>3. x \in [1 .. n + 1 -> Bit] /\ n + 1 \in Nat
        BY <1>2, <2>1, <2>2
    <2>4. x \in Seq(Bit) /\ Len(x) = n + 1
        BY <2>3, FunctionIsSeq
    <2>5. \A i \in 1 .. 16 : b + i \in 1 .. n + 1
        BY <1>4
    <2>6. \A i \in 1 .. 16 : x[b + i] = (shifted[b + i] + P[i]) % 2
        BY <1>9, <2>1, <2>5
    <2> HIDE DEF x
    <2>7. t = IF s[b] = 1 THEN x ELSE shifted
        BY <1>10 DEF x
    <2> HIDE DEF t
    <2>8. CASE s[b] = 1
        BY <2>4, <2>6, <2>7, <2>8
    <2>9. CASE s[b] # 1
        BY <1>8, <2>7, <2>9
    <2> QED
        BY <2>8, <2>9
<1> HIDE DEF t
<1>14. t \in Wide
    BY <1>2, <1>13 DEF Wide, CrcWidth
<1>15. /\ LowBits(t) \in Seq(Bit) /\ Len(LowBits(t)) = 16
       /\ \A i \in 1 .. 16 : LowBits(t)[i] = t[b + i]
    <2>1. b \in Nat /\ b + 16 <= Len(t) /\ 16 \in Nat /\ b + 16 = Len(t)
        BY <1>4, <1>13
    <2>2. LET part == SubSeq(t, b + 1, b + 16)
          IN  part \in Seq(Bit) /\ Len(part) = 16 /\ \A i \in 1 .. 16 : part[i] = t[b + i]
        BY <1>13, <2>1, PartOf, Zenon
    <2>3. Bit15(t) = b + 1
        BY <1>4, <1>13 DEF Bit15, CrcWidth
    <2>4. LowBits(t) = SubSeq(t, b + 1, b + 16)
        BY <2>1, <2>3, Zenon DEF LowBits
    <2> QED
        BY <2>2, <2>4, Zenon
<1>16. /\ ShiftIn(low, 0) \in Register
       /\ \A i \in 1 .. 15 :
              ShiftIn(low, 0)[i] = IF low[1] = 1 THEN (low[i + 1] + P[i]) % 2 ELSE low[i + 1]
       /\ ShiftIn(low, 0)[16] = IF low[1] = 1 THEN (0 + 1) % 2 ELSE 0
    BY <1>1, <1>7, <1>12, ShiftInElements, Zenon
<1>17. low[1] = s[b] /\ \A i \in 1 .. 15 : low[i + 1] = shifted[b + i]
    <2>1. 1 \in 1 .. 16 /\ (b - 1) + 1 = b
        BY <1>4
    <2>2. \A i \in 1 .. 15 : i + 1 \in 1 .. 16 /\ (b - 1) + (i + 1) = b + i /\ b + i \in 1 .. n
        BY <1>4
    <2> QED
        BY <1>8, <1>11, <2>1, <2>2
<1>18. shifted[b + 16] = 0 /\ P[16] = 1
    <2>1. b + 16 = n + 1
        BY <1>4
    <2> QED
        BY <1>1, <1>8, <2>1, PolynomialIs
<1>19. \A i \in 1 .. 16 : LowBits(t)[i] = ShiftIn(low, 0)[i]
    <2>1. ASSUME NEW i \in 1 .. 15
          PROVE  LowBits(t)[i] = ShiftIn(low, 0)[i]
        <3>1. i \in 1 .. 16
            OBVIOUS
        <3>2. LowBits(t)[i] = IF s[b] = 1 THEN (shifted[b + i] + P[i]) % 2 ELSE shifted[b + i]
            BY <1>13, <1>15, <3>1, Zenon
        <3>3. ShiftIn(low, 0)[i] = IF s[b] = 1 THEN (shifted[b + i] + P[i]) % 2
                                               ELSE shifted[b + i]
            BY <1>16, <1>17, Zenon
        <3> QED
            BY <3>2, <3>3, Zenon
    <2>2. LowBits(t)[16] = ShiftIn(low, 0)[16]
        BY <1>13, <1>15, <1>16, <1>17, <1>18
    <2> QED
        BY <2>1, <2>2
<1>20. LowBits(t) \in Register
    BY <1>15, SixteenBits, Zenon
<1>21. LowBits(t) = ShiftIn(low, 0)
    BY <1>16, <1>19, <1>20 DEF Register, CrcWidth
<1> QED
    BY <1>12, <1>14, <1>21 DEF t, low

\* A register is its own low bits.
LEMMA RegisterIsLow ==
    ASSUME NEW r \in Register
    PROVE  r \in Wide /\ LowBits(r) = r
<1>1. r \in Seq(Bit) /\ Len(r) = 16
    BY RegisterIsSeq
<1>2. Bit15(r) = 1
    BY <1>1 DEF Bit15, CrcWidth
<1>3. LowBits(r) = SubSeq(r, 1, Len(r))
    BY <1>2 DEF LowBits
<1>4. SubSeq(r, 1, Len(r)) = r
    <2>1. PICK m, l : m = 0 /\ l = 16
        OBVIOUS
    <2>2. m \in Nat /\ l \in Nat /\ m + l <= Len(r)
        BY <1>1, <2>1
    <2>3. PICK a : a = SubSeq(r, m + 1, m + l)
        OBVIOUS
    <2>4. a \in Seq(Bit) /\ Len(a) = l /\ \A j \in 1 .. l : a[j] = r[m + j]
        <3>1. LET part == SubSeq(r, m + 1, m + l)
              IN  part \in Seq(Bit) /\ Len(part) = l /\ \A j \in 1 .. l : part[j] = r[m + j]
            BY <1>1, <2>2, PartOf
        <3> QED
            BY <2>3, <3>1, Zenon
    <2>5. Len(a) = Len(r) /\ \A j \in 1 .. Len(a) : a[j] = r[j]
        BY <1>1, <2>1, <2>4
    <2>6. a = r
        BY <1>1, <2>4, <2>5, SameSequence, Zenon
    <2>7. m + 1 = 1 /\ m + l = Len(r)
        BY <1>1, <2>1
    <2> QED
        BY <2>3, <2>6, <2>7, Zenon
<1>5. r \in Wide
    <2>1. Len(r) >= CrcWidth
        BY <1>1 DEF CrcWidth
    <2> QED
        BY <1>1, <2>1, Zenon DEF Wide
<1> QED
    BY <1>3, <1>4, <1>5, Zenon

\* Sixteen turns of the second loop leave, in the low bits, what sixteen zeros shifted in
\* would.
LEMMA GrownLow ==
    ASSUME NEW r \in Register
    PROVE  LowBits(Grown(r)) = ShiftAll(r, Zeros(CrcWidth))
<1> DEFINE Step == [k \in 1 .. 16 |-> [x \in Wide |-> Grow(x)]]
           IsCrc(f) == f = [k \in 0 .. 16 |-> IF k = 0 THEN r ELSE Grow(f[k - 1])]
           crc == CHOOSE f : IsCrc(f)
           zeros == Zeros(CrcWidth)
<1>1. PICK n \in Nat : n = 16
    OBVIOUS
<1>2. Grown(r) = crc[n]
    BY <1>1 DEF Grown, CrcWidth
<1>3. \A x \in Wide : Grow(x) \in Wide
    BY GrowLow
<1>4. IsRecursion(n, Wide, r, Step)
    BY <1>1, <1>3, RegisterIsLow DEF IsRecursion
<1>5. \A x \in Wide, k \in 1 .. n : Step[k][x] = Grow(x)
    BY <1>1
<1> HIDE DEF Step
<1>6. PICK g : Solves(g, n, Wide, r, Step)
    BY <1>4, RecursionExists
<1>7. g \in [0 .. n -> Wide] /\ g[0] = r /\ \A k \in 1 .. n : g[k] = Grow(g[k - 1])
    <2>1. ASSUME NEW k \in 1 .. n
          PROVE  g[k] = Grow(g[k - 1])
        <3>1. g[k - 1] \in Wide /\ g[k] = Step[k][g[k - 1]]
            BY <1>6 DEF Solves
        <3> QED
            BY <1>5, <3>1
    <2> QED
        BY <1>6, <2>1 DEF Solves
<1>8. IsCrc(g)
    BY <1>1, <1>7
<1>9. IsCrc(crc)
    BY <1>8
<1> HIDE DEF crc
<1>10. crc[0] = r
    BY <1>9
<1>11. ASSUME NEW k \in 1 .. n
       PROVE  crc[k] = Grow(crc[k - 1])
    <2>1. k \in 0 .. 16 /\ k # 0
        BY <1>1
    <2> QED
        BY <1>9, <2>1, Zenon
<1>12. \A k \in 1 .. n : crc[k - 1] \in Wide => crc[k] = Step[k][crc[k - 1]]
    BY <1>5, <1>11
<1>13. \A k \in 0 .. n : crc[k] = g[k]
    BY <1>6, <1>10, <1>12, RecursionUnique
<1>14. Grown(r) = g[n]
    BY <1>1, <1>2, <1>13
<1>15. zeros \in Seq(Bit) /\ Len(zeros) = n /\ \A k \in 1 .. n : zeros[k] = 0
    BY <1>1, ZerosType, RegisterIsSeq DEF Zeros, CrcWidth
<1> HIDE DEF zeros
<1>16. PICK h : Shifts(h, r, zeros, n) /\ ShiftAll(r, zeros) = h[n]
    BY <1>15, ShiftAllSteps
<1> DEFINE A == {k \in 0 .. n : LowBits(g[k]) = h[k]}
<1>17. 0 \in A
    BY <1>7, <1>16, RegisterIsLow DEF Shifts
<1>18. ASSUME NEW k \in 1 .. n, k - 1 \in A
       PROVE  k \in A
    <2>1. k \in 0 .. n /\ k - 1 \in 0 .. n
        OBVIOUS
    <2>2. g[k - 1] \in Wide /\ g[k] = Grow(g[k - 1]) /\ LowBits(g[k - 1]) = h[k - 1]
        BY <1>7, <1>18, <2>1
    <2>3. h[k] = ShiftIn(h[k - 1], 0)
        BY <1>15, <1>16 DEF Shifts
    <2>4. LowBits(g[k]) = h[k]
        BY <2>2, <2>3, GrowLow, Zenon
    <2> QED
        BY <2>1, <2>4
<1> HIDE DEF A
<1>19. \A k \in 0 .. n : k \in A
    BY <1>1, <1>17, <1>18, BoundedInduction
<1>20. LowBits(g[n]) = h[n]
    BY <1>19 DEF A
<1> QED
    BY <1>14, <1>16, <1>20 DEF zeros

\* Although its second loop cuts nothing off, crcbitbybit is what a register of 16 bits
\* would give.
LEMMA CrcIs ==
    ASSUME NEW p \in Seq(Octet)
    PROVE  crcbitbybit(p) = ValueOf(reflect(ShiftAll(Divided(p), Zeros(CrcWidth))))
BY DividedType, GrownLow DEF crcbitbybit

\* The checksum has 16 bits.
LEMMA ChecksumType ==
    ASSUME NEW p \in Seq(Octet)
    PROVE  crcbitbybit(p) \in Word
<1> DEFINE r == ShiftAll(Divided(p), Zeros(CrcWidth))
<1>1. r \in Register
    BY DividedType, ZerosType, ShiftAllType
<1>2. reflect(r) \in Register
    <2>1. PICK n \in Nat : n = CrcWidth
        BY DEF CrcWidth
    <2> QED
        BY <1>1, <2>1, ReflectedType DEF Register
<1> QED
    BY <1>2, CrcIs, ValueOfRegister

\* Its two bytes, the low one first, are bytes.
LEMMA FcsType ==
    ASSUME NEW p \in Seq(Octet)
    PROVE  /\ FCS(p) \in Seq(Octet) /\ Len(FCS(p)) = 2
           /\ FCS(p)[1] = crcbitbybit(p) % 256 /\ FCS(p)[2] = crcbitbybit(p) \div 256
<1> DEFINE crc == crcbitbybit(p)
<1>1. crc \in Nat /\ crc < 65536
    BY ChecksumType DEF Word
<1>2. FCS(p) = <<crc % 256, crc \div 256>>
    BY DEF FCS
<1> HIDE DEF crc
<1>3. crc % 256 \in Octet /\ crc \div 256 \in Octet
    BY <1>1 DEF Octet
<1> QED
    BY <1>2, <1>3 DEF crc

\* And tells a message from every other that differs from it in one byte.
LEMMA ChecksumDiffers ==
    ASSUME NEW p \in Seq(Octet), NEW q \in Seq(Octet), Len(p) = Len(q), NEW i \in 1 .. Len(p),
           \A k \in 1 .. Len(p) : k # i => p[k] = q[k], p[i] # q[i]
    PROVE  crcbitbybit(p) # crcbitbybit(q)
<1> SUFFICES ASSUME crcbitbybit(p) = crcbitbybit(q) PROVE FALSE
    OBVIOUS
<1> DEFINE r == ShiftAll(Divided(p), Zeros(CrcWidth))
           s == ShiftAll(Divided(q), Zeros(CrcWidth))
<1>1. r \in Register /\ s \in Register
    BY DividedType, ZerosType, ShiftAllType
<1>2. PICK n \in Nat : n = CrcWidth
    BY DEF CrcWidth
<1>3. reflect(r) \in Register /\ reflect(s) \in Register
    BY <1>1, <1>2, ReflectedType DEF Register
<1>4. reflect(r) = reflect(s)
    <2>1. ValueOf(reflect(r)) = ValueOf(reflect(s))
        BY CrcIs
    <2> QED
        BY <1>3, <2>1, ValueOfDiffers
<1>5. r = s
    BY <1>1, <1>2, <1>4, ReflectedSame DEF Register
<1>6. Divided(p) = Divided(q)
    BY <1>5, DividedType, ZerosType, ShiftAllSame
<1> QED
    BY <1>6, DividedDiffers

\* The padding is shorter than a unit, and fills the last one.
LEMMA PaddingFills ==
    ASSUME NEW n \in Nat
    PROVE  /\ npadding_bytes(n) \in 0 .. byte_modulus - 1
           /\ (n + npadding_bytes(n)) % byte_modulus = 0
<1>1. n % 2 \in 0 .. 1
    OBVIOUS
<1>2. CASE n % 2 = 0
    BY <1>2 DEF npadding_bytes, byte_modulus
<1>3. CASE n % 2 = 1
    <2>1. npadding_bytes(n) = 1
        BY <1>3 DEF npadding_bytes, byte_modulus
    <2>2. (n + 1) % 2 = 0
        BY <1>3
    <2> QED
        BY <2>1, <2>2 DEF byte_modulus
<1> QED
    BY <1>1, <1>2, <1>3

\* The PHR of lengths that the builder accepts.
LEMMA PhrRange ==
    ASSUME NEW a \in Nat, NEW p \in Nat, p <= 123 - a
    PROVE  PHR(a, p) = 5 + a + p /\ 5 + a + p \in 5 .. MAX_PKT_SIZE
BY DEF PHR, MAX_PKT_SIZE

\* What the builder concatenates, and the PHR it has computed by then.
LEMMA MpduLength ==
    ASSUME NEW FCF \in Seq(Octet), NEW seq \in Seq(Octet), Len(seq) = 1,
           NEW addressInfo \in Seq(Octet), NEW payload \in Seq(Octet),
           NEW seqNr \in Nat, Accepts(Len(FCF), seqNr, Len(addressInfo), Len(payload))
    PROVE  LET MPDU == FCF \o seq \o addressInfo \o payload
           IN  /\ MPDU \in Seq(Octet)
               /\ PHR(Len(addressInfo), Len(payload)) = Len(MPDU) + 2
               /\ Len(MPDU) + 2 \in 5 .. MAX_PKT_SIZE
<1> DEFINE two == FCF \o seq
           three == two \o addressInfo
           MPDU == three \o payload
<1>1. two \in Seq(Octet) /\ Len(two) = Len(FCF) + 1
    BY Together
<1> HIDE DEF two
<1>2. three \in Seq(Octet) /\ Len(three) = Len(two) + Len(addressInfo)
    BY <1>1, Together
<1> HIDE DEF three
<1>3. MPDU \in Seq(Octet) /\ Len(MPDU) = Len(three) + Len(payload)
    BY <1>2, Together
<1> HIDE DEF MPDU
<1>4. /\ Len(FCF) = 2 /\ Len(payload) <= 123 - Len(addressInfo)
      /\ Len(addressInfo) \in Nat /\ Len(payload) \in Nat
    BY DEF Accepts, MAX_PKT_SIZE
<1>5. Len(MPDU) = 3 + Len(addressInfo) + Len(payload)
    BY <1>1, <1>2, <1>3, <1>4
<1>6. /\ PHR(Len(addressInfo), Len(payload)) = Len(MPDU) + 2
      /\ Len(MPDU) + 2 \in 5 .. MAX_PKT_SIZE
    <2>1. Len(MPDU) + 2 = 5 + Len(addressInfo) + Len(payload)
        BY <1>4, <1>5
    <2> QED
        BY <1>4, <2>1, PhrRange
<1> QED
    BY <1>3, <1>6, Zenon DEF MPDU, three, two

\* A sequence between two others.
LEMMA Between ==
    ASSUME NEW S, NEW a \in Seq(S), NEW b \in Seq(S), NEW c \in Seq(S)
    PROVE  SubSeq(a \o b \o c, Len(a) + 1, Len(a) + Len(b)) = b
<1>1. a \o b \in Seq(S) /\ a \o b \o c \in Seq(S)
    OBVIOUS
<1>2. Len(a \o b \o c) = Len(a) + Len(b) + Len(c)
    OBVIOUS
<1>3. \A k \in 1 .. Len(b) : (a \o b \o c)[Len(a) + k] = b[k]
    OBVIOUS
<1>4. SubSeq(a \o b \o c, Len(a) + 1, Len(a) + Len(b)) \in Seq(S)
    BY <1>1, <1>2
<1> QED
    BY <1>1, <1>2, <1>3, <1>4, SameSequence

\* A packet of head, body and padding.
LEMMA Layout ==
    ASSUME NEW S, NEW head \in Seq(S), NEW body \in Seq(S), NEW pad \in Seq(S),
           Len(head) \in 1 .. Len(head)
    PROVE  /\ Len(head \o body \o pad) = Len(head) + Len(body) + Len(pad)
           /\ (head \o body \o pad)[Len(head)] = head[Len(head)]
           /\ SubSeq(head \o body \o pad, Len(head) + 1, Len(head) + Len(body)) = body
<1> DEFINE core == head \o body
<1>1. core \in Seq(S) /\ Len(core) = Len(head) + Len(body)
    BY Together
<1>2. core[Len(head)] = head[Len(head)]
    BY FirstOfTwo, Zenon
<1>3. SubSeq(core \o pad, Len(head) + 1, Len(head) + Len(body)) = body
    BY Between
<1>4. Len(head) \in Nat /\ Len(body) \in Nat
    OBVIOUS
<1> HIDE DEF core
<1>5. Len(core \o pad) = Len(head) + Len(body) + Len(pad)
    <2>1. Len(core \o pad) = Len(core) + Len(pad)
        BY <1>1, Together, Zenon
    <2> QED
        BY <1>1, <2>1, Zenon
<1>6. (core \o pad)[Len(head)] = head[Len(head)]
    <2>1. Len(head) \in 1 .. Len(core)
        BY <1>1, <1>4
    <2> QED
        BY <1>1, <1>2, <2>1, FirstOfTwo, Zenon
<1> QED
    BY <1>3, <1>5, <1>6, Zenon DEF core

\* What the builder makes the checksum of.
MpduOf(FCF, seqNr, addressInfo, payload) == FCF \o <<seqNr>> \o addressInfo \o payload

(***************************************************************************)
(* The length byte, which the builder computes from two lengths before it  *)
(* has the frame, is the number of bytes from it to the padding: a         *)
(* receiver that takes as many gets the MPDU and the FCS, whole and        *)
(* nothing else.  The packet fills whole transfer units                    *)
(* (transmit_path.py:66-102).                                              *)
(***************************************************************************)
THEOREM FrameTakenApart ==
    ASSUME NEW FCF \in Seq(Octet), NEW seqNr \in Nat,
           NEW addressInfo \in Seq(Octet), NEW payload \in Seq(Octet),
           Accepts(Len(FCF), seqNr, Len(addressInfo), Len(payload))
    PROVE  LET MPDU   == MpduOf(FCF, seqNr, addressInfo, payload)
               packet == make_ieee802_15_4_packet(FCF, seqNr, addressInfo, payload)
           IN  /\ packet \in Seq(Octet)
               /\ packet[Len(SHR) + 1] = Len(MPDU) + 2
               /\ PsduOf(packet) = MPDU \o FCS(MPDU)
               /\ Len(packet) % byte_modulus = 0
               /\ Len(packet) - (Len(SHR) + 1 + Len(PsduOf(packet))) \in 0 .. byte_modulus - 1
<1> DEFINE MPDU == FCF \o <<seqNr>> \o addressInfo \o payload
           phr  == PHR(Len(addressInfo), Len(payload))
           head == SHR \o <<phr>>
           body == MPDU \o FCS(MPDU)
           core == head \o MPDU \o FCS(MPDU)
           pad  == Zeros(npadding_bytes(Len(core)))
           packet == make_ieee802_15_4_packet(FCF, seqNr, addressInfo, payload)
<1>1. MPDU \in Seq(Octet) /\ phr = Len(MPDU) + 2 /\ Len(MPDU) + 2 \in 5 .. MAX_PKT_SIZE
    <2>1. <<seqNr>> \in Seq(Octet) /\ Len(<<seqNr>>) = 1
        BY DEF Accepts, Octet
    <2> DEFINE seq == <<seqNr>>
    <2>2. seq \in Seq(Octet) /\ Len(seq) = 1
        BY <2>1
    <2> HIDE DEF seq
    <2>3. /\ FCF \o seq \o addressInfo \o payload \in Seq(Octet)
          /\ phr = Len(FCF \o seq \o addressInfo \o payload) + 2
          /\ Len(FCF \o seq \o addressInfo \o payload) + 2 \in 5 .. MAX_PKT_SIZE
        BY <2>2, MpduLength, Zenon
    <2> QED
        BY <2>3, Zenon DEF seq
<1>2. FCS(MPDU) \in Seq(Octet) /\ Len(FCS(MPDU)) = 2
    BY <1>1, FcsType, Zenon
<1>3. MPDU \in Seq(Octet)
    BY <1>1
<1>4. head \in Seq(Octet) /\ Len(head) = 6 /\ head[6] = phr /\ Len(SHR) = 5
    BY <1>1 DEF SHR, Octet, MAX_PKT_SIZE
<1>5. packet = core \o pad
    BY DEF make_ieee802_15_4_packet
<1>6. Zeros(npadding_bytes(Len(core))) = pad
    OBVIOUS
<1> HIDE DEF MPDU, phr, head, packet, pad
<1>7. core = head \o body
    <2>1. \A a, b, c \in Seq(Octet) : a \o b \o c = a \o (b \o c)
        BY Associative, SMTT(30)
    <2> QED
        BY <1>2, <1>3, <1>4, <2>1, Zenon
<1> HIDE DEF core
<1>8. body \in Seq(Octet) /\ Len(body) = Len(MPDU) + 2
    BY <1>2, <1>3, Together
<1> HIDE DEF body
<1>9. core \in Seq(Octet) /\ Len(core) = 6 + phr
    <2>1. core \in Seq(Octet) /\ Len(core) = Len(head) + Len(body)
        BY <1>4, <1>7, <1>8, Together, Zenon
    <2> QED
        BY <1>1, <1>4, <1>8, <2>1
<1>10. /\ npadding_bytes(Len(core)) \in 0 .. byte_modulus - 1
       /\ (Len(core) + npadding_bytes(Len(core))) % byte_modulus = 0
    BY <1>1, <1>9, PaddingFills DEF MAX_PKT_SIZE
<1>11. pad \in Seq(Octet) /\ Len(pad) = npadding_bytes(Len(core))
    <2> DEFINE n == npadding_bytes(Len(core))
    <2>1. n \in Nat
        BY <1>10 DEF byte_modulus
    <2>2. pad = Zeros(n)
        BY <1>6
    <2> HIDE DEF n
    <2>3. pad \in [1 .. n -> Octet] /\ DOMAIN pad = 1 .. n
        BY <2>1, <2>2 DEF Zeros, Octet
    <2>4. pad \in Seq(Octet) /\ Len(pad) = n
        BY <2>1, <2>3, FunctionIsSeq
    <2> QED
        BY <2>4 DEF n
<1>12. packet = head \o body \o pad
    BY <1>5, <1>7
<1>13. /\ Len(packet) = 6 + Len(body) + Len(pad) /\ packet[6] = phr
       /\ SubSeq(packet, 7, 6 + Len(body)) = body
    <2>1. Len(head) \in 1 .. Len(head)
        BY <1>4
    <2>2. /\ Len(packet) = Len(head) + Len(body) + Len(pad)
          /\ packet[Len(head)] = head[Len(head)]
          /\ SubSeq(packet, Len(head) + 1, Len(head) + Len(body)) = body
        <3>1. /\ Len(head \o body \o pad) = Len(head) + Len(body) + Len(pad)
              /\ (head \o body \o pad)[Len(head)] = head[Len(head)]
              /\ SubSeq(head \o body \o pad, Len(head) + 1, Len(head) + Len(body)) = body
            <4>1. \A b, p \in Seq(Octet) :
                      /\ Len(head \o b \o p) = Len(head) + Len(b) + Len(p)
                      /\ (head \o b \o p)[Len(head)] = head[Len(head)]
                      /\ SubSeq(head \o b \o p, Len(head) + 1, Len(head) + Len(b)) = b
                BY <1>4, <2>1, Layout, ZenonT(30)
            <4> QED
                BY <1>8, <1>11, <4>1, Zenon
        <3> QED
            BY <1>12, <3>1, Zenon
    <2> QED
        BY <1>4, <2>2
<1>14. PsduOf(packet) = body
    BY <1>1, <1>4, <1>8, <1>13 DEF PsduOf
<1>15. Len(packet) = Len(core) + npadding_bytes(Len(core))
    BY <1>1, <1>8, <1>9, <1>11, <1>13 DEF MAX_PKT_SIZE
<1>16. Len(packet) - (Len(SHR) + 1 + Len(PsduOf(packet))) = npadding_bytes(Len(core))
    <2>1. /\ Len(packet) = 6 + phr + npadding_bytes(Len(core)) /\ Len(PsduOf(packet)) = phr
          /\ phr \in Int /\ npadding_bytes(Len(core)) \in Int
        BY <1>1, <1>8, <1>9, <1>10, <1>14, <1>15 DEF byte_modulus, MAX_PKT_SIZE
    <2> QED
        BY <1>4, <2>1
<1>17. packet[Len(SHR) + 1] = Len(MPDU) + 2
    BY <1>1, <1>4, <1>13
<1>18. /\ Len(packet) % byte_modulus = 0
       /\ Len(packet) - (Len(SHR) + 1 + Len(PsduOf(packet))) \in 0 .. byte_modulus - 1
    BY <1>10, <1>15, <1>16, Zenon
<1>19. packet \in Seq(Octet)
    BY <1>5, <1>9, <1>11, Together, Zenon
<1> QED
    BY <1>14, <1>17, <1>18, <1>19, Zenon DEF packet, body, MPDU, MpduOf

\* The first of two sequences, taken off again.
LEMMA FrontOfTwo ==
    ASSUME NEW S, NEW a \in Seq(Octet), NEW b \in Seq(Octet)
    PROVE  SubSeq(a \o b, 1, Len(a)) = a
<1>1. <<>> \in Seq(Octet) /\ Len(<<>>) = 0 /\ <<>> \o a = a /\ Len(a) \in Nat
    BY NothingBetween
<1>2. SubSeq(<<>> \o a \o b, Len(<<>>) + 1, Len(<<>>) + Len(a)) = a
    BY <1>1, Between, Zenon
<1> QED
    BY <1>1, <1>2

(***************************************************************************)
(* The builder's FCS, low byte first in whatever checksum it has computed, *)
(* passes the watcher's test, which reads it back from the end of what a   *)
(* receiver takes (transmit_path.py:75, ieee_pkt_receiver.py:84-91).       *)
(***************************************************************************)
THEOREM WatcherAccepts ==
    ASSUME NEW MPDU \in Seq(Octet)
    PROVE  ok(MPDU \o FCS(MPDU))
<1> DEFINE crc  == crcbitbybit(MPDU)
           fcs  == FCS(MPDU)
           psdu == MPDU \o fcs
           n    == Len(psdu)
<1>1. /\ fcs \in Seq(Int) /\ Len(fcs) = 2
      /\ fcs[1] = crc % 256 /\ fcs[2] = crc \div 256
    <2>1. fcs \in Seq(Octet) /\ Octet \subseteq Int
        BY FcsType DEF Octet
    <2>2. fcs \in Seq(Int)
        BY <2>1, Wider
    <2> QED
        BY <2>2, FcsType
<1>2. MPDU \in Seq(Int)
    <2>1. Octet \subseteq Int
        BY DEF Octet
    <2> QED
        BY <2>1, Wider
<1>3. (crc % 256) + (crc \div 256) * 256 = crc
    <2>1. crc \in Int
        BY ChecksumType DEF Word
    <2> HIDE DEF crc
    <2> QED
        BY <2>1
<1> HIDE DEF crc, fcs
<1>4. SubSeq(psdu, 1, n - 2) = MPDU /\ psdu[n - 1] = fcs[1] /\ psdu[n] = fcs[2]
    <2>1. fcs \in Seq(Int)
        BY <1>1
    <2>2. SubSeq(psdu, 1, Len(MPDU)) = MPDU
        <3>1. \A x, y \in Seq(Int) : SubSeq(x \o y, 1, Len(x)) = x
            BY FrontOfTwo
        <3> QED
            BY <1>2, <2>1, <3>1, Zenon
    <2>3. \A k \in 1 .. Len(fcs) : psdu[Len(MPDU) + k] = fcs[k]
        BY <1>2, <2>1, SecondOfTwo, Zenon
    <2>4. n = Len(MPDU) + Len(fcs)
        BY <1>2, <2>1, Together, Zenon
    <2> HIDE DEF psdu
    <2>5. /\ n - 2 = Len(MPDU) /\ n - 1 = Len(MPDU) + 1 /\ n = Len(MPDU) + 2
          /\ 1 \in 1 .. Len(fcs) /\ 2 \in 1 .. Len(fcs)
        BY <1>1, <1>2, <2>4
    <2> QED
        BY <2>2, <2>3, <2>5
<1> HIDE DEF psdu
<1>5. ok(psdu)
    <2>1. psdu[n - 1] + psdu[n] * 256 = crc
        BY <1>1, <1>3, <1>4
    <2> QED
        BY <1>4, <2>1, Zenon DEF ok, crc
<1> QED
    BY <1>5 DEF psdu, fcs

\* A byte of the checksum, or the other, is known from the number.
LEMMA BytesOfNumber ==
    \A a, b, c, d \in Octet : a + b * 256 = c + d * 256 => a = c /\ b = d
BY DEF Octet

(***************************************************************************)
(* No receiver takes a frame for another one that was damaged within one   *)
(* byte, wherever that byte is, the two of the FCS included, and whatever  *)
(* it becomes: of what the watcher calls ok, nothing else that differs in  *)
(* one byte is (crc16.py:25-52, ieee_pkt_receiver.py:84-91).               *)
(***************************************************************************)
THEOREM OneByteIsFound ==
    ASSUME NEW psdu \in Seq(Octet), Len(psdu) >= 2, ok(psdu),
           NEW i \in 1 .. Len(psdu), NEW b \in Octet, b # psdu[i]
    PROVE  ~ok([psdu EXCEPT ![i] = b])
<1> DEFINE n    == Len(psdu)
           hit  == [psdu EXCEPT ![i] = b]
           mpdu == SubSeq(psdu, 1, n - 2)
           rest == SubSeq(hit, 1, n - 2)
<1>1. /\ n \in Nat /\ n - 2 \in Nat /\ i \in 1 .. n
      /\ hit \in Seq(Octet) /\ Len(hit) = n /\ hit[i] = b
      /\ \A k \in 1 .. n : k # i => hit[k] = psdu[k]
    BY ReplacedElement
<1>2. \A k \in 1 .. n : psdu[k] \in Octet /\ hit[k] \in Octet
    <2>1. \A s \in Seq(Octet) : \A k \in 1 .. Len(s) : s[k] \in Octet
        OBVIOUS
    <2> QED
        BY <1>1, <2>1, Zenon
<1> HIDE DEF hit
<1>3. /\ mpdu \in Seq(Octet) /\ Len(mpdu) = n - 2
      /\ \A k \in 1 .. n - 2 : mpdu[k] = psdu[k]
    BY <1>1
<1>4. /\ rest \in Seq(Octet) /\ Len(rest) = n - 2
      /\ \A k \in 1 .. n - 2 : rest[k] = hit[k]
    BY <1>1
<1>5. crcbitbybit(mpdu) = psdu[n - 1] + psdu[n] * 256
    BY DEF ok
<1> SUFFICES ASSUME ok(hit) PROVE FALSE
    BY DEF hit
<1>6. crcbitbybit(rest) = hit[n - 1] + hit[n] * 256
    BY <1>1 DEF ok
<1> HIDE DEF n, mpdu, rest
<1>7. n - 1 \in 1 .. n /\ n \in 1 .. n
    BY <1>1
<1>8. CASE i \in 1 .. n - 2
    <2>1. hit[n - 1] = psdu[n - 1] /\ hit[n] = psdu[n]
        <3>1. n - 1 # i /\ n # i
            BY <1>1, <1>8
        <3> QED
            BY <1>1, <1>7, <3>1, Zenon
    <2>2. crcbitbybit(mpdu) = crcbitbybit(rest)
        BY <1>5, <1>6, <2>1, Zenon
    <2>3. /\ \A k \in 1 .. Len(mpdu) : k # i => mpdu[k] = rest[k]
          /\ mpdu[i] # rest[i] /\ Len(mpdu) = Len(rest) /\ i \in 1 .. Len(mpdu)
        BY <1>1, <1>3, <1>4, <1>8
    <2> QED
        BY <1>3, <1>4, <2>2, <2>3, ChecksumDiffers
<1>9. CASE i \notin 1 .. n - 2
    <2>1. mpdu = rest
        <3>1. ASSUME NEW k \in 1 .. n - 2
              PROVE  mpdu[k] = rest[k]
            <4>1. k \in 1 .. n /\ k # i
                BY <1>1, <1>9
            <4> QED
                BY <1>1, <1>3, <1>4, <4>1, Zenon
        <3> QED
            BY <1>3, <1>4, <3>1, SameSequence
    <2>2. psdu[n - 1] + psdu[n] * 256 = hit[n - 1] + hit[n] * 256
        BY <1>5, <1>6, <2>1, Zenon
    <2>3. /\ psdu[n - 1] \in Octet /\ psdu[n] \in Octet
          /\ hit[n - 1] \in Octet /\ hit[n] \in Octet
        BY <1>2, <1>7, Zenon
    <2>4. psdu[n - 1] = hit[n - 1] /\ psdu[n] = hit[n]
        BY <2>2, <2>3, BytesOfNumber
    <2>5. i = n - 1 \/ i = n
        BY <1>1, <1>9
    <2> QED
        BY <1>1, <2>4, <2>5
<1> QED
    BY <1>8, <1>9

(***************************************************************************)
(* What the FCF holds.                                                     *)
(***************************************************************************)
Subfields(f) ==
    f.frameType + 8 * f.securityEnabled + 16 * f.framePending + 32 * f.acknowledgeRequest
        + 64 * f.intraPAN + 1024 * f.destinationAddressingMode + 16384 * f.sourceAddressingMode

\* The fields of the FCF are read back at their places.
LEMMA SubfieldsRead ==
    ASSUME NEW f \in FcfFields
    PROVE  LET v == Subfields(f)
           IN  /\ v \in Word
               /\ f = [frameType |-> v % 8, securityEnabled |-> (v \div 8) % 2,
                       framePending |-> (v \div 16) % 2,
                       acknowledgeRequest |-> (v \div 32) % 2, intraPAN |-> (v \div 64) % 2,
                       destinationAddressingMode |-> (v \div 1024) % 4,
                       sourceAddressingMode |-> v \div 16384]
<1> DEFINE v == Subfields(f)
<1>1. PICK a \in 0 .. 7, b \in 0 .. 1, c \in 0 .. 1, d \in 0 .. 1, e \in 0 .. 1,
           g \in 0 .. 3, h \in 0 .. 3 :
          f = [frameType |-> a, securityEnabled |-> b, framePending |-> c,
               acknowledgeRequest |-> d, intraPAN |-> e,
               destinationAddressingMode |-> g, sourceAddressingMode |-> h]
    <2>1. /\ f.frameType \in 0 .. 7 /\ f.securityEnabled \in 0 .. 1
          /\ f.framePending \in 0 .. 1 /\ f.acknowledgeRequest \in 0 .. 1
          /\ f.intraPAN \in 0 .. 1 /\ f.destinationAddressingMode \in 0 .. 3
          /\ f.sourceAddressingMode \in 0 .. 3
        BY DEF FcfFields, Bit
    <2>2. f = [frameType |-> f.frameType, securityEnabled |-> f.securityEnabled,
               framePending |-> f.framePending, acknowledgeRequest |-> f.acknowledgeRequest,
               intraPAN |-> f.intraPAN,
               destinationAddressingMode |-> f.destinationAddressingMode,
               sourceAddressingMode |-> f.sourceAddressingMode]
        BY DEF FcfFields
    <2> QED
        BY <2>1, <2>2, Zenon
<1>2. v = a + 8 * b + 16 * c + 32 * d + 64 * e + 1024 * g + 16384 * h
    BY <1>1 DEF Subfields
<1> HIDE DEF v
<1>3. v \in Word
    BY <1>2 DEF Word
<1>4. v % 8 = a
    BY <1>2
<1>5. (v \div 8) % 2 = b
    BY <1>2
<1>6. (v \div 16) % 2 = c
    BY <1>2
<1>7. (v \div 32) % 2 = d
    BY <1>2
<1>8. (v \div 64) % 2 = e
    BY <1>2
<1>9. (v \div 1024) % 4 = g
    BY <1>2
<1>10. v \div 16384 = h
    BY <1>2
<1> QED
    BY <1>1, <1>3, <1>4, <1>5, <1>6, <1>7, <1>8, <1>9, <1>10 DEF v

LEMMA FcfType ==
    ASSUME NEW f \in FcfFields
    PROVE  /\ make_FCF(f) \in Seq(Octet) /\ Len(make_FCF(f)) = 2
           /\ make_FCF(f)[1] + 256 * make_FCF(f)[2] = Subfields(f)
<1> DEFINE v == Subfields(f)
<1>1. v \in Word
    BY SubfieldsRead
<1>2. make_FCF(f) = <<v % 256, v \div 256>>
    BY DEF make_FCF, Subfields
<1> HIDE DEF v
<1>3. v % 256 \in Octet /\ v \div 256 \in Octet /\ (v % 256) + 256 * (v \div 256) = v
    BY <1>1 DEF Octet, Word
<1> QED
    BY <1>2, <1>3 DEF v

(***************************************************************************)
(* The inductive invariant: a packet, once it is there, is what the        *)
(* builder made of the call, which it has accepted.                        *)
(***************************************************************************)
IeeeFrame ==
    LET FCF == make_FCF(call.fcf)
    IN  /\ Accepts(Len(FCF), call.seqNr, Len(call.address), Len(call.payload))
        /\ pkt = make_ieee802_15_4_packet(FCF, call.seqNr, call.address, call.payload)

SosPacket == SosAccepts(call.payload) /\ pkt = make_sos_packet(call.fields, call.payload)

CallsInv ==
    \/ standard = "ieee" /\ call \in IeeeCalls /\ (pkt = <<>> \/ IeeeFrame)
    \/ standard = "sos" /\ call \in SosCalls /\ (pkt = <<>> \/ SosPacket)

LEMMA CallsStay ==
    Spec => []CallsInv
<1>1. Init => CallsInv
    BY DEF Init, CallsInv
<1>2. CallsInv /\ [Next]_vars => CallsInv'
    <2> SUFFICES ASSUME CallsInv, [Next]_vars PROVE CallsInv'
        OBVIOUS
    <2>1. CASE Build
        <3>1. /\ standard' = standard /\ call' = call /\ standard = "ieee"
              /\ call \in IeeeCalls
            BY <2>1 DEF Build, CallsInv
        <3>2. IeeeFrame'
            BY <2>1, <3>1 DEF Build, IeeeFrame
        <3> QED
            BY <3>1, <3>2 DEF CallsInv
    <2>2. CASE BuildSos
        <3>1. /\ standard' = standard /\ call' = call /\ standard = "sos"
              /\ call \in SosCalls
            BY <2>2 DEF BuildSos, CallsInv
        <3>2. SosPacket'
            BY <2>2, <3>1 DEF BuildSos, SosPacket
        <3> QED
            BY <3>1, <3>2 DEF CallsInv
    <2>3. CASE Hit
        BY <2>3 DEF Hit, CallsInv, IeeeFrame, SosPacket
    <2>4. CASE UNCHANGED vars
        BY <2>4 DEF vars, CallsInv, IeeeFrame, SosPacket
    <2> QED
        BY <2>1, <2>2, <2>3, <2>4 DEF Next
<1> QED
    BY <1>1, <1>2, PTL DEF Spec

\* What is known of a frame.
LEMMA FrameIs ==
    ASSUME CallsInv, IsFrame
    PROVE  /\ IeeeFrame
           /\ call.fcf \in FcfFields /\ call.seqNr \in Nat
           /\ call.address \in Seq(Octet) /\ call.payload \in Seq(Octet)
<1>1. call \in IeeeCalls /\ IeeeFrame
    BY DEF CallsInv, IsFrame
<1>2. call \in [fcf : FcfFields, seqNr : Nat, address : Seq(Octet), payload : Seq(Octet)]
    BY <1>1, CallsAssumption
<1> QED
    BY <1>1, <1>2

TwoBytes == {s \in Seq(Octet) : Len(s) = 2}

\* The parts of what a receiver takes are those of the call.
ReadFrom(taken, FCF, s, address, payload) ==
    /\ taken[1] = FCF[1] /\ taken[2] = FCF[2] /\ taken[3] = s
    /\ SubSeq(taken, 4, 3 + Len(address)) = address
    /\ SubSeq(taken, 4 + Len(address), Len(taken) - 2) = payload

LEMMA PartsOfPsdu ==
    ASSUME NEW FCF \in TwoBytes, NEW s \in Octet, NEW address \in Seq(Octet),
           NEW payload \in Seq(Octet), NEW fcs \in TwoBytes
    PROVE  ReadFrom(MpduOf(FCF, s, address, payload) \o fcs, FCF, s, address, payload)
<1> DEFINE one   == <<s>>
           head  == FCF \o one
           three == head \o address
           psdu  == three \o payload \o fcs
           rest  == payload \o fcs
<1>1. /\ one \in Seq(Octet) /\ Len(one) = 1 /\ one[1] = s
      /\ FCF \in Seq(Octet) /\ Len(FCF) = 2 /\ fcs \in Seq(Octet) /\ Len(fcs) = 2
    BY DEF TwoBytes
<1> HIDE DEF one
<1>2. /\ head \in Seq(Octet) /\ Len(head) = 3
      /\ head[1] = FCF[1] /\ head[2] = FCF[2] /\ head[3] = s
    <2>1. head \in Seq(Octet) /\ Len(head) = Len(FCF) + Len(one)
        BY <1>1, Together
    <2>2. 1 \in 1 .. Len(FCF) /\ 2 \in 1 .. Len(FCF) /\ 1 \in 1 .. Len(one)
        BY <1>1
    <2>3. \A k \in 1 .. Len(FCF) : head[k] = FCF[k]
        BY <1>1, FirstOfTwo
    <2>4. \A k \in 1 .. Len(one) : head[Len(FCF) + k] = one[k]
        <3>1. \A x, y \in Seq(Octet) :
                  \A k \in 1 .. Len(y) : (x \o y)[Len(x) + k] = y[k]
            BY SecondOfTwo
        <3> QED
            BY <1>1, <3>1, Zenon
    <2> HIDE DEF head
    <2> QED
        BY <1>1, <2>1, <2>2, <2>3, <2>4
<1> HIDE DEF head
<1>3. three \in Seq(Octet) /\ Len(three) = 3 + Len(address) /\ rest \in Seq(Octet)
    <2>1. three \in Seq(Octet) /\ Len(three) = Len(head) + Len(address)
        BY <1>2, Together, Zenon
    <2>2. rest \in Seq(Octet)
        BY <1>1, Together, Zenon
    <2> QED
        BY <1>2, <2>1, <2>2, Zenon
<1>4. psdu = head \o address \o rest
    <2>1. \A x, y, z \in Seq(Octet) : x \o y \o z = x \o (y \o z)
        BY Associative, SMTT(30)
    <2>2. three \in Seq(Octet) /\ payload \in Seq(Octet) /\ fcs \in Seq(Octet)
        BY <1>1, <1>3, Zenon
    <2> HIDE DEF three
    <2>3. three \o payload \o fcs = three \o (payload \o fcs)
        BY <2>1, <2>2, ZenonT(30)
    <2> QED
        BY <2>3, Zenon DEF three
<1>5. SubSeq(head \o address \o rest, Len(head) + 1, Len(head) + Len(address)) = address
    BY <1>2, <1>3, Between, Zenon
<1>6. SubSeq(three \o payload \o fcs, Len(three) + 1, Len(three) + Len(payload)) = payload
    BY <1>1, <1>3, Between, Zenon
<1>7. Len(psdu) = Len(three) + Len(payload) + 2
    <2>1. three \o payload \in Seq(Octet) /\ Len(three \o payload) = Len(three) + Len(payload)
        BY <1>3, Together
    <2>2. Len(psdu) = Len(three \o payload) + Len(fcs)
        BY <1>1, <2>1, Together
    <2> QED
        BY <1>1, <2>1, <2>2
<1>8. psdu[1] = head[1] /\ psdu[2] = head[2] /\ psdu[3] = head[3]
    <2>1. head \o address \in Seq(Octet) /\ Len(head \o address) = Len(head) + Len(address)
        BY <1>2, Together
    <2>2. ASSUME NEW k \in 1 .. 3
          PROVE  (head \o address \o rest)[k] = head[k]
        <3>1. k \in 1 .. Len(head) /\ k \in 1 .. Len(head \o address)
            BY <1>2, <2>1
        <3>2. (head \o address)[k] = head[k]
            BY <1>2, <3>1, FirstOfTwo, Zenon
        <3>3. (head \o address \o rest)[k] = (head \o address)[k]
            BY <1>3, <2>1, <3>1, FirstOfTwo, Zenon
        <3> QED
            BY <3>2, <3>3
    <2> HIDE DEF psdu, three, rest
    <2>3. ASSUME NEW k \in 1 .. 3
          PROVE  psdu[k] = head[k]
        BY <1>4, <2>2, Zenon
    <2> QED
        BY <2>3
<1> HIDE DEF psdu, three, rest
<1>9. SubSeq(psdu, 4, 3 + Len(address)) = address
    <2>1. Len(head) + 1 = 4 /\ Len(head) + Len(address) = 3 + Len(address)
        BY <1>2
    <2> QED
        BY <1>4, <1>5, <2>1, Zenon
<1>10. SubSeq(psdu, 4 + Len(address), Len(psdu) - 2) = payload
    <2>1. Len(three) + 1 = 4 + Len(address) /\ Len(three) + Len(payload) = Len(psdu) - 2
        BY <1>3, <1>7
    <2> QED
        BY <1>6, <2>1, Zenon DEF psdu
<1> QED
    <2>1. MpduOf(FCF, s, address, payload) \o fcs = psdu
        BY Zenon DEF psdu, three, head, one, MpduOf
    <2> QED
        BY <1>2, <1>8, <1>9, <1>10, <2>1, Zenon DEF ReadFrom

\* What the builder makes the checksum of, for the call.
CallMpdu == MpduOf(make_FCF(call.fcf), call.seqNr, call.address, call.payload)

\* The frame of an accepted call, taken apart.
LEMMA PsduIs ==
    ASSUME CallsInv, IsFrame
    PROVE  /\ make_FCF(call.fcf) \in Seq(Octet) /\ Len(make_FCF(call.fcf)) = 2
           /\ call.seqNr \in Octet
           /\ CallMpdu \in Seq(Octet) /\ Psdu = CallMpdu \o FCS(CallMpdu)
           /\ pkt \in Seq(Octet) /\ pkt[Len(SHR) + 1] = Len(CallMpdu) + 2
           /\ Len(pkt) % byte_modulus = 0
           /\ Len(pkt) - (Len(SHR) + 1 + Len(Psdu)) \in 0 .. byte_modulus - 1
<1>1. PICK F, s, a, p :
          /\ F = make_FCF(call.fcf) /\ s = call.seqNr /\ a = call.address /\ p = call.payload
    OBVIOUS
<1>2. /\ Accepts(Len(F), s, Len(a), Len(p))
      /\ pkt = make_ieee802_15_4_packet(F, s, a, p)
      /\ call.fcf \in FcfFields /\ s \in Nat /\ a \in Seq(Octet) /\ p \in Seq(Octet)
    BY <1>1, FrameIs, Zenon DEF IeeeFrame
<1>3. F \in Seq(Octet) /\ Len(F) = 2
    BY <1>1, <1>2, FcfType, Zenon
<1>4. s \in Octet
    <2>1. s <= 255
        BY <1>2, Zenon DEF Accepts
    <2> QED
        BY <1>2, <2>1 DEF Octet
<1>5. CallMpdu = MpduOf(F, s, a, p)
    BY <1>1, Zenon DEF CallMpdu
<1>6. CallMpdu \in Seq(Octet)
    <2>1. \A w, x, y, z \in Seq(Octet) : w \o x \o y \o z \in Seq(Octet)
        OBVIOUS
    <2>2. <<s>> \in Seq(Octet)
        BY <1>4
    <2> QED
        BY <1>2, <1>3, <1>5, <2>1, <2>2, Zenon DEF MpduOf
<1>7. /\ pkt \in Seq(Octet) /\ pkt[Len(SHR) + 1] = Len(CallMpdu) + 2
      /\ PsduOf(pkt) = CallMpdu \o FCS(CallMpdu)
      /\ Len(pkt) % byte_modulus = 0
      /\ Len(pkt) - (Len(SHR) + 1 + Len(PsduOf(pkt))) \in 0 .. byte_modulus - 1
    <2>1. PICK m, q : m = MpduOf(F, s, a, p) /\ q = make_ieee802_15_4_packet(F, s, a, p)
        OBVIOUS
    <2>2. /\ q \in Seq(Octet) /\ q[Len(SHR) + 1] = Len(m) + 2
          /\ PsduOf(q) = m \o FCS(m)
          /\ Len(q) % byte_modulus = 0
          /\ Len(q) - (Len(SHR) + 1 + Len(PsduOf(q))) \in 0 .. byte_modulus - 1
        <3>1. /\ Accepts(Len(F), s, Len(a), Len(p))
              /\ F \in Seq(Octet) /\ s \in Nat /\ a \in Seq(Octet) /\ p \in Seq(Octet)
            BY <1>2, <1>3, Zenon
        <3> DEFINE M == MpduOf(F, s, a, p)
                   Q == make_ieee802_15_4_packet(F, s, a, p)
        <3>2. /\ Q \in Seq(Octet) /\ Q[Len(SHR) + 1] = Len(M) + 2
              /\ PsduOf(Q) = M \o FCS(M)
              /\ Len(Q) % byte_modulus = 0
              /\ Len(Q) - (Len(SHR) + 1 + Len(PsduOf(Q))) \in 0 .. byte_modulus - 1
            BY <3>1, FrameTakenApart, Zenon
        <3> QED
            BY <2>1, <3>2, Zenon
    <2> QED
        BY <1>2, <1>5, <2>1, <2>2, Zenon
<1> QED
    BY <1>1, <1>3, <1>4, <1>6, <1>7, Zenon DEF Psdu

\* And its parts.
LEMMA CallIsRead ==
    ASSUME CallsInv, IsFrame
    PROVE  /\ Psdu[1] = make_FCF(call.fcf)[1] /\ Psdu[2] = make_FCF(call.fcf)[2]
           /\ Psdu[3] = call.seqNr
           /\ SubSeq(Psdu, 4, 3 + Len(call.address)) = call.address
           /\ SubSeq(Psdu, 4 + Len(call.address), Len(Psdu) - 2) = call.payload
           /\ Len(Psdu) = Len(CallMpdu) + 2
<1>1. PICK F, s, a, p, m, t :
          /\ F = make_FCF(call.fcf) /\ s = call.seqNr /\ a = call.address /\ p = call.payload
          /\ m = CallMpdu /\ t = Psdu
    OBVIOUS
<1>2. /\ F \in Seq(Octet) /\ Len(F) = 2 /\ s \in Octet /\ a \in Seq(Octet) /\ p \in Seq(Octet)
      /\ m \in Seq(Octet) /\ t = m \o FCS(m)
    BY <1>1, PsduIs, FrameIs, Zenon
<1>3. FCS(m) \in Seq(Octet) /\ Len(FCS(m)) = 2
    BY <1>2, FcsType, Zenon
<1>4. PICK c : c = FCS(m)
    OBVIOUS
<1>5. /\ t[1] = F[1] /\ t[2] = F[2] /\ t[3] = s
      /\ SubSeq(t, 4, 3 + Len(a)) = a
      /\ SubSeq(t, 4 + Len(a), Len(t) - 2) = p
    <2>1. c \in TwoBytes
        BY <1>3, <1>4, Zenon DEF TwoBytes
    <2>2. t = MpduOf(F, s, a, p) \o c
        BY <1>1, <1>2, <1>4, Zenon DEF CallMpdu
    <2>3. /\ F \in TwoBytes /\ s \in Octet /\ a \in Seq(Octet)
          /\ p \in Seq(Octet)
        BY <1>2, Zenon DEF TwoBytes
    <2>4. ReadFrom(MpduOf(F, s, a, p) \o c, F, s, a, p)
        BY <2>1, <2>3, PartsOfPsdu, Zenon
    <2> QED
        BY <2>2, <2>4, Zenon DEF ReadFrom
<1>6. Len(t) = Len(m) + 2
    <2>1. Len(t) = Len(m) + Len(FCS(m))
        BY <1>2, <1>3, Together, Zenon
    <2> QED
        BY <1>3, <2>1, Zenon
<1> QED
    BY <1>1, <1>5, <1>6, Zenon

(***************************************************************************)
(* Whatever the builder is called with and accepts, a receiver that takes  *)
(* as many bytes as the PHR says finds the checksum right, and gets the    *)
(* sequence number, the address and the payload of the call                *)
(* (transmit_path.py:58-83).                                               *)
(***************************************************************************)
THEOREM FramesTakenApart ==
    Spec => []FrameSelfConsistent
<1>1. CallsInv => FrameSelfConsistent
    <2> SUFFICES ASSUME CallsInv, IsFrame
                 PROVE  /\ Len(pkt) >= Len(SHR) + 1 + pkt[Len(SHR) + 1]
                        /\ ok(Psdu)
                        /\ Psdu[3] = call.seqNr
                        /\ SubSeq(Psdu, 4, 3 + Len(call.address)) = call.address
                        /\ SubSeq(Psdu, 4 + Len(call.address), Len(Psdu) - 2) = call.payload
        BY Zenon DEF FrameSelfConsistent
    <2>1. ok(Psdu)
        <3>1. PICK m : m = CallMpdu
            OBVIOUS
        <3>2. m \in Seq(Octet) /\ Psdu = m \o FCS(m)
            BY <3>1, PsduIs, Zenon
        <3> QED
            BY <3>2, WatcherAccepts, Zenon
    <2>2. Len(pkt) >= Len(SHR) + 1 + pkt[Len(SHR) + 1]
        <3>1. PICK l, m, t, q, h : /\ l = Len(pkt) /\ m = Len(CallMpdu) /\ t = Len(Psdu)
                                   /\ q = pkt[Len(SHR) + 1] /\ h = Len(SHR)
            OBVIOUS
        <3>2. h = 5
            BY <3>1 DEF SHR
        <3>3. /\ q = m + 2 /\ t = m + 2 /\ l % byte_modulus = 0
              /\ l - (h + 1 + t) \in 0 .. byte_modulus - 1
            BY <3>1, PsduIs, CallIsRead, Zenon
        <3>4. m \in Nat /\ l \in Nat
            <4>1. \A s \in Seq(Octet) : Len(s) \in Nat
                OBVIOUS
            <4> QED
                BY <3>1, <4>1, PsduIs, Zenon
        <3> QED
            BY <3>1, <3>2, <3>3, <3>4 DEF byte_modulus
    <2> QED
        BY <2>1, <2>2, CallIsRead, Zenon
<1> QED
    BY <1>1, CallsStay, PTL

(***************************************************************************)
(* A packet fills whole units of the transfer to the radio, and no unit is *)
(* padding alone (transmit_path.py:80-105).                                *)
(***************************************************************************)
THEOREM PaddingStaysMinimal ==
    Spec => []PaddingMinimal
<1>1. CallsInv => PaddingMinimal
    <2> SUFFICES ASSUME CallsInv, IsFrame
                 PROVE  /\ Len(pkt) % byte_modulus = 0
                        /\ Len(pkt) - (Len(SHR) + 1 + Len(Psdu)) < byte_modulus
        BY DEF PaddingMinimal
    <2>1. /\ Len(pkt) % byte_modulus = 0
          /\ Len(pkt) - (Len(SHR) + 1 + Len(Psdu)) \in 0 .. byte_modulus - 1
        BY PsduIs
    <2> QED
        BY <2>1 DEF byte_modulus
<1> QED
    BY <1>1, CallsStay, PTL

(***************************************************************************)
(* The fields of the FCF are read back from the frame, whatever they are   *)
(* (transmit_path.py:107-151).                                             *)
(***************************************************************************)
THEOREM FcfIsReadBack ==
    Spec => []FcfDecodes
<1>1. CallsInv => FcfDecodes
    <2> SUFFICES ASSUME CallsInv, IsFrame PROVE FcfDecodes
        BY DEF FcfDecodes
    <2>1. PICK f, v : f = call.fcf /\ v = Psdu[1] + 256 * Psdu[2]
        OBVIOUS
    <2>2. f \in FcfFields
        BY <2>1, FrameIs, Zenon
    <2>3. v = Subfields(f)
        <3>1. make_FCF(f)[1] + 256 * make_FCF(f)[2] = Subfields(f)
            BY <2>2, FcfType, Zenon
        <3> QED
            BY <2>1, <3>1, CallIsRead, Zenon
    <2>4. f = [frameType |-> v % 8, securityEnabled |-> (v \div 8) % 2,
               framePending |-> (v \div 16) % 2,
               acknowledgeRequest |-> (v \div 32) % 2, intraPAN |-> (v \div 64) % 2,
               destinationAddressingMode |-> (v \div 1024) % 4,
               sourceAddressingMode |-> v \div 16384]
        BY <2>2, <2>3, SubfieldsRead
    <2> QED
        BY <2>1, <2>4 DEF FcfDecodes
<1> QED
    BY <1>1, CallsStay, PTL

(***************************************************************************)
(* The checksum of SOS, of whatever table of words has no two entries that *)
(* end in the same byte.                                                   *)
(***************************************************************************)
Digit(a, w) == (a \div w) % 2

\* A byte is the sum of its bits.
LEMMA ByteOfDigits ==
    ASSUME NEW a \in Octet
    PROVE  a = Digit(a, 1) + 2 * Digit(a, 2) + 4 * Digit(a, 4) + 8 * Digit(a, 8)
                 + 16 * Digit(a, 16) + 32 * Digit(a, 32) + 64 * Digit(a, 64)
                 + 128 * Digit(a, 128)
<1>1. a \in Nat /\ a < 256
    BY DEF Octet
<1> QED
    BY <1>1 DEF Digit

\* The exclusive or of two bytes is the byte of the sums of their bits.
LEMMA XorDigits ==
    ASSUME NEW a \in Octet, NEW b \in Octet
    PROVE  /\ XorBytes(a, b) \in Octet
           /\ \A w \in {1, 2, 4, 8, 16, 32, 64, 128} :
                  Digit(XorBytes(a, b), w) = (Digit(a, w) + Digit(b, w)) % 2
<1> DEFINE s(w) == ((a \div w) + (b \div w)) % 2
<1>1. a \in Nat /\ b \in Nat
    BY DEF Octet
<1>2. PICK c, d, e, f, g, h, i, j :
          /\ c = s(1) /\ d = s(2) /\ e = s(4) /\ f = s(8)
          /\ g = s(16) /\ h = s(32) /\ i = s(64) /\ j = s(128)
    OBVIOUS
<1>3. /\ c \in 0 .. 1 /\ d \in 0 .. 1 /\ e \in 0 .. 1 /\ f \in 0 .. 1
      /\ g \in 0 .. 1 /\ h \in 0 .. 1 /\ i \in 0 .. 1 /\ j \in 0 .. 1
    BY <1>1, <1>2
<1>4. PICK x : x = XorBytes(a, b)
    OBVIOUS
<1>5. x = c + 2 * d + 4 * e + 8 * f + 16 * g + 32 * h + 64 * i + 128 * j
    BY <1>2, <1>3, <1>4 DEF XorBytes, XorAt
<1>6. \A w \in {1, 2, 4, 8, 16, 32, 64, 128} : s(w) = (Digit(a, w) + Digit(b, w)) % 2
    BY <1>1 DEF Digit
<1> HIDE DEF s
<1>7. x \in Octet
    BY <1>3, <1>5 DEF Octet
<1>8. Digit(x, 1) = c /\ Digit(x, 2) = d
    BY <1>3, <1>5 DEF Digit
<1>9. Digit(x, 4) = e /\ Digit(x, 8) = f
    BY <1>3, <1>5 DEF Digit
<1>10. Digit(x, 16) = g /\ Digit(x, 32) = h
    BY <1>3, <1>5 DEF Digit
<1>11. Digit(x, 64) = i /\ Digit(x, 128) = j
    BY <1>3, <1>5 DEF Digit
<1>12. \A w \in {1, 2, 4, 8, 16, 32, 64, 128} : Digit(x, w) = s(w)
    BY <1>2, <1>8, <1>9, <1>10, <1>11
<1> QED
    BY <1>4, <1>6, <1>7, <1>12

\* The order of the two does not matter.
LEMMA XorCommutes ==
    ASSUME NEW a \in Octet, NEW b \in Octet
    PROVE  XorBytes(a, b) = XorBytes(b, a)
<1>1. \A w \in {1, 2, 4, 8, 16, 32, 64, 128} : XorAt(w, a, b) = XorAt(w, b, a)
    BY DEF XorAt, Octet
<1> QED
    BY <1>1 DEF XorBytes

\* Nothing is lost: different bytes stay different.
LEMMA XorDiffers ==
    ASSUME NEW a \in Octet, NEW b \in Octet, NEW c \in Octet, XorBytes(a, b) = XorBytes(a, c)
    PROVE  b = c
<1>1. ASSUME NEW w \in {1, 2, 4, 8, 16, 32, 64, 128}
      PROVE  Digit(b, w) = Digit(c, w)
    <2>1. (Digit(a, w) + Digit(b, w)) % 2 = (Digit(a, w) + Digit(c, w)) % 2
        BY XorDigits
    <2>2. Digit(a, w) \in 0 .. 1 /\ Digit(b, w) \in 0 .. 1 /\ Digit(c, w) \in 0 .. 1
        BY DEF Digit, Octet
    <2> QED
        BY <2>1, <2>2
<1> QED
    BY <1>1, ByteOfDigits

\* A word is its two bytes.
Low(w)  == w % 256
High(w) == w \div 256

LEMMA WordBytes ==
    ASSUME NEW w \in Word
    PROVE  Low(w) \in Octet /\ High(w) \in Octet /\ w = Low(w) + 256 * High(w)
<1>1. w \in Nat /\ w < 65536
    BY DEF Word
<1> QED
    BY <1>1 DEF Octet, Low, High

LEMMA WordOfBytes ==
    ASSUME NEW a \in Octet, NEW b \in Octet
    PROVE  /\ a + 256 * b \in Word
           /\ Low(a + 256 * b) = a /\ High(a + 256 * b) = b
BY DEF Octet, Word, Low, High

\* A word is known from its two bytes.
LEMMA SameWord ==
    ASSUME NEW v \in Word, NEW w \in Word, Low(v) = Low(w), High(v) = High(w)
    PROVE  v = w
BY WordBytes

\* The entry of the table that a byte selects.
Entry(x) == crcTable[x + 1]

LEMMA EntriesDiffer ==
    /\ \A x \in Octet : Entry(x) \in Word
    /\ \A x, y \in Octet : Low(Entry(x)) = Low(Entry(y)) => x = y
<1>1. \A x \in Octet : x + 1 \in 1 .. 256
    BY DEF Octet
<1>2. \A x, y \in Octet : x + 1 = y + 1 => x = y
    BY DEF Octet
<1>3. \A k \in 1 .. 256 : crcTable[k] \in Word
    BY TableAssumption
<1>4. \A i, j \in 1 .. 256 : Low(crcTable[i]) = Low(crcTable[j]) => i = j
    BY TableAssumption DEF Low
<1>5. \A x \in Octet : Entry(x) \in Word
    BY <1>1, <1>3 DEF Entry
<1>6. \A x, y \in Octet : Low(Entry(x)) = Low(Entry(y)) => x = y
    BY <1>1, <1>2, <1>4 DEF Entry
<1> QED
    BY <1>5, <1>6

\* One byte goes into a word: it selects an entry, whose low byte is that of the result,
\* and whose high byte is added to the low one of before.
Index(v, b) == XorBytes(High(v), b)

LEMMA CrcByteType ==
    ASSUME NEW v \in Word, NEW b \in Octet
    PROVE  /\ Index(v, b) \in Octet
           /\ crcByte(v, b) \in Word
           /\ Low(crcByte(v, b)) = Low(Entry(Index(v, b)))
           /\ High(crcByte(v, b)) = XorBytes(Low(v), High(Entry(Index(v, b))))
<1> DEFINE e == Entry(Index(v, b))
           m == Low(e)
           y == XorBytes(Low(v), High(e))
<1>1. Index(v, b) \in Octet
    BY WordBytes, XorDigits, Zenon DEF Index
<1>2. e \in Word
    BY <1>1, EntriesDiffer, Zenon
<1> HIDE DEF e
<1>3. m \in Octet /\ y \in Octet
    BY <1>2, WordBytes, XorDigits
<1>4. crcByte(v, b) = m + 256 * y
    BY DEF crcByte, e, Entry, Index, Low, High
<1> HIDE DEF m, y
<1>5. /\ crcByte(v, b) \in Word /\ Low(crcByte(v, b)) = m
      /\ High(crcByte(v, b)) = y
    BY <1>3, <1>4, WordOfBytes
<1> QED
    BY <1>1, <1>5, Zenon DEF m, y, e

\* Whoever knows the result and one of the two, knows the other.
LEMMA CrcByteSame ==
    ASSUME NEW v \in Word, NEW b \in Octet, NEW w \in Word, NEW c \in Octet,
           crcByte(v, b) = crcByte(w, c)
    PROVE  (v = w => b = c) /\ (b = c => v = w)
<1> DEFINE x == Index(v, b)
           y == Index(w, c)
<1>1. /\ x \in Octet /\ Low(crcByte(v, b)) = Low(Entry(x))
      /\ High(crcByte(v, b)) = XorBytes(Low(v), High(Entry(x)))
    BY CrcByteType, Zenon
<1>2. /\ y \in Octet /\ Low(crcByte(w, c)) = Low(Entry(y))
      /\ High(crcByte(w, c)) = XorBytes(Low(w), High(Entry(y)))
    BY CrcByteType, Zenon
<1>3. x = y
    <2>1. Low(Entry(x)) = Low(Entry(y))
        BY <1>1, <1>2, Zenon
    <2> QED
        BY <1>1, <1>2, <2>1, EntriesDiffer, Zenon
<1>4. XorBytes(High(v), b) = XorBytes(High(w), c)
    BY <1>3, Zenon DEF Index
<1> HIDE DEF x, y
<1>5. /\ Low(v) \in Octet /\ High(v) \in Octet /\ Low(w) \in Octet /\ High(w) \in Octet
    BY WordBytes
<1>6. Entry(x) \in Word
    BY <1>1, EntriesDiffer
<1>7. PICK n \in Octet : n = High(Entry(x))
    BY <1>6, WordBytes
<1>8. Low(v) = Low(w)
    <2>1. XorBytes(Low(v), n) = XorBytes(Low(w), n)
        BY <1>1, <1>2, <1>3, <1>7, Zenon
    <2>2. XorBytes(n, Low(v)) = XorBytes(n, Low(w))
        BY <1>5, <2>1, XorCommutes, Zenon
    <2> QED
        BY <1>5, <2>2, XorDiffers, Zenon
<1>9. ASSUME v = w PROVE b = c
    BY <1>5, <1>4, <1>9, XorDiffers, Zenon
<1>10. ASSUME b = c PROVE v = w
    <2>1. XorBytes(b, High(v)) = XorBytes(b, High(w))
        BY <1>5, <1>4, <1>10, XorCommutes, Zenon
    <2>2. High(v) = High(w)
        BY <1>5, <2>1, XorDiffers, Zenon
    <2> QED
        BY <1>8, <2>2, SameWord, Zenon
<1> QED
    BY <1>9, <1>10

Sums(g, p, n) ==
    /\ g \in [0 .. n -> Word] /\ g[0] = 0
    /\ \A k \in 1 .. n : g[k] = crcByte(g[k - 1], p[k])

\* The checksums of the beginnings of a message.
LEMMA Crc8Steps ==
    ASSUME NEW p \in Seq(Octet)
    PROVE  \E g : Sums(g, p, Len(p)) /\ crc8(p) = g[Len(p)]
<1> DEFINE n == Len(p)
           Step == [k \in 1 .. n |-> [x \in Word |-> crcByte(x, p[k])]]
           over == [t \in Word \X Octet |-> crcByte(t[1], t[2])]
           IsCrc(f) == f = [k \in 0 .. n |-> IF k = 0 THEN 0 ELSE over[<<f[k - 1], p[k]>>]]
           crc == CHOOSE f : IsCrc(f)
<1>1. n \in Nat /\ \A k \in 1 .. n : p[k] \in Octet
    OBVIOUS
<1>2. crc8(p) = crc[n]
    BY DEF crc8
<1>3. \A x \in Word : \A k \in 1 .. n : crcByte(x, p[k]) \in Word
    BY <1>1, CrcByteType
<1>4. 0 \in Word
    BY DEF Word
<1> HIDE DEF n
<1>5. IsRecursion(n, Word, 0, Step)
    BY <1>1, <1>3, <1>4 DEF IsRecursion
<1>6. \A x \in Word, k \in 1 .. n : Step[k][x] = crcByte(x, p[k])
    OBVIOUS
<1>7. \A x \in Word, k \in 1 .. n : over[<<x, p[k]>>] = crcByte(x, p[k])
    BY <1>1
<1> HIDE DEF Step, over
<1>8. PICK g : Solves(g, n, Word, 0, Step)
    BY <1>5, RecursionExists
<1>9. Sums(g, p, n)
    <2>1. ASSUME NEW k \in 1 .. n
          PROVE  g[k] = crcByte(g[k - 1], p[k])
        <3>1. g[k - 1] \in Word /\ g[k] = Step[k][g[k - 1]]
            BY <1>1, <1>8 DEF Solves
        <3> QED
            BY <1>6, <3>1
    <2> QED
        BY <1>8, <2>1 DEF Solves, Sums
<1>10. IsCrc(g)
    <2>1. ASSUME NEW k \in 1 .. n
          PROVE  g[k] = over[<<g[k - 1], p[k]>>]
        <3>1. g[k - 1] \in Word /\ g[k] = crcByte(g[k - 1], p[k])
            BY <1>1, <1>9 DEF Sums
        <3> QED
            BY <1>7, <3>1
    <2> QED
        BY <1>1, <1>8, <2>1 DEF Solves
<1>11. IsCrc(crc)
    BY <1>10
<1> HIDE DEF crc
<1>12. crc[0] = 0
    BY <1>1, <1>11
<1>13. ASSUME NEW k \in 1 .. n
       PROVE  crc[k] = over[<<crc[k - 1], p[k]>>]
    <2>1. k \in 0 .. n /\ k # 0
        BY <1>1
    <2> QED
        BY <1>11, <2>1, Zenon
<1>14. ASSUME NEW k \in 1 .. n, crc[k - 1] \in Word
       PROVE  crc[k] = Step[k][crc[k - 1]]
    <2>1. over[<<crc[k - 1], p[k]>>] = crcByte(crc[k - 1], p[k])
        BY <1>7, <1>14
    <2>2. Step[k][crc[k - 1]] = crcByte(crc[k - 1], p[k])
        BY <1>6, <1>14
    <2> QED
        BY <1>13, <2>1, <2>2, Zenon
<1>15. \A k \in 0 .. n : crc[k] = g[k]
    BY <1>1, <1>8, <1>12, <1>14, RecursionUnique
<1>16. crc[n] = g[n]
    BY <1>1, <1>15
<1> QED
    BY <1>2, <1>9, <1>16 DEF n

LEMMA Crc8Type ==
    ASSUME NEW p \in Seq(Octet)
    PROVE  crc8(p) \in Word
<1>1. PICK g : Sums(g, p, Len(p)) /\ crc8(p) = g[Len(p)]
    BY Crc8Steps
<1>2. Len(p) \in 0 .. Len(p)
    OBVIOUS
<1> QED
    BY <1>1, <1>2 DEF Sums

\* A message and another that differs from it in one byte have different checksums.
LEMMA Crc8Differs ==
    ASSUME NEW p \in Seq(Octet), NEW q \in Seq(Octet), Len(p) = Len(q), NEW i \in 1 .. Len(p),
           \A k \in 1 .. Len(p) : k # i => p[k] = q[k],
           crc8(p) = crc8(q)
    PROVE  p[i] = q[i]
<1> DEFINE n == Len(p)
<1>1. /\ n \in Nat /\ n = Len(q) /\ i \in 1 .. n
      /\ \A k \in 1 .. n : p[k] \in Octet /\ q[k] \in Octet /\ (k # i => p[k] = q[k])
    OBVIOUS
<1>2. PICK g : Sums(g, p, n) /\ crc8(p) = g[n]
    BY Crc8Steps
<1>3. PICK h : Sums(h, q, n) /\ crc8(q) = h[n]
    BY <1>1, Crc8Steps
<1> HIDE DEF n
<1>4. \A k \in 1 .. n :
          /\ g[k] = crcByte(g[k - 1], p[k]) /\ g[k - 1] \in Word
          /\ h[k] = crcByte(h[k - 1], q[k]) /\ h[k - 1] \in Word
    <2> TAKE k \in 1 .. n
    <2>1. k - 1 \in 0 .. n
        BY <1>1
    <2>2. g[k - 1] \in Word /\ h[k - 1] \in Word
        BY <1>2, <1>3, <2>1 DEF Sums
    <2> QED
        BY <1>2, <1>3, <2>2, Zenon DEF Sums
<1>5. ASSUME NEW k \in 1 .. n, k # i
      PROVE  g[k - 1] = h[k - 1] <=> g[k] = h[k]
    <2>1. p[k] = q[k] /\ p[k] \in Octet
        BY <1>1, <1>5
    <2>2. ASSUME g[k] = h[k] PROVE g[k - 1] = h[k - 1]
        BY <1>4, <2>1, <2>2, CrcByteSame
    <2>3. ASSUME g[k - 1] = h[k - 1] PROVE g[k] = h[k]
        BY <1>4, <2>1, <2>3, Zenon
    <2> QED
        BY <2>2, <2>3
<1>6. g[0] = h[0] /\ g[n] = h[n]
    BY <1>2, <1>3, Zenon DEF Sums
<1>7. g[i - 1] = h[i - 1] /\ g[i] = h[i]
    BY <1>1, <1>5, <1>6, RunsMeet
<1>8. p[i] \in Octet /\ q[i] \in Octet /\ g[i - 1] \in Word
    BY <1>1, <1>4
<1>9. crcByte(g[i - 1], p[i]) = crcByte(g[i - 1], q[i])
    BY <1>1, <1>4, <1>7, Zenon
<1> QED
    BY <1>8, <1>9, CrcByteSame

\* The header of a message, element by element.
LongerBy(y, x, d, e) ==
    /\ y \in Seq(Octet) /\ Len(y) = Len(x) + 2
    /\ \A k \in 1 .. Len(x) : y[k] = x[k]
    /\ y[Len(x) + 1] = d /\ y[Len(x) + 2] = e

LEMMA PairBehind ==
    ASSUME NEW x \in Seq(Octet), NEW d \in Octet, NEW e \in Octet
    PROVE  LongerBy(x \o <<d, e>>, x, d, e)
<1> DEFINE z == <<d, e>>
<1>1. z \in Seq(Octet) /\ Len(z) = 2 /\ z[1] = d /\ z[2] = e
    OBVIOUS
<1> HIDE DEF z
<1> DEFINE y == x \o z
<1>2. y \in Seq(Octet) /\ Len(y) = Len(x) + Len(z)
    BY <1>1, Together
<1>3. \A k \in 1 .. Len(x) : y[k] = x[k]
    <2>1. \A v, w \in Seq(Octet) : \A k \in 1 .. Len(v) : (v \o w)[k] = v[k]
        BY FirstOfTwo
    <2> QED
        BY <1>1, <2>1, Zenon
<1>4. \A k \in 1 .. Len(z) : y[Len(x) + k] = z[k]
    <2>1. \A v, w \in Seq(Octet) : \A k \in 1 .. Len(w) : (v \o w)[Len(v) + k] = w[k]
        BY SecondOfTwo
    <2> QED
        BY <1>1, <2>1, Zenon
<1> HIDE DEF y
<1>5. Len(y) = Len(x) + 2 /\ y[Len(x) + 1] = d /\ y[Len(x) + 2] = e
    BY <1>1, <1>2, <1>4
<1>6. LongerBy(y, x, d, e)
    BY <1>2, <1>3, <1>5, Zenon DEF LongerBy
<1> QED
    BY <1>6, Zenon DEF y, z

IsHeader(H, f, n) ==
    /\ H \in Seq(Octet) /\ Len(H) = 9
    /\ H[1] = f.am_group /\ H[2] = f.module_src /\ H[3] = f.module_dst
    /\ H[4] = Low(f.dst_addr) /\ H[5] = High(f.dst_addr)
    /\ H[6] = Low(f.src_addr) /\ H[7] = High(f.src_addr)
    /\ H[8] = f.msg_type /\ H[9] = n

LEMMA HeaderIs ==
    ASSUME NEW f \in SosFields, NEW payload \in Seq(Octet), SosAccepts(payload)
    PROVE  IsHeader(SosHeader(f, payload), f, Len(payload))
<1>1. /\ f.am_group \in Octet /\ f.module_src \in Octet /\ f.module_dst \in Octet
      /\ f.dst_addr \in Word /\ f.src_addr \in Word /\ f.msg_type \in Octet
    BY DEF SosFields
<1>2. Len(payload) \in Octet
    <2>1. Len(payload) \in Nat /\ Len(payload) <= 120
        BY DEF SosAccepts, SOS_MAX_PKT_SIZE
    <2>2. \A l \in Nat : l <= 120 => l \in Octet
        BY DEF Octet
    <2> QED
        BY <2>1, <2>2, Zenon
<1>3. PICK a, b, c, d, e, g, h, i, j :
          /\ a = f.am_group /\ b = f.module_src /\ c = f.module_dst
          /\ d = Low(f.dst_addr) /\ e = High(f.dst_addr)
          /\ g = Low(f.src_addr) /\ h = High(f.src_addr)
          /\ i = f.msg_type /\ j = Len(payload)
    OBVIOUS
<1>4. /\ a \in Octet /\ b \in Octet /\ c \in Octet /\ d \in Octet /\ e \in Octet
      /\ g \in Octet /\ h \in Octet /\ i \in Octet /\ j \in Octet
    BY <1>1, <1>2, <1>3, WordBytes, Zenon
<1> DEFINE x == <<a, b, c>>
           y == x \o <<d, e>>
           z == y \o <<g, h>>
           w == z \o <<i, j>>
<1>5. SosHeader(f, payload) = w
    BY <1>3, ZenonT(30) DEF SosHeader, Bytes, Low, High
<1>6. x \in Seq(Octet) /\ Len(x) = 3 /\ x[1] = a /\ x[2] = b /\ x[3] = c
    BY <1>4
<1> HIDE DEF x
<1>7. LongerBy(y, x, d, e)
    BY <1>4, <1>6, PairBehind, Zenon
<1> HIDE DEF y
<1>8. y \in Seq(Octet) /\ LongerBy(z, y, g, h)
    <2>1. y \in Seq(Octet)
        BY <1>7, Zenon DEF LongerBy
    <2> QED
        BY <1>4, <2>1, PairBehind, Zenon
<1> HIDE DEF z
<1>9. z \in Seq(Octet) /\ LongerBy(w, z, i, j)
    <2>1. z \in Seq(Octet)
        BY <1>8, Zenon DEF LongerBy
    <2> QED
        BY <1>4, <2>1, PairBehind, Zenon
<1> HIDE DEF w
<1>10. /\ w \in Seq(Octet) /\ Len(w) = 9 /\ w[1] = a /\ w[2] = b /\ w[3] = c /\ w[4] = d
       /\ w[5] = e /\ w[6] = g /\ w[7] = h /\ w[8] = i /\ w[9] = j
    BY <1>6, <1>7, <1>8, <1>9 DEF LongerBy
<1> QED
    BY <1>3, <1>5, <1>10, Zenon DEF IsHeader


\* A message of a header, a payload and a checksum, and what the watcher reads.
MessageOf(H, p, B) == H \o p \o B

IsMessage(m, H, p, B) ==
    /\ m \in Seq(Octet) /\ Len(m) = 11 + Len(p)
    /\ \A k \in 1 .. 9 : m[k] = H[k]
    /\ SubSeq(m, 10, 9 + Len(p)) = p
    /\ SubSeq(m, 2, 9 + Len(p)) = Tail(H) \o p
    /\ m[Len(m) - 1] = B[1] /\ m[Len(m)] = B[2]

LEMMA MessageParts ==
    ASSUME NEW H \in Seq(Octet), Len(H) = 9, NEW p \in Seq(Octet), NEW B \in TwoBytes
    PROVE  IsMessage(MessageOf(H, p, B), H, p, B)
<1> DEFINE c == H \o p
           m == c \o B
           n == Len(p)
<1>1. B \in Seq(Octet) /\ Len(B) = 2 /\ n \in Nat
    BY DEF TwoBytes
<1>2. /\ c \in Seq(Octet) /\ Len(c) = 9 + n
      /\ \A k \in 1 .. 9 : c[k] = H[k]
      /\ \A k \in 1 .. n : c[9 + k] = p[k]
    <2>1. \A v, w \in Seq(Octet) :
              /\ v \o w \in Seq(Octet) /\ Len(v \o w) = Len(v) + Len(w)
              /\ \A k \in 1 .. Len(v) : (v \o w)[k] = v[k]
              /\ \A k \in 1 .. Len(w) : (v \o w)[Len(v) + k] = w[k]
        BY Together, FirstOfTwo, SecondOfTwo
    <2>2. /\ c \in Seq(Octet) /\ Len(c) = Len(H) + Len(p)
          /\ \A k \in 1 .. Len(H) : c[k] = H[k]
          /\ \A k \in 1 .. Len(p) : c[Len(H) + k] = p[k]
        BY <2>1, Zenon
    <2> HIDE DEF c
    <2> QED
        BY <2>2, Zenon
<1>3. SubSeq(m, 10, 9 + n) = p
    <2>1. SubSeq(H \o p \o B, Len(H) + 1, Len(H) + Len(p)) = p
        BY <1>1, Between, Zenon
    <2>2. Len(H) + 1 = 10
        OBVIOUS
    <2> QED
        BY <2>1, <2>2, Zenon
<1> HIDE DEF c
<1>4. /\ m \in Seq(Octet) /\ Len(m) = Len(c) + Len(B)
      /\ \A k \in 1 .. Len(c) : m[k] = c[k]
      /\ \A k \in 1 .. Len(B) : m[Len(c) + k] = B[k]
    <2>1. \A v, w \in Seq(Octet) :
              /\ v \o w \in Seq(Octet) /\ Len(v \o w) = Len(v) + Len(w)
              /\ \A k \in 1 .. Len(v) : (v \o w)[k] = v[k]
              /\ \A k \in 1 .. Len(w) : (v \o w)[Len(v) + k] = w[k]
        BY Together, FirstOfTwo, SecondOfTwo
    <2> QED
        BY <1>1, <1>2, <2>1, Zenon
<1> HIDE DEF m, n
<1>5. Len(m) = 11 + n /\ \A k \in 1 .. 9 : m[k] = H[k]
    BY <1>1, <1>2, <1>4
<1>6. m[Len(m) - 1] = B[1] /\ m[Len(m)] = B[2]
    <2>1. /\ Len(m) - 1 = Len(c) + 1 /\ Len(m) = Len(c) + 2
          /\ 1 \in 1 .. Len(B) /\ 2 \in 1 .. Len(B)
        BY <1>1, <1>2, <1>4
    <2> QED
        BY <1>4, <2>1, Zenon
<1>7. SubSeq(m, 2, 9 + n) = Tail(H) \o p
    <2> DEFINE s == SubSeq(m, 2, 9 + n)
               r == Tail(H)
               t == r \o p
    <2>1. r \in Seq(Octet) /\ Len(r) = 8 /\ \A k \in 1 .. 8 : r[k] = H[k + 1]
        <3>1. PICK l \in Nat : l = Len(H) /\ l > 1 /\ l - 1 = 8
            OBVIOUS
        <3>2. /\ r \in Seq(Octet) /\ Len(r) = Len(H) - 1
              /\ \A k \in 1 .. Len(H) - 1 : r[k] = H[k + 1]
            <4>1. Len(H) > 1
                BY <3>1, Zenon
            <4>2. \A v \in Seq(Octet) :
                      Len(v) > 1 => /\ Tail(v) \in Seq(Octet) /\ Len(Tail(v)) = Len(v) - 1
                                    /\ \A k \in 1 .. Len(v) - 1 : Tail(v)[k] = v[k + 1]
                BY ElementsOfTail
            <4> QED
                BY <4>1, <4>2, Zenon
        <3> HIDE DEF r
        <3> QED
            BY <3>1, <3>2, Zenon
    <2> HIDE DEF r
    <2>2. s \in Seq(Octet) /\ Len(s) = 8 + n /\ \A k \in 1 .. 8 + n : s[k] = m[k + 1]
        BY <1>1, <1>4, <1>5
    <2>3. /\ t \in Seq(Octet) /\ Len(t) = 8 + n
          /\ \A k \in 1 .. 8 : t[k] = r[k]
          /\ \A k \in 1 .. n : t[8 + k] = p[k]
        <3>1. \A v, w \in Seq(Octet) :
                  /\ v \o w \in Seq(Octet) /\ Len(v \o w) = Len(v) + Len(w)
                  /\ \A k \in 1 .. Len(v) : (v \o w)[k] = v[k]
                  /\ \A k \in 1 .. Len(w) : (v \o w)[Len(v) + k] = w[k]
            BY Together, FirstOfTwo, SecondOfTwo
        <3>2. /\ t \in Seq(Octet) /\ Len(t) = Len(r) + Len(p)
              /\ \A k \in 1 .. Len(r) : t[k] = r[k]
              /\ \A k \in 1 .. Len(p) : t[Len(r) + k] = p[k]
            BY <2>1, <3>1, Zenon
        <3> HIDE DEF t
        <3> QED
            BY <2>1, <3>2, Zenon DEF n
    <2> HIDE DEF s, t
    <2>4. ASSUME NEW k \in 1 .. 8 + n PROVE s[k] = t[k]
        <3>1. CASE k \in 1 .. 8
            <4>1. s[k] = m[k + 1] /\ k + 1 \in 1 .. 9
                BY <2>2, <3>1
            <4>2. m[k + 1] = H[k + 1]
                BY <1>5, <4>1
            <4> QED
                BY <2>1, <2>3, <3>1, <4>1, <4>2, Zenon
        <3>2. CASE k \notin 1 .. 8
            <4>1. PICK j \in 1 .. n : k = 8 + j /\ k + 1 = 9 + j /\ k + 1 \in 1 .. Len(c)
                <5>1. /\ k - 8 \in 1 .. n /\ k = 8 + (k - 8) /\ k + 1 = 9 + (k - 8)
                      /\ k + 1 \in 1 .. Len(c)
                    BY <1>1, <1>2, <3>2 DEF n
                <5> QED
                    BY <5>1
            <4>2. s[k] = m[k + 1] /\ m[k + 1] = c[k + 1]
                BY <1>4, <2>2, <4>1, Zenon
            <4>3. c[k + 1] = p[j] /\ t[k] = p[j]
                BY <1>2, <2>3, <4>1, Zenon
            <4> QED
                BY <4>2, <4>3, Zenon
        <3> QED
            BY <3>1, <3>2
    <2>5. s = t
        BY <2>2, <2>3, <2>4, SameSequence
    <2> QED
        BY <2>5 DEF s, t, r
<1> QED
    BY <1>3, <1>4, <1>5, <1>6, <1>7, Zenon DEF IsMessage, MessageOf, m, c, n

\* However its two bytes are added up.
LEMMA WordAdded ==
    ASSUME NEW w \in Word
    PROVE  High(w) * 256 + Low(w) = w /\ Low(w) + High(w) * 256 = w
<1>1. w \in Nat
    BY DEF Word
<1> QED
    BY <1>1 DEF Low, High

BytesCrc(H, p) == Bytes(crc8(Tail(H) \o p))

LEMMA BytesType ==
    ASSUME NEW w \in Word
    PROVE  /\ Bytes(w) \in TwoBytes /\ Bytes(w)[1] = Low(w) /\ Bytes(w)[2] = High(w)
<1>1. Bytes(w) = <<Low(w), High(w)>>
    BY DEF Bytes, Low, High
<1>2. Low(w) \in Octet /\ High(w) \in Octet
    BY WordBytes
<1> QED
    BY <1>1, <1>2 DEF TwoBytes

LEMMA TailBehind ==
    ASSUME NEW H \in Seq(Octet), Len(H) = 9, NEW p \in Seq(Octet)
    PROVE  Tail(H) \o p \in Seq(Octet)
<1>1. Len(H) > 1
    OBVIOUS
<1>2. Tail(H) \in Seq(Octet)
    BY <1>1, ElementsOfTail, Zenon
<1> QED
    BY <1>2, Together, Zenon

\* The watcher reads back what the builder was called with, and finds the checksum right.
ReadsBack(m, f, p) ==
    /\ sos_run(m).ok
    /\ sos_run(m).fields = f
    /\ sos_run(m).payload = p

LEMMA WatcherReads ==
    ASSUME NEW f \in SosFields, NEW p \in Seq(Octet), SosAccepts(p), NEW H, IsHeader(H, f, Len(p))
    PROVE  ReadsBack(MessageOf(H, p, BytesCrc(H, p)), f, p)
<1> DEFINE B == BytesCrc(H, p)
           m == MessageOf(H, p, B)
           crc == crc8(Tail(H) \o p)
<1>1. H \in Seq(Octet) /\ Len(H) = 9 /\ H[9] = Len(p)
    BY Zenon DEF IsHeader
<1>2. crc \in Word
    BY <1>1, TailBehind, Crc8Type, Zenon
<1> HIDE DEF crc
<1>3. B \in TwoBytes /\ B[1] = Low(crc) /\ B[2] = High(crc)
    BY <1>2, BytesType, Zenon DEF crc, BytesCrc
<1> HIDE DEF B
<1>4. IsMessage(m, H, p, B)
    BY <1>1, <1>3, MessageParts, Zenon
<1> HIDE DEF m
<1>5. /\ m[1] = H[1] /\ m[2] = H[2] /\ m[3] = H[3] /\ m[4] = H[4] /\ m[5] = H[5]
      /\ m[6] = H[6] /\ m[7] = H[7] /\ m[8] = H[8] /\ m[9] = H[9]
    <2>1. \A k \in 1 .. 9 : m[k] = H[k]
        BY <1>4, Zenon DEF IsMessage
    <2> QED
        BY <2>1
<1>6. sos_run(m).ok
    <2>1. SosCrcRange(m) = Tail(H) \o p
        <3>1. m[9] = Len(p)
            BY <1>1, <1>5, Zenon
        <3> QED
            BY <1>4, <3>1, Zenon DEF SosCrcRange, IsMessage
    <2>2. crc8(SosCrcRange(m)) = crc
        BY <2>1, Zenon DEF crc
    <2>3. m[Len(m) - 1] = Low(crc) /\ m[Len(m)] = High(crc)
        BY <1>3, <1>4, Zenon DEF IsMessage
    <2>4. Low(crc) + High(crc) * 256 = crc
        BY <1>2, WordAdded
    <2>5. m[Len(m) - 1] + m[Len(m)] * 256 = crc8(SosCrcRange(m))
        BY <2>2, <2>3, <2>4, Zenon
    <2> QED
        BY <2>5, Zenon DEF sos_run
<1>7. sos_run(m).payload = p
    <2>1. m[9] = Len(p) /\ SubSeq(m, 10, 9 + Len(p)) = p
        BY <1>1, <1>4, <1>5, Zenon DEF IsMessage
    <2> QED
        BY <2>1, Zenon DEF sos_run
<1>8. sos_run(m).fields = f
    <2>1. /\ m[1] = f.am_group /\ m[2] = f.module_src /\ m[3] = f.module_dst
          /\ m[4] = Low(f.dst_addr) /\ m[5] = High(f.dst_addr)
          /\ m[6] = Low(f.src_addr) /\ m[7] = High(f.src_addr) /\ m[8] = f.msg_type
        BY <1>5, Zenon DEF IsHeader
    <2>2. f.dst_addr \in Word /\ f.src_addr \in Word
        BY DEF SosFields
    <2>3. \A w \in Word : High(w) * 256 + Low(w) = w
        BY WordAdded
    <2>4. /\ m[5] * 256 + m[4] = f.dst_addr
          /\ m[7] * 256 + m[6] = f.src_addr
        BY <2>1, <2>2, <2>3, ZenonT(30)
    <2>5. sos_run(m).fields =
              [am_group |-> m[1], module_src |-> m[2], module_dst |-> m[3],
               dst_addr |-> m[5] * 256 + m[4], src_addr |-> m[7] * 256 + m[6],
               msg_type |-> m[8]]
        BY Zenon DEF sos_run
    <2>6. f = [am_group |-> f.am_group, module_src |-> f.module_src,
               module_dst |-> f.module_dst, dst_addr |-> f.dst_addr,
               src_addr |-> f.src_addr, msg_type |-> f.msg_type]
        BY DEF SosFields
    <2> QED
        BY <2>1, <2>4, <2>5, <2>6, Zenon
<1> QED
    BY <1>6, <1>7, <1>8, Zenon DEF ReadsBack, m, B

\* What the sink hands over is the message, without what stands before and behind it.
LEMMA SosTaken ==
    ASSUME NEW f \in SosFields, NEW p \in Seq(Octet), SosAccepts(p)
    PROVE  LET H == SosHeader(f, p)
               q == make_sos_packet(f, p)
           IN  SubSeq(q, 23, Len(q) - 20) = MessageOf(H, p, BytesCrc(H, p))
<1> DEFINE H == SosHeader(f, p)
           B == BytesCrc(H, p)
           C == <<51, 204>>
           P == SosPreamble
           a == P \o C
           m == MessageOf(H, p, B)
           q == make_sos_packet(f, p)
<1>1. IsHeader(H, f, Len(p))
    BY HeaderIs
<1>2. P \in Seq(Octet) /\ Len(P) = 20 /\ C \in Seq(Octet) /\ Len(C) = 2
    BY DEF SosPreamble, Octet
<1>3. q = P \o C \o H \o p \o B \o P
    BY Zenon DEF make_sos_packet, BytesCrc
<1> HIDE DEF H, P, C, q
<1>4. H \in Seq(Octet) /\ Len(H) = 9
    BY <1>1, Zenon DEF IsHeader
<1>5. B \in Seq(Octet)
    <2>1. crc8(Tail(H) \o p) \in Word
        BY <1>4, TailBehind, Crc8Type, Zenon
    <2>2. B \in TwoBytes
        BY <2>1, BytesType, Zenon DEF BytesCrc
    <2> QED
        BY <2>2, Zenon DEF TwoBytes
<1> HIDE DEF B
<1>6. a \in Seq(Octet) /\ Len(a) = 22
    <2>1. a \in Seq(Octet) /\ Len(a) = Len(P) + Len(C)
        BY <1>2, Together, Zenon
    <2> QED
        BY <1>2, <2>1
<1>7. m \in Seq(Octet)
    BY <1>4, <1>5 DEF MessageOf
<1>8. q = a \o m \o P
    <2>1. \A x, y, z \in Seq(Octet) : x \o y \in Seq(Octet) /\ x \o y \o z = x \o (y \o z)
        BY Together, Associative, SMTT(30)
    <2>2. a \o H \o p \o B = a \o m
        <3> DEFINE body == H \o p
        <3> HIDE DEF a
        <3>1. a \o H \o p = a \o body /\ body \in Seq(Octet)
            BY <1>4, <1>6, <2>1, Zenon
        <3>2. m = body \o B
            BY DEF MessageOf
        <3> HIDE DEF body, m
        <3>3. a \o body \o B = a \o (body \o B)
            <4>1. \A x, y, z \in Seq(Octet) : x \o y \o z = x \o (y \o z)
                BY Associative, SMTT(30)
            <4>2. a \in Seq(Octet) /\ body \in Seq(Octet) /\ B \in Seq(Octet)
                BY <1>5, <1>6, <3>1
            <4> QED
                BY <4>1, <4>2, ZenonT(30)
        <3> QED
            BY <3>1, <3>2, <3>3, Zenon
    <2> QED
        BY <1>3, <2>2, Zenon
<1> HIDE DEF a, m
<1>9. SubSeq(a \o m \o P, Len(a) + 1, Len(a) + Len(m)) = m
    BY <1>2, <1>6, <1>7, Between, Zenon
<1>10. Len(q) = 22 + Len(m) + 20 /\ Len(m) \in Nat
    <2>1. \A x, y \in Seq(Octet) : x \o y \in Seq(Octet) /\ Len(x \o y) = Len(x) + Len(y)
        BY Together
    <2>2. /\ Len(a \o m) = Len(a) + Len(m)
          /\ Len(a \o m \o P) = Len(a \o m) + Len(P)
        BY <1>2, <1>6, <1>7, <2>1, Zenon
    <2>3. Len(m) \in Nat
        BY <1>7
    <2> QED
        BY <1>2, <1>6, <1>8, <2>2, <2>3
<1>11. Len(a) + 1 = 23 /\ Len(a) + Len(m) = Len(q) - 20
    BY <1>6, <1>10
<1>12. SubSeq(q, 23, Len(q) - 20) = m
    BY <1>8, <1>9, <1>11, Zenon
<1> QED
    BY <1>12, Zenon DEF q, m, B, H

\* The message of an accepted call, and what the watcher makes of it.
LEMMA SosIsRead ==
    ASSUME CallsInv, IsSos
    PROVE  ReadsBack(SosMessage, call.fields, call.payload)
<1>1. PICK f, p : f = call.fields /\ p = call.payload
    OBVIOUS
<1>2. call \in SosCalls /\ SosPacket
    BY DEF CallsInv, IsSos
<1>3. call \in [fields : SosFields, payload : Seq(Octet)]
    BY <1>2, CallsAssumption, Zenon
<1>4. f \in SosFields /\ p \in Seq(Octet)
    BY <1>1, <1>3
<1>5. SosAccepts(p) /\ pkt = make_sos_packet(f, p)
    BY <1>1, <1>2, Zenon DEF SosPacket
<1>6. PICK H : H = SosHeader(f, p)
    OBVIOUS
<1>7. IsHeader(H, f, Len(p))
    BY <1>4, <1>5, <1>6, HeaderIs, Zenon
<1>8. SosMessage = MessageOf(H, p, BytesCrc(H, p))
    BY <1>4, <1>5, <1>6, SosTaken, Zenon DEF SosMessage
<1>9. ReadsBack(MessageOf(H, p, BytesCrc(H, p)), f, p)
    BY <1>4, <1>5, <1>7, WatcherReads, Zenon
<1> QED
    BY <1>1, <1>8, <1>9, Zenon

(***************************************************************************)
(* Every field and the payload of a packet of SOS come back, whatever they *)
(* are and whatever the table: the byte orders of builder and watcher fit  *)
(* (cc1k_sos_pkt.py:40-68 and 206-213).                                    *)
(***************************************************************************)
THEOREM SosFieldsComeBack ==
    Spec => []SosDecodes
<1>1. CallsInv => SosDecodes
    BY SosIsRead, Zenon DEF SosDecodes, ReadsBack
<1> QED
    BY <1>1, CallsStay, PTL

\* What the watcher's test compares.
LEMMA SosTest ==
    ASSUME NEW m
    PROVE  sos_run(m).ok <=>
               m[Len(m) - 1] + m[Len(m)] * 256 = crc8(SubSeq(m, 2, 9 + m[9]))
BY DEF sos_run, SosCrcRange

(***************************************************************************)
(* The watcher takes no packet of SOS for another one that was damaged     *)
(* within one byte, be it in the header, the payload or the checksum, if   *)
(* the sink has read the length right; damage to the group, which the      *)
(* checksum leaves out, it never sees (cc1k_sos_pkt.py:62, 206-217,        *)
(* crc8.py:44-55).                                                         *)
(***************************************************************************)
THEOREM OneSosByteIsFound ==
    ASSUME NEW m \in Seq(Octet), Len(m) >= 11, Len(m) = 11 + m[9], sos_run(m).ok,
           NEW i \in 1 .. Len(m), i # 9, NEW b \in Octet, b # m[i]
    PROVE  sos_run([m EXCEPT ![i] = b]).ok <=> i = 1
<1> DEFINE n    == Len(m)
           hit  == [m EXCEPT ![i] = b]
           sum  == SubSeq(m, 2, n - 2)
           rest == SubSeq(hit, 2, n - 2)
<1>1. /\ n \in Nat /\ n >= 11 /\ i \in 1 .. n /\ i # 9
      /\ hit \in Seq(Octet) /\ Len(hit) = n /\ hit[i] = b
      /\ \A k \in 1 .. n : k # i => hit[k] = m[k]
    BY ReplacedElement
<1>2. \A k \in 1 .. n : m[k] \in Octet /\ hit[k] \in Octet
    <2>1. \A s \in Seq(Octet) : \A k \in 1 .. Len(s) : s[k] \in Octet
        OBVIOUS
    <2> QED
        BY <1>1, <2>1, Zenon
<1> HIDE DEF hit
<1>3. hit[9] = m[9] /\ 9 + m[9] = n - 2
    <2>1. 9 \in 1 .. n /\ 9 # i
        BY <1>1
    <2>2. hit[9] = m[9]
        BY <1>1, <2>1, Zenon
    <2>3. m[9] \in Nat
        <3>1. m[9] \in Octet
            BY <1>2, <2>1, Zenon
        <3>2. \A v \in Octet : v \in Nat
            BY DEF Octet
        <3> QED
            BY <3>1, <3>2, Zenon
    <2> QED
        BY <2>2, <2>3
<1>4. /\ sum \in Seq(Octet) /\ Len(sum) = n - 3
      /\ \A k \in 1 .. n - 3 : sum[k] = m[k + 1]
    BY <1>1
<1>5. /\ rest \in Seq(Octet) /\ Len(rest) = n - 3
      /\ \A k \in 1 .. n - 3 : rest[k] = hit[k + 1]
    BY <1>1
<1>6. crc8(sum) = m[n - 1] + m[n] * 256
    BY <1>3, SosTest
<1>7. sos_run(hit).ok <=> hit[n - 1] + hit[n] * 256 = crc8(rest)
    <2>1. sos_run(hit).ok <=>
              hit[Len(hit) - 1] + hit[Len(hit)] * 256 = crc8(SubSeq(hit, 2, 9 + hit[9]))
        BY SosTest, Zenon
    <2>2. Len(hit) = n /\ 9 + hit[9] = n - 2
        BY <1>1, <1>3, Zenon
    <2> QED
        BY <2>1, <2>2, Zenon
<1> HIDE DEF n, sum, rest
<1>8. n - 1 \in 1 .. n /\ n \in 1 .. n /\ 1 # n - 1 /\ 1 # n
    BY <1>1
<1>9. \A k \in 1 .. n - 3 : k + 1 \in 1 .. n
    BY <1>1
<1>10. CASE i = 1
    <2>1. ASSUME NEW k \in 1 .. n - 3
          PROVE  sum[k] = rest[k]
        <3>1. k + 1 # i
            BY <1>10
        <3> QED
            BY <1>1, <1>4, <1>5, <1>9, <3>1, Zenon
    <2>2. sum = rest
        BY <1>4, <1>5, <2>1, SameSequence
    <2>3. hit[n - 1] = m[n - 1] /\ hit[n] = m[n]
        BY <1>1, <1>8, <1>10, Zenon
    <2> QED
        BY <1>6, <1>7, <1>10, <2>2, <2>3, Zenon DEF hit
<1>11. CASE i \in 2 .. n - 2
    <2>1. hit[n - 1] = m[n - 1] /\ hit[n] = m[n]
        <3>1. n - 1 # i /\ n # i
            BY <1>1, <1>11
        <3> QED
            BY <1>1, <1>8, <3>1, Zenon
    <2>2. PICK j \in 1 .. n - 3 : j + 1 = i
        <3>1. i - 1 \in 1 .. n - 3 /\ (i - 1) + 1 = i
            BY <1>1, <1>11
        <3> QED
            BY <3>1
    <2>3. ASSUME NEW k \in 1 .. n - 3, k # j
          PROVE  sum[k] = rest[k]
        <3>1. k + 1 # i
            BY <2>2, <2>3
        <3> QED
            BY <1>1, <1>4, <1>5, <1>9, <3>1, Zenon
    <2>4. sum[j] # rest[j]
        BY <1>1, <1>4, <1>5, <2>2, Zenon
    <2>5. crc8(sum) # crc8(rest)
        <3>1. Len(sum) = Len(rest) /\ j \in 1 .. Len(sum)
            BY <1>4, <1>5, Zenon
        <3>2. \A k \in 1 .. Len(sum) : k # j => sum[k] = rest[k]
            BY <1>4, <2>3, Zenon
        <3> QED
            BY <1>4, <1>5, <2>4, <3>1, <3>2, Crc8Differs
    <2>6. ~sos_run(hit).ok
        BY <1>6, <1>7, <2>1, <2>5, Zenon
    <2> QED
        BY <1>11, <2>6 DEF hit
<1>12. CASE i = n - 1 \/ i = n
    <2>1. sum = rest
        <3>1. ASSUME NEW k \in 1 .. n - 3
              PROVE  sum[k] = rest[k]
            <4>1. k + 1 # i
                BY <1>1, <1>12
            <4> QED
                BY <1>1, <1>4, <1>5, <1>9, <4>1, Zenon
        <3> QED
            BY <1>4, <1>5, <3>1, SameSequence
    <2>2. ASSUME sos_run(hit).ok PROVE FALSE
        <3>1. m[n - 1] + m[n] * 256 = hit[n - 1] + hit[n] * 256
            BY <1>6, <1>7, <2>1, <2>2, Zenon
        <3>2. /\ m[n - 1] \in Octet /\ m[n] \in Octet
              /\ hit[n - 1] \in Octet /\ hit[n] \in Octet
            BY <1>2, <1>8, Zenon
        <3>3. m[n - 1] = hit[n - 1] /\ m[n] = hit[n]
            BY <3>1, <3>2, BytesOfNumber
        <3> QED
            BY <1>1, <1>12, <3>3
    <2>3. i # 1
        BY <1>8, <1>12
    <2> QED
        BY <2>2, <2>3 DEF hit
<1>13. i = 1 \/ i \in 2 .. n - 2 \/ i = n - 1 \/ i = n
    BY <1>1
<1> QED
    BY <1>10, <1>11, <1>12, <1>13
-----------------------------------------------------------------------------
(***************************************************************************)
(* Errors on the air.                                                      *)
(***************************************************************************)
\* A byte has its errors where the channel puts them, in what is taken.
HitInv ==
    /\ errors \subseteq 1 .. 8 * Len(Sent)
    /\ pkt = <<>> => errors = {}
    /\ IsSos => errors \cap 65 .. 72 = {}

LEMMA HitsStay == Spec => []HitInv
<1>1. Init => HitInv
    BY DEF Init, HitInv, IsSos
<1>2. HitInv /\ [Next]_vars => HitInv'
    <2> SUFFICES ASSUME HitInv, [Next]_vars PROVE HitInv'
        OBVIOUS
    <2>1. CASE Build \/ BuildSos
        <3>1. errors' = {}
            BY <2>1 DEF Build, BuildSos, HitInv
        <3> QED
            BY <3>1 DEF HitInv
    <2>2. CASE Hit
        <3>1. PICK k \in 1 .. 8 * Len(Sent) :
                  (IsSos => k \notin 65 .. 72) /\ errors' = errors \cup {k}
            BY <2>2 DEF Hit
        <3>2. pkt # <<>> /\ UNCHANGED <<standard, call, pkt>>
            BY <2>2 DEF Hit
        <3>3. Sent' = Sent /\ IsSos' = IsSos
            BY <3>2 DEF Sent, SosMessage, Psdu, PsduOf, IsSos
        <3>4. errors' \subseteq 1 .. 8 * Len(Sent')
            BY <3>1, <3>3, Zenon DEF HitInv
        <3>5. IsSos => errors' \cap 65 .. 72 = {}
            BY <3>1 DEF HitInv
        <3> QED
            BY <3>2, <3>3, <3>4, <3>5, Zenon DEF HitInv
    <2>3. CASE UNCHANGED vars
        BY <2>3 DEF vars, HitInv, Sent, SosMessage, Psdu, PsduOf, IsSos
    <2> QED
        BY <2>1, <2>2, <2>3 DEF Next
<1> QED
    BY <1>1, <1>2, PTL DEF Spec

\* Where a byte has no error nothing is hit.
InByte(i) == errors \cap 8 * i - 7 .. 8 * i
LEMMA MaskIs ==
    ASSUME NEW i \in Nat
    PROVE  Mask(i) \in Octet /\ (Mask(i) = 0 <=> InByte(i) = {})
<1> DEFINE One(n, w) == IF 8 * i - n \in errors THEN w ELSE 0
<1>1. PICK a, b, c, d, e, f, g, h :
          /\ a = One(0, 1) /\ b = One(1, 2) /\ c = One(2, 4) /\ d = One(3, 8)
          /\ e = One(4, 16) /\ f = One(5, 32) /\ g = One(6, 64) /\ h = One(7, 128)
    OBVIOUS
<1>2. Mask(i) = a + b + c + d + e + f + g + h
    BY <1>1 DEF Mask
<1>3. /\ a \in {0, 1} /\ b \in {0, 2} /\ c \in {0, 4} /\ d \in {0, 8}
      /\ e \in {0, 16} /\ f \in {0, 32} /\ g \in {0, 64} /\ h \in {0, 128}
    BY <1>1
<1>4. /\ Mask(i) \in Octet
      /\ Mask(i) = 0 <=> /\ a = 0 /\ b = 0 /\ c = 0 /\ d = 0
                         /\ e = 0 /\ f = 0 /\ g = 0 /\ h = 0
    BY <1>2, <1>3 DEF Octet
<1>5. InByte(i) = {} <=> \A n \in 0 .. 7 : 8 * i - n \notin errors
    <2>1. ASSUME InByte(i) = {}, NEW n \in 0 .. 7
          PROVE  8 * i - n \notin errors
        <3>1. 8 * i - n \in 8 * i - 7 .. 8 * i
            OBVIOUS
        <3> QED
            BY <2>1, <3>1, Zenon DEF InByte
    <2>2. ASSUME \A n \in 0 .. 7 : 8 * i - n \notin errors, NEW k \in InByte(i)
          PROVE  FALSE
        <3>1. k \in errors /\ k \in 8 * i - 7 .. 8 * i
            BY Zenon DEF InByte
        <3>2. 8 * i - k \in 0 .. 7 /\ 8 * i - (8 * i - k) = k
            BY <3>1
        <3> QED
            BY <2>2, <3>1, <3>2
    <2> QED
        BY <2>1, <2>2, Zenon
<1>6. (\A n \in 0 .. 7 : 8 * i - n \notin errors) <=>
          /\ a = 0 /\ b = 0 /\ c = 0 /\ d = 0 /\ e = 0 /\ f = 0 /\ g = 0 /\ h = 0
    BY <1>1
<1> QED
    BY <1>4, <1>5, <1>6

LEMMA XorZero ==
    ASSUME NEW a \in Octet
    PROVE  XorBytes(a, 0) = a
<1>1. 0 \in Octet
    BY DEF Octet
<1>2. XorBytes(a, 0) \in Octet
    BY <1>1, XorDigits
<1>3. ASSUME NEW w \in {1, 2, 4, 8, 16, 32, 64, 128}
      PROVE  Digit(XorBytes(a, 0), w) = Digit(a, w)
    <2>1. Digit(XorBytes(a, 0), w) = (Digit(a, w) + Digit(0, w)) % 2
        BY <1>1, XorDigits
    <2>2. Digit(a, w) \in 0 .. 1 /\ Digit(0, w) = 0
        BY DEF Digit, Octet
    <2> QED
        BY <2>1, <2>2
<1> QED
    BY <1>2, <1>3, ByteOfDigits

\* A byte arrives as it was sent if, and only if, it was not hit.
LEMMA ReceivedIs ==
    ASSUME Sent \in Seq(Octet)
    PROVE  /\ Received \in Seq(Octet) /\ Len(Received) = Len(Sent)
           /\ \A i \in 1 .. Len(Sent) : Received[i] = Sent[i] <=> InByte(i) = {}
<1> DEFINE n == Len(Sent)
<1>1. n \in Nat /\ \A i \in 1 .. n : Sent[i] \in Octet
    OBVIOUS
<1>2. ASSUME NEW i \in 1 .. n
      PROVE  /\ XorBytes(Sent[i], Mask(i)) \in Octet
             /\ XorBytes(Sent[i], Mask(i)) = Sent[i] <=> InByte(i) = {}
    <2>1. PICK s, m : s = Sent[i] /\ m = Mask(i)
        OBVIOUS
    <2>2. i \in Nat
        BY <1>1
    <2>3. s \in Octet /\ m \in Octet /\ 0 \in Octet /\ (m = 0 <=> InByte(i) = {})
        <3>1. 0 \in Octet
            BY DEF Octet
        <3> QED
            BY <1>1, <2>1, <2>2, <3>1, MaskIs, Zenon
    <2>4. XorBytes(s, m) \in Octet
        BY <2>3, XorDigits, Zenon
    <2>5. XorBytes(s, 0) = s
        BY <2>3, XorZero, Zenon
    <2>6. XorBytes(s, m) = s => m = 0
        BY <2>3, <2>5, XorDiffers, Zenon
    <2> QED
        BY <2>1, <2>3, <2>4, <2>5, <2>6, Zenon
<1> HIDE DEF n
<1>3. Received = [i \in 1 .. n |-> XorBytes(Sent[i], Mask(i))]
    BY DEF Received, n
<1>4. Received \in [1 .. n -> Octet]
    BY <1>2, <1>3
<1>5. Received \in Seq(Octet) /\ Len(Received) = n
    BY <1>1, <1>4, FunctionIsSeq
<1> QED
    BY <1>2, <1>3, <1>5 DEF n

WithinOneByte == \E i \in 1 .. Len(Sent) : errors \subseteq 8 * i - 7 .. 8 * i

LEMMA ReceivedWithinOne ==
    ASSUME Sent \in Seq(Octet), NEW i \in 1 .. Len(Sent), errors \subseteq 8 * i - 7 .. 8 * i
    PROVE  /\ errors = {} => Received = Sent
           /\ errors # {} => /\ Received[i] \in Octet /\ Received[i] # Sent[i]
                             /\ Received = [Sent EXCEPT ![i] = Received[i]]
<1>1. /\ Received \in Seq(Octet) /\ Len(Received) = Len(Sent)
      /\ \A k \in 1 .. Len(Sent) : Received[k] = Sent[k] <=> InByte(k) = {}
    BY ReceivedIs, Zenon
<1>2. PICK r, s : r = Received /\ s = Sent
    OBVIOUS
<1>3. r \in Seq(Octet) /\ s \in Seq(Octet) /\ Len(r) = Len(s) /\ i \in 1 .. Len(s)
    BY <1>1, <1>2, Zenon
<1>4. \A k \in 1 .. Len(s) : r[k] = s[k] <=> InByte(k) = {}
    BY <1>1, <1>2, Zenon
<1>5. ASSUME errors = {}
      PROVE  r = s
    <2>1. \A k \in 1 .. Len(s) : r[k] = s[k]
        BY <1>4, <1>5, Zenon DEF InByte
    <2> QED
        BY <1>3, <2>1, SameSequence
<1>6. ASSUME errors # {}
      PROVE  r[i] \in Octet /\ r[i] # s[i] /\ r = [s EXCEPT ![i] = r[i]]
    <2>1. r[i] \in Octet
        BY <1>3
    <2>2. InByte(i) # {}
        BY <1>6, Zenon DEF InByte
    <2>3. r[i] # s[i]
        BY <1>3, <1>4, <2>2, Zenon
    <2>4. ASSUME NEW k \in 1 .. Len(s), k # i
          PROVE  r[k] = s[k]
        <3>1. 8 * i - 7 .. 8 * i \cap 8 * k - 7 .. 8 * k = {}
            BY <1>3, <2>4
        <3>2. InByte(k) = {}
            BY <3>1, Zenon DEF InByte
        <3> QED
            BY <1>4, <3>2, Zenon
    <2>5. PICK t : t = [s EXCEPT ![i] = r[i]]
        OBVIOUS
    <2>6. /\ t \in Seq(Octet) /\ Len(t) = Len(s) /\ t[i] = r[i]
          /\ \A k \in 1 .. Len(s) : k # i => t[k] = s[k]
        BY <1>3, <2>1, <2>5, ReplacedElement
    <2>7. \A k \in 1 .. Len(s) : r[k] = t[k]
        BY <2>4, <2>6, Zenon
    <2>8. r = t
        BY <1>3, <2>6, <2>7, SameSequence
    <2> QED
        BY <2>1, <2>3, <2>5, <2>8, Zenon
<1> QED
    BY <1>2, <1>5, <1>6, Zenon

(***************************************************************************)
(* Of a frame that was built, the watcher's test finds every error, or any *)
(* number of them, within one byte of what is taken, be it a byte of the   *)
(* FCS; and it takes the frame when there is none                          *)
(* (ieee_pkt_receiver.py:84-91).                                           *)
(***************************************************************************)
THEOREM ErrorsInByteFound == Spec => [](WithinOneByte => OkIffIntact)
<1>1. ASSUME CallsInv, HitInv, WithinOneByte, IsFrame
      PROVE  ok(Received) <=> errors = {}
    <2>1. PICK m : m = CallMpdu
        OBVIOUS
    <2>2. m \in Seq(Octet) /\ Psdu = m \o FCS(m)
        BY <1>1, <2>1, PsduIs, Zenon
    <2>3. Psdu \in Seq(Octet) /\ Len(Psdu) >= 2
        <3>1. PICK f : f = FCS(m)
            OBVIOUS
        <3>2. f \in Seq(Octet) /\ Len(f) = 2
            BY <2>2, <3>1, FcsType, Zenon
        <3>3. m \o f \in Seq(Octet) /\ Len(m \o f) = Len(m) + Len(f)
            BY <2>2, <3>2, Together, Zenon
        <3>4. Len(m) \in Nat
            BY <2>2
        <3>5. Len(m) + Len(f) >= 2
            BY <3>2, <3>4
        <3> QED
            BY <2>2, <3>1, <3>3, <3>5, Zenon
    <2>4. ok(Psdu)
        BY <2>2, WatcherAccepts, Zenon
    <2>5. Sent = Psdu
        BY <1>1 DEF Sent, IsFrame
    <2>6. PICK i \in 1 .. Len(Sent) : errors \subseteq 8 * i - 7 .. 8 * i
        BY <1>1, Zenon DEF WithinOneByte
    <2>7. CASE errors = {}
        <3>1. Received = Psdu
            BY <2>3, <2>5, <2>6, <2>7, ReceivedWithinOne, Zenon
        <3> QED
            BY <2>4, <2>7, <3>1, Zenon
    <2>8. CASE errors # {}
        <3>1. PICK b : b = Received[i]
            OBVIOUS
        <3>2. b \in Octet /\ b # Psdu[i] /\ Received = [Psdu EXCEPT ![i] = b]
            BY <2>3, <2>5, <2>6, <2>8, <3>1, ReceivedWithinOne, Zenon
        <3>3. ~ok([Psdu EXCEPT ![i] = b])
            BY <2>3, <2>4, <2>5, <2>6, <3>2, OneByteIsFound, Zenon
        <3> QED
            BY <2>8, <3>2, <3>3, Zenon
    <2> QED
        BY <2>7, <2>8, Zenon
<1>2. CallsInv /\ HitInv => (WithinOneByte => OkIffIntact)
    BY <1>1, Zenon DEF OkIffIntact
<1> QED
    BY <1>2, CallsStay, HitsStay, PTL

\* The message of a packet of SOS has its length in byte 9.
LEMMA SosMessageIs ==
    ASSUME CallsInv, IsSos
    PROVE  /\ SosMessage \in Seq(Octet) /\ Len(SosMessage) >= 11
           /\ Len(SosMessage) = 11 + SosMessage[9]
<1>1. PICK f, p, H, B, m :
          /\ f = call.fields /\ p = call.payload /\ H = SosHeader(f, p)
          /\ B = BytesCrc(H, p) /\ m = SosMessage
    OBVIOUS
<1>2. call \in SosCalls /\ SosPacket
    BY DEF CallsInv, IsSos
<1>3. call \in [fields : SosFields, payload : Seq(Octet)]
    BY <1>2, CallsAssumption, Zenon
<1>4. f \in SosFields /\ p \in Seq(Octet)
    BY <1>1, <1>3
<1>5. SosAccepts(p) /\ pkt = make_sos_packet(f, p)
    BY <1>1, <1>2, Zenon DEF SosPacket
<1>6. IsHeader(H, f, Len(p))
    BY <1>1, <1>4, <1>5, HeaderIs, Zenon
<1>7. H \in Seq(Octet) /\ Len(H) = 9 /\ H[9] = Len(p)
    BY <1>6, Zenon DEF IsHeader
<1>8. m = MessageOf(H, p, B)
    BY <1>1, <1>4, <1>5, SosTaken, Zenon DEF SosMessage
<1>9. B \in TwoBytes
    <2>1. crc8(Tail(H) \o p) \in Word
        BY <1>4, <1>7, TailBehind, Crc8Type, Zenon
    <2> QED
        BY <1>1, <2>1, BytesType, Zenon DEF BytesCrc
<1>10. IsMessage(m, H, p, B)
    BY <1>4, <1>7, <1>8, <1>9, MessageParts, Zenon
<1>11. m \in Seq(Octet) /\ Len(m) = 11 + Len(p) /\ \A k \in 1 .. 9 : m[k] = H[k]
    BY <1>10, Zenon DEF IsMessage
<1>12. Len(p) \in Nat /\ m[9] = Len(p)
    BY <1>4, <1>7, <1>11
<1> QED
    BY <1>1, <1>11, <1>12

(***************************************************************************)
(* Of a packet of SOS the watcher's test finds every error within one byte *)
(* of header, payload and checksum, wherever it is but in the group        *)
(* (cc1k_sos_pkt.py:206-217).                                              *)
(***************************************************************************)
THEOREM SosErrorsInByteFound == Spec => [](WithinOneByte => SosOkIffIntact)
<1>1. ASSUME CallsInv, HitInv, WithinOneByte, IsSos
      PROVE  sos_run(Received).ok <=> errors \subseteq 1 .. 8
    <2>1. PICK m : m = SosMessage
        OBVIOUS
    <2>2. m \in Seq(Octet) /\ Len(m) >= 11 /\ Len(m) = 11 + m[9]
        BY <1>1, <2>1, SosMessageIs, Zenon
    <2>3. sos_run(m).ok
        BY <1>1, <2>1, SosIsRead, Zenon DEF ReadsBack
    <2>4. Sent = m
        BY <1>1, <2>1 DEF Sent, IsSos
    <2>5. PICK i \in 1 .. Len(Sent) : errors \subseteq 8 * i - 7 .. 8 * i
        BY <1>1, Zenon DEF WithinOneByte
    <2>6. CASE errors = {}
        <3>1. Received = m
            BY <2>2, <2>4, <2>5, <2>6, ReceivedWithinOne, Zenon
        <3> QED
            BY <2>3, <2>6, <3>1, Zenon
    <2>7. CASE errors # {}
        <3>1. PICK b : b = Received[i]
            OBVIOUS
        <3>2. b \in Octet /\ b # m[i] /\ Received = [m EXCEPT ![i] = b]
            BY <2>2, <2>4, <2>5, <2>7, <3>1, ReceivedWithinOne, Zenon
        <3>3. i # 9
            <4>1. errors \cap 65 .. 72 = {}
                BY <1>1 DEF HitInv
            <4>2. ASSUME i = 9
                  PROVE  errors \subseteq 65 .. 72
                BY <2>5, <4>2
            <4> QED
                BY <2>7, <4>1, <4>2, Zenon
        <3>4. sos_run([m EXCEPT ![i] = b]).ok <=> i = 1
            BY <2>2, <2>3, <2>4, <2>5, <3>2, <3>3, OneSosByteIsFound, Zenon
        <3>5. i = 1 <=> errors \subseteq 1 .. 8
            <4>1. PICK k : k \in errors
                BY <2>7
            <4>2. i \in Nat \ {0} /\ k \in 8 * i - 7 .. 8 * i
                BY <2>2, <2>4, <2>5, <4>1
            <4>3. k \in 1 .. 8 => i = 1
                BY <4>2
            <4>4. i = 1 => errors \subseteq 1 .. 8
                BY <2>5
            <4> QED
                BY <4>1, <4>3, <4>4
        <3> QED
            BY <3>2, <3>4, <3>5, Zenon
    <2> QED
        BY <2>6, <2>7, Zenon
<1>2. CallsInv /\ HitInv => (WithinOneByte => SosOkIffIntact)
    BY <1>1, Zenon DEF SosOkIffIntact
<1> QED
    BY <1>2, CallsStay, HitsStay, PTL

(***************************************************************************)
(* The checksums as remainders.  The steps of the long division, and the   *)
(* sixteen exponents of which crcbitbybit's register always holds what is  *)
(* left; then the table of SOS, of which an entry is eight steps.          *)
(***************************************************************************)
Divisions(g, S, n) ==
    /\ g \in [0 .. n -> SUBSET Int] /\ g[0] = S
    /\ \A k \in 1 .. n : g[k] = Reduced(g[k - 1], n + 16 - k)

\* An exponent is left if it was there or is one of the divisor's, and not both.
LEMMA ReducedElements ==
    ASSUME NEW P, NEW e \in Int, P \subseteq Int
    PROVE  /\ Reduced(P, e) \subseteq Int
           /\ \A x : x \in Reduced(P, e) <=> ~(x \in P <=> e \in P /\ x \in Divisor(e))
<1>1. Divisor(e) \subseteq Int
    BY DEF Divisor
<1> QED
    BY <1>1 DEF Reduced, Added

\* The polynomials of the long division.
LEMMA RemainderSteps ==
    ASSUME NEW S, S \subseteq Int, NEW n \in Nat
    PROVE  \E g : Divisions(g, S, n) /\ Remainder(S, n) = g[n]
<1> DEFINE Step == [k \in 1 .. n |-> [P \in SUBSET Int |-> Reduced(P, n + 16 - k)]]
           IsLeft(f) == f = [k \in 0 .. n |-> IF k = 0 THEN S ELSE Reduced(f[k - 1], n + 16 - k)]
           left == CHOOSE f : IsLeft(f)
<1>1. Remainder(S, n) = left[n]
    BY DEF Remainder
<1>2. \A k \in 1 .. n : n + 16 - k \in Int
    OBVIOUS
<1>3. \A P \in SUBSET Int, k \in 1 .. n : Reduced(P, n + 16 - k) \in SUBSET Int
    <2> TAKE P \in SUBSET Int, k \in 1 .. n
    <2>1. P \subseteq Int /\ n + 16 - k \in Int
        BY <1>2
    <2>2. Reduced(P, n + 16 - k) \subseteq Int
        BY <2>1, ReducedElements
    <2> QED
        BY <2>2
<1>4. IsRecursion(n, SUBSET Int, S, Step)
    BY <1>3 DEF IsRecursion
<1>5. \A P \in SUBSET Int, k \in 1 .. n : Step[k][P] = Reduced(P, n + 16 - k)
    OBVIOUS
<1> HIDE DEF Step
<1>6. PICK g : Solves(g, n, SUBSET Int, S, Step)
    BY <1>4, RecursionExists
<1>7. Divisions(g, S, n)
    <2>1. ASSUME NEW k \in 1 .. n
          PROVE  g[k] = Reduced(g[k - 1], n + 16 - k)
        <3>1. k - 1 \in 0 .. n
            OBVIOUS
        <3>2. g[k - 1] \in SUBSET Int /\ g[k] = Step[k][g[k - 1]]
            BY <1>6, <3>1 DEF Solves
        <3> QED
            BY <1>5, <3>2
    <2> QED
        BY <1>6, <2>1 DEF Solves, Divisions
<1>8. IsLeft(g)
    BY <1>7 DEF Divisions
<1>9. IsLeft(left)
    BY <1>8
<1> HIDE DEF left
<1>10. left[0] = S
    BY <1>9
<1>11. ASSUME NEW k \in 1 .. n
       PROVE  left[k] = Reduced(left[k - 1], n + 16 - k)
    <2>1. k \in 0 .. n /\ k # 0
        OBVIOUS
    <2> QED
        BY <1>9, <2>1, Zenon
<1>12. \A k \in 1 .. n : left[k - 1] \in SUBSET Int => left[k] = Step[k][left[k - 1]]
    BY <1>5, <1>11
<1>13. \A k \in 0 .. n : left[k] = g[k]
    BY <1>6, <1>10, <1>12, RecursionUnique
<1>14. left[n] = g[n]
    BY <1>13
<1> QED
    BY <1>1, <1>7, <1>14

(***************************************************************************)
(* The checksum of the frame: the register is a window of 16 exponents on  *)
(* what is left of the message.                                            *)
(***************************************************************************)
\* The divisor is the polynomial of the code.
LEMMA PolynomialBits ==
    \A i \in 1 .. 16 : Polynomial[i] = IF i \in {4, 11, 16} THEN 1 ELSE 0
<1>1. PICK v \in Nat : v = 4129
    OBVIOUS
<1>2. PICK n \in Nat : n = 16
    OBVIOUS
<1>3. Polynomial = BitsOf(v, n)
    BY <1>1, <1>2 DEF Polynomial, CrcWidth
<1>4. PICK s : Halves(s, v, n) /\ BitsOf(v, n) = [i \in 1 .. n |-> s[n - i] % 2]
    BY BitsOfHalves
<1>5. s[0] = 4129 /\ \A k \in 1 .. 16 : s[k] = s[k - 1] \div 2
    BY <1>1, <1>2, <1>4 DEF Halves
<1>6. s[1] = 2064 /\ s[2] = 1032 /\ s[3] = 516 /\ s[4] = 258
    BY <1>5
<1>7. s[5] = 129 /\ s[6] = 64 /\ s[7] = 32 /\ s[8] = 16
    BY <1>5, <1>6
<1>8. s[9] = 8 /\ s[10] = 4 /\ s[11] = 2 /\ s[12] = 1
    BY <1>5, <1>7
<1>9. s[13] = 0 /\ s[14] = 0 /\ s[15] = 0
    BY <1>5, <1>8
<1>10. \A k \in 0 .. 15 : s[k] % 2 = IF k \in {0, 5, 12} THEN 1 ELSE 0
    <2>1. \A k \in 0 .. 15 : k \in {0, 1, 2, 3, 4, 5, 6, 7, 8, 9, 10, 11, 12, 13, 14, 15}
        OBVIOUS
    <2> QED
        BY <1>5, <1>6, <1>7, <1>8, <1>9, <2>1
<1>11. \A i \in 1 .. 16 : Polynomial[i] = s[16 - i] % 2
    BY <1>2, <1>3, <1>4
<1> QED
    BY <1>10, <1>11

\* What is left after t shifts: the division starts when the first bit falls out.
Left(g, t) == IF t <= 16 THEN g[0] ELSE g[t - 16]

\* Exponent of the bit that the t-th shift brings in, of a message of n bits.
Entering(n, t) == n + 16 - t

Window(r, g, n, t) ==
    \A i \in 1 .. 16 : r[i] = 1 <=> Entering(n, t) + 16 - i \in Left(g, t)

\* The t-th shift is a step of the division, by the exponent that falls out.
LEMMA LeftSteps ==
    ASSUME NEW n \in Nat, NEW S, S \subseteq 16 .. n + 15, NEW g, Divisions(g, S, n),
           NEW t \in 1 .. n + 16
    PROVE  /\ Left(g, t - 1) \subseteq Int
           /\ Left(g, t) = Reduced(Left(g, t - 1), Entering(n, t) + 16)
<1>1. CASE t <= 16
    <2>1. Left(g, t) = S /\ Left(g, t - 1) = S
        BY <1>1 DEF Left, Divisions
    <2>2. Entering(n, t) + 16 \notin S
        BY <1>1 DEF Entering
    <2>3. S \subseteq Int
        OBVIOUS
    <2>4. Reduced(S, Entering(n, t) + 16) = S
        BY <2>2 DEF Reduced
    <2> QED
        BY <2>1, <2>3, <2>4, Zenon
<1>2. CASE t > 16
    <2>1. t - 16 \in 1 .. n /\ (t - 16) - 1 \in 0 .. n
        BY <1>2
    <2>2. Left(g, t) = g[t - 16]
        BY <1>2 DEF Left
    <2>3. Left(g, t - 1) = g[(t - 16) - 1]
        <3>1. CASE t = 17
            BY <3>1 DEF Left
        <3>2. CASE t > 17
            <4>1. ~(t - 1 <= 16) /\ (t - 1) - 16 = (t - 16) - 1
                BY <3>2
            <4> QED
                BY <4>1, Zenon DEF Left
        <3> QED
            BY <1>2, <3>1, <3>2
    <2>4. n + 16 - (t - 16) = Entering(n, t) + 16
        BY DEF Entering
    <2>5. g[t - 16] = Reduced(g[(t - 16) - 1], n + 16 - (t - 16))
        BY <2>1, Zenon DEF Divisions
    <2>6. g[(t - 16) - 1] \subseteq Int
        BY <2>1 DEF Divisions
    <2> QED
        BY <2>2, <2>3, <2>4, <2>5, <2>6, Zenon
<1> QED
    BY <1>1, <1>2

\* What has not entered yet is as in the message.
LEMMA NotYetEntered ==
    ASSUME NEW n \in Nat, NEW S, S \subseteq 16 .. n + 15, NEW g, Divisions(g, S, n)
    PROVE  \A t \in 0 .. n + 16 : \A x \in Int : x < Entering(n, t) => (x \in Left(g, t) <=> x \in S)
<1> DEFINE A == {t \in 0 .. n + 16 :
                     \A x \in Int : x < Entering(n, t) => (x \in Left(g, t) <=> x \in S)}
<1>1. 0 \in A
    BY DEF Left, Divisions
<1>2. ASSUME NEW t \in 1 .. n + 16, t - 1 \in A
      PROVE  t \in A
    <2>1. ASSUME NEW x \in Int, x < Entering(n, t)
          PROVE  x \in Left(g, t) <=> x \in S
        <3>1. Entering(n, t) \in Int /\ Entering(n, t - 1) = Entering(n, t) + 1
            BY DEF Entering
        <3>2. x \in Left(g, t - 1) <=> x \in S
            BY <1>2, <2>1, <3>1
        <3>3. x \notin Divisor(Entering(n, t) + 16)
            BY <2>1, <3>1 DEF Divisor
        <3>4. Entering(n, t) + 16 \in Int
            BY <3>1
        <3>5. /\ Left(g, t - 1) \subseteq Int
              /\ Left(g, t) = Reduced(Left(g, t - 1), Entering(n, t) + 16)
            BY LeftSteps
        <3>6. x \in Left(g, t) <=> x \in Left(g, t - 1)
            <4> DEFINE P == Left(g, t - 1)
                       e == Entering(n, t) + 16
            <4>1. P \subseteq Int /\ e \in Int /\ Left(g, t) = Reduced(P, e) /\ x \notin Divisor(e)
                BY <3>3, <3>4, <3>5
            <4> HIDE DEF P, e
            <4>2. \A y : y \in Reduced(P, e) <=> ~(y \in P <=> e \in P /\ y \in Divisor(e))
                BY <4>1, ReducedElements
            <4>3. x \in Reduced(P, e) <=> x \in P
                BY <4>1, <4>2
            <4> QED
                BY <4>1, <4>3 DEF P
        <3> QED
            BY <3>2, <3>6
    <2> QED
        BY <2>1
<1> HIDE DEF A
<1>3. \A t \in 0 .. n + 16 : t \in A
    BY <1>1, <1>2, BoundedInduction
<1> QED
    BY <1>3 DEF A

\* One shift moves the window by one exponent.
LEMMA WindowShifts ==
    ASSUME NEW n \in Nat, NEW S, S \subseteq 16 .. n + 15, NEW g, Divisions(g, S, n),
           NEW t \in 1 .. n + 16, NEW r \in Register, Window(r, g, n, t - 1),
           NEW b \in Bit, b = 1 <=> Entering(n, t) \in S
    PROVE  Window(ShiftIn(r, b), g, n, t)
<1> DEFINE e == Entering(n, t) + 16
           P == Left(g, t - 1)
           w == [i \in 1 .. 16 |-> IF i = 16 THEN b ELSE r[i + 1]]
<1>1. e \in Int /\ Entering(n, t - 1) = e - 15 /\ Entering(n, t) = e - 16
    BY DEF Entering
<1>2. P \subseteq Int /\ Left(g, t) = Reduced(P, e)
    BY LeftSteps
<1>3. Entering(n, t) \in P <=> Entering(n, t) \in S
    <2>1. Entering(n, t) < Entering(n, t - 1) /\ t - 1 \in 0 .. n + 16 /\ Entering(n, t) \in Int
        BY <1>1
    <2>2. \A q \in 0 .. n + 16 : \A x \in Int : x < Entering(n, q) => (x \in Left(g, q) <=> x \in S)
        BY NotYetEntered
    <2> QED
        BY <2>1, <2>2, Zenon
<1>4. \A i \in 1 .. 16 : r[i] = 1 <=> e + 1 - i \in P
    <2> TAKE i \in 1 .. 16
    <2>1. Entering(n, t - 1) + 16 - i = e + 1 - i
        BY <1>1
    <2> QED
        BY <2>1 DEF Window
<1> HIDE DEF e, P
<1>5. r[1] = 1 <=> e \in P
    <2>1. e + 1 - 1 = e
        BY <1>1
    <2> QED
        BY <1>4, <2>1
<1>6. \A i \in 1 .. 16 : w[i] \in Bit /\ (w[i] = 1 <=> e - i \in P)
    <2> TAKE i \in 1 .. 16
    <2>1. CASE i = 16
        BY <1>1, <1>3, <2>1
    <2>2. CASE i # 16
        <3>1. i + 1 \in 1 .. 16 /\ e + 1 - (i + 1) = e - i /\ w[i] = r[i + 1]
            BY <1>1, <2>2
        <3> QED
            BY <1>4, <3>1, RegisterIsSeq
    <2> QED
        BY <2>1, <2>2
<1>7. \A i \in 1 .. 16 :
          ShiftIn(r, b)[i] = IF r[1] = 1 THEN (w[i] + Polynomial[i]) % 2 ELSE w[i]
    <2> TAKE i \in 1 .. 16
    <2>1. CASE i = 16
        BY <2>1, ShiftInElements, PolynomialIs
    <2>2. CASE i # 16
        <3>1. i \in 1 .. 15 /\ w[i] = r[i + 1]
            BY <2>2
        <3> QED
            BY <3>1, ShiftInElements
    <2> QED
        BY <2>1, <2>2
<1> HIDE DEF w
<1>8. ASSUME NEW i \in 1 .. 16
      PROVE  ShiftIn(r, b)[i] = 1 <=> e - i \in Left(g, t)
    <2>1. e - i \in Left(g, t) <=> ~(e - i \in P <=> e \in P /\ e - i \in Divisor(e))
        <3>1. \A y : y \in Reduced(P, e) <=> ~(y \in P <=> e \in P /\ y \in Divisor(e))
            BY <1>1, <1>2, ReducedElements
        <3> QED
            BY <1>2, <3>1
    <2>2. e - i \in Divisor(e) <=> i \in {4, 11, 16}
        BY <1>1 DEF Divisor
    <2>3. CASE r[1] = 1
        <3>1. ShiftIn(r, b)[i] = (w[i] + Polynomial[i]) % 2
            BY <1>7, <2>3
        <3>2. Polynomial[i] = IF i \in {4, 11, 16} THEN 1 ELSE 0
            BY PolynomialBits
        <3>3. w[i] = 0 \/ w[i] = 1
            BY <1>6 DEF Bit
        <3>4. ShiftIn(r, b)[i] = 1 <=> ~(w[i] = 1 <=> i \in {4, 11, 16})
            BY <3>1, <3>2, <3>3
        <3>5. w[i] = 1 <=> e - i \in P
            BY <1>6
        <3> QED
            BY <1>5, <2>1, <2>2, <2>3, <3>4, <3>5
    <2>4. CASE r[1] # 1
        <3>1. ShiftIn(r, b)[i] = w[i]
            BY <1>7, <2>4
        <3>2. w[i] = 1 <=> e - i \in P
            BY <1>6
        <3> QED
            BY <1>5, <2>1, <2>4, <3>1, <3>2
    <2> QED
        BY <2>3, <2>4
<1>9. \A i \in 1 .. 16 : Entering(n, t) + 16 - i = e - i
    BY <1>1
<1> QED
    BY <1>8, <1>9 DEF Window

\* So do several.
LEMMA WindowMoves ==
    ASSUME NEW n \in Nat, NEW S, S \subseteq 16 .. n + 15, NEW g, Divisions(g, S, n),
           NEW bits \in Seq(Bit), NEW t \in Nat, t + Len(bits) <= n + 16,
           NEW r \in Register, Window(r, g, n, t),
           \A j \in 1 .. Len(bits) : bits[j] = 1 <=> Entering(n, t + j) \in S
    PROVE  Window(ShiftAll(r, bits), g, n, t + Len(bits))
<1> DEFINE m == Len(bits)
<1>1. m \in Nat /\ t + m <= n + 16 /\ \A j \in 1 .. m : bits[j] \in Bit
    OBVIOUS
<1>2. PICK h : Shifts(h, r, bits, m) /\ ShiftAll(r, bits) = h[m]
    BY ShiftAllSteps
<1>3. \A j \in 1 .. m : bits[j] = 1 <=> Entering(n, t + j) \in S
    OBVIOUS
<1> HIDE DEF m
<1> DEFINE A == {j \in 0 .. m : Window(h[j], g, n, t + j)}
<1>4. 0 \in A
    BY <1>1, <1>2 DEF Shifts
<1>5. ASSUME NEW j \in 1 .. m, j - 1 \in A
      PROVE  j \in A
    <2> DEFINE q == t + j
    <2>1. q \in 1 .. n + 16 /\ t + (j - 1) = q - 1 /\ j \in 0 .. m /\ j - 1 \in 0 .. m
        BY <1>1
    <2>2. h[j - 1] \in Register /\ Window(h[j - 1], g, n, q - 1)
        BY <1>2, <1>5, <2>1 DEF Shifts
    <2>3. bits[j] \in Bit /\ (bits[j] = 1 <=> Entering(n, q) \in S)
        BY <1>1, <1>3
    <2> HIDE DEF q
    <2>4. Window(ShiftIn(h[j - 1], bits[j]), g, n, q)
        BY <2>1, <2>2, <2>3, WindowShifts
    <2>5. h[j] = ShiftIn(h[j - 1], bits[j])
        BY <1>2 DEF Shifts
    <2> QED
        BY <2>1, <2>4, <2>5 DEF q
<1> HIDE DEF A
<1>6. m \in A
    <2>1. \A j \in 0 .. m : j \in A
        BY <1>1, <1>4, <1>5, BoundedInduction
    <2> QED
        BY <1>1, <2>1
<1> QED
    BY <1>2, <1>6 DEF A, m

\* The weights of the bits of a byte.
Weight == <<1, 2, 4, 8, 16, 32, 64, 128>>

LEMMA HalvesOfNumber ==
    ASSUME NEW v \in Nat, NEW n \in Nat, n >= 8, NEW s, Halves(s, v, n)
    PROVE  /\ \A k \in 0 .. 7 : s[k] % 2 = Digit(v, Weight[k + 1])
           /\ s[8] = v \div 256
<1>1. s[0] = v /\ \A k \in 1 .. 8 : s[k] = s[k - 1] \div 2
    <2>1. 1 .. 8 \subseteq 1 .. n
        OBVIOUS
    <2> QED
        BY <2>1, Zenon DEF Halves
<1>2. /\ (v \div 2) \div 2 = v \div 4 /\ (v \div 4) \div 2 = v \div 8
      /\ (v \div 8) \div 2 = v \div 16 /\ (v \div 16) \div 2 = v \div 32
      /\ (v \div 32) \div 2 = v \div 64 /\ (v \div 64) \div 2 = v \div 128
      /\ (v \div 128) \div 2 = v \div 256 /\ v \div 1 = v
    OBVIOUS
<1>3. s[1] = v \div 2 /\ s[2] = v \div 4 /\ s[3] = v \div 8
    BY <1>1, <1>2
<1>4. s[4] = v \div 16 /\ s[5] = v \div 32 /\ s[6] = v \div 64
    BY <1>1, <1>2, <1>3
<1>5. s[7] = v \div 128 /\ s[8] = v \div 256
    BY <1>1, <1>2, <1>4
<1>6. \A k \in 0 .. 7 : k \in {0, 1, 2, 3, 4, 5, 6, 7}
    OBVIOUS
<1>7. \A k \in 0 .. 7 : s[k] = v \div Weight[k + 1]
    BY <1>1, <1>2, <1>3, <1>4, <1>5, <1>6 DEF Weight
<1> QED
    BY <1>5, <1>7 DEF Digit

LEMMA IsSetHalves ==
    ASSUME NEW v \in Nat
    PROVE  \E s : Halves(s, v, 16) /\ \A k \in 0 .. 15 : IsSet(v, k) <=> s[k] % 2 = 1
<1>1. PICK n \in Nat : n = 16
    OBVIOUS
<1>2. PICK s : Halves(s, v, n) /\ BitsOf(v, n) = [i \in 1 .. n |-> s[n - i] % 2]
    BY BitsOfHalves
<1>3. ASSUME NEW k \in 0 .. 15
      PROVE  IsSet(v, k) <=> s[k] % 2 = 1
    <2>1. n - k \in 1 .. n /\ n - (n - k) = k
        BY <1>1
    <2>2. BitsOf(v, n)[n - k] = s[k] % 2
        BY <1>2, <2>1
    <2> QED
        BY <1>1, <2>2 DEF IsSet
<1> QED
    BY <1>1, <1>2, <1>3

\* A bit of a byte, by the definition and as it is shifted in.
LEMMA ByteIsSet ==
    ASSUME NEW b \in Octet, NEW k \in 0 .. 7
    PROVE  /\ IsSet(b, k) <=> Digit(b, Weight[k + 1]) = 1
           /\ IsSet(b, k) <=> ByteBits(b)[k + 1] = 1
<1>1. b \in Nat
    BY DEF Octet
<1>2. PICK s : Halves(s, b, 16) /\ \A j \in 0 .. 15 : IsSet(b, j) <=> s[j] % 2 = 1
    BY <1>1, IsSetHalves
<1>3. s[k] % 2 = Digit(b, Weight[k + 1])
    <2>1. PICK n \in Nat : n = 16
        OBVIOUS
    <2> QED
        BY <1>1, <1>2, <2>1, HalvesOfNumber
<1>4. k \in 0 .. 15
    OBVIOUS
<1>5. PICK n \in Nat : n = 8
    OBVIOUS
<1>6. PICK h : Halves(h, b, n) /\ BitsOf(b, n) = [i \in 1 .. n |-> h[n - i] % 2]
    BY <1>1, BitsOfHalves
<1>7. h[k] % 2 = Digit(b, Weight[k + 1])
    BY <1>1, <1>5, <1>6, HalvesOfNumber
<1>8. ByteBits(b)[k + 1] = h[k] % 2
    <2>1. k + 1 \in 1 .. n /\ n - (k + 1) + 1 = n - k /\ n - k \in 1 .. n /\ n - (n - k) = k
        BY <1>5
    <2>2. BitsOf(b, n) \in [1 .. n -> Bit]
        BY <1>1, BitsOfType
    <2>3. reflect(BitsOf(b, n))[k + 1] = BitsOf(b, n)[n - k]
        BY <2>1, <2>2, ReflectedType
    <2>4. BitsOf(b, n)[n - k] = h[k] % 2
        BY <1>6, <2>1
    <2> QED
        BY <1>5, <2>3, <2>4 DEF ByteBits
<1> QED
    BY <1>2, <1>3, <1>4, <1>7, <1>8

\* The exponents of a message are those of the bits it shifts in.
LEMMA MessageBits ==
    ASSUME NEW p \in Seq(Octet)
    PROVE  /\ MessagePolynomial(p) \subseteq 16 .. 8 * Len(p) + 15
           /\ \A i \in 1 .. Len(p), j \in 1 .. 8 :
                  ByteBits(p[i])[j] = 1 <=> Entering(8 * Len(p), 8 * (i - 1) + j) \in MessagePolynomial(p)
<1> DEFINE n == Len(p)
           At(y) == 8 * (n - y[1]) + 7 - y[2] + 16
<1>1. n \in Nat /\ \A i \in 1 .. n : p[i] \in Octet
    OBVIOUS
<1>2. BitsSet(p) \subseteq (1 .. n) \X (0 .. 7)
    BY DEF BitsSet
<1>3. \A i \in 1 .. n, k \in 0 .. 7 : IsSet(p[i], k) <=> <<i, k>> \in BitsSet(p)
    BY DEF BitsSet
<1>4. MessagePolynomial(p) = {At(y) : y \in BitsSet(p)}
    BY DEF MessagePolynomial
<1> HIDE DEF n
<1>5. \A y \in (1 .. n) \X (0 .. 7) : At(y) \in 16 .. 8 * n + 15
    <2> TAKE y \in (1 .. n) \X (0 .. 7)
    <2>1. PICK a \in 1 .. n, c \in 0 .. 7 : a = y[1] /\ c = y[2]
        OBVIOUS
    <2>2. 8 * (n - a) + 7 - c + 16 \in 16 .. 8 * n + 15
        BY <1>1
    <2> QED
        BY <2>1, <2>2
<1>6. MessagePolynomial(p) \subseteq 16 .. 8 * n + 15
    BY <1>2, <1>4, <1>5
<1>7. ASSUME NEW i \in 1 .. n, NEW j \in 1 .. 8
      PROVE  ByteBits(p[i])[j] = 1 <=> Entering(8 * n, 8 * (i - 1) + j) \in MessagePolynomial(p)
    <2> DEFINE k == j - 1
    <2>1. k \in 0 .. 7 /\ k + 1 = j
        OBVIOUS
    <2>2. Entering(8 * n, 8 * (i - 1) + j) = At(<<i, k>>)
        BY <1>1 DEF Entering
    <2>3. ByteBits(p[i])[j] = 1 <=> <<i, k>> \in BitsSet(p)
        <3>1. IsSet(p[i], k) <=> ByteBits(p[i])[k + 1] = 1
            BY <1>1, <2>1, ByteIsSet
        <3> QED
            BY <1>3, <2>1, <3>1
    <2>4. ASSUME NEW y \in BitsSet(p), At(y) = At(<<i, k>>)
          PROVE  y = <<i, k>>
        <3>1. y \in (1 .. n) \X (0 .. 7)
            BY <1>2
        <3>2. PICK a \in 1 .. n, c \in 0 .. 7 : y = <<a, c>>
            BY <3>1
        <3>3. 8 * (n - a) + 7 - c + 16 = 8 * (n - i) + 7 - k + 16
            BY <2>4, <3>2
        <3>4. a = i /\ c = k
            BY <1>1, <2>1, <3>3
        <3> QED
            BY <3>2, <3>4
    <2> QED
        BY <1>4, <2>2, <2>3, <2>4
<1> QED
    BY <1>6, <1>7 DEF n

\* The bits of the value of a register are its own.
LEMMA ValueIsSet ==
    ASSUME NEW r \in Register
    PROVE  \A k \in 0 .. 15 : IsSet(ValueOf(r), k) <=> r[16 - k] = 1
<1>1. r \in Seq(Bit) /\ Len(r) = 16 /\ \A i \in 1 .. 16 : r[i] \in Bit
    BY RegisterIsSeq
<1>2. PICK v : Doubles(v, r, 16) /\ ValueOf(r) = v[16]
    BY <1>1, ValueOfDoubles
<1>3. ValueOf(r) \in Nat
    BY ValueOfRegister DEF Word
<1>4. PICK s : Halves(s, ValueOf(r), 16) /\ \A k \in 0 .. 15 : IsSet(ValueOf(r), k) <=> s[k] % 2 = 1
    BY <1>3, IsSetHalves
<1>5. ASSUME NEW j \in 1 .. 16
      PROVE  v[j - 1] \in Int /\ v[j] \div 2 = v[j - 1] /\ v[j] % 2 = r[j]
    <2>1. v[j] = 2 * v[j - 1] + r[j] /\ v[j - 1] \in Int
        BY <1>2 DEF Doubles
    <2>2. r[j] = 0 \/ r[j] = 1
        BY <1>1 DEF Bit
    <2>3. \A x \in Int : \A b \in {0, 1} : (2 * x + b) \div 2 = x /\ (2 * x + b) % 2 = b
        OBVIOUS
    <2> QED
        BY <2>1, <2>2, <2>3
<1> DEFINE A == {k \in 0 .. 16 : s[k] = v[16 - k]}
<1>6. 0 \in A
    BY <1>2, <1>4 DEF Halves
<1>7. ASSUME NEW k \in 1 .. 16, k - 1 \in A
      PROVE  k \in A
    <2>1. 17 - k \in 1 .. 16 /\ 16 - (k - 1) = 17 - k /\ (17 - k) - 1 = 16 - k /\ k \in 0 .. 16
        OBVIOUS
    <2>2. s[k] = v[17 - k] \div 2
        BY <1>4, <1>7, <2>1 DEF Halves
    <2>3. v[17 - k] \div 2 = v[16 - k]
        BY <1>5, <2>1
    <2> QED
        BY <2>1, <2>2, <2>3
<1> HIDE DEF A
<1>8. \A k \in 0 .. 16 : k \in A
    BY <1>6, <1>7, BoundedInduction
<1> QED
    <2> TAKE k \in 0 .. 15
    <2>1. 16 - k \in 1 .. 16 /\ k \in 0 .. 16
        OBVIOUS
    <2>2. s[k] = v[16 - k]
        BY <1>8, <2>1 DEF A
    <2>3. s[k] % 2 = r[16 - k]
        BY <1>5, <2>1, <2>2
    <2> QED
        BY <1>4, <2>3

\* For any message of bytes, whatever its length, crcbitbybit leaves the remainder of the
\* message by the polynomial of the standard: the coefficient of x^15 in bit 0.
THEOREM CrcIsRemainder ==
    ASSUME NEW p \in Seq(Octet)
    PROVE  \A k \in 0 .. 15 :
               IsSet(crcbitbybit(p), k)
                   <=> 15 - k \in Remainder(MessagePolynomial(p), 8 * Len(p))
<1> DEFINE n == Len(p)
           N == 8 * n
           S == MessagePolynomial(p)
<1>1. /\ n \in Nat /\ N \in Nat /\ S \subseteq 16 .. N + 15
      /\ \A i \in 1 .. n : p[i] \in Octet
      /\ \A i \in 1 .. n, j \in 1 .. 8 : ByteBits(p[i])[j] = 1 <=> Entering(N, 8 * (i - 1) + j) \in S
    <2>1. n \in Nat /\ N \in Nat /\ \A i \in 1 .. n : p[i] \in Octet
        OBVIOUS
    <2> QED
        BY <2>1, MessageBits, Zenon
<1>2. PICK d : Divides(d, p, n) /\ Divided(p) = d[n]
    BY DividedSteps
<1> HIDE DEF n, S
<1>3. PICK g : Divisions(g, S, N) /\ Remainder(S, N) = g[N]
    <2>1. S \subseteq Int
        BY <1>1
    <2> QED
        BY <1>1, <2>1, RemainderSteps
<1> DEFINE A == {k \in 0 .. n : Window(d[k], g, N, 8 * k)}
<1>4. 0 \in A
    <2>1. d[0] = [i \in 1 .. 16 |-> 0] /\ Left(g, 0) = S
        BY <1>2, <1>3 DEF Divides, Zeros, CrcWidth, Left, Divisions
    <2>2. \A i \in 1 .. 16 : Entering(N, 0) + 16 - i \notin S
        BY <1>1 DEF Entering
    <2>3. 0 \in 0 .. n /\ 8 * 0 = 0
        BY <1>1
    <2> QED
        BY <2>1, <2>2, <2>3 DEF Window
<1>5. ASSUME NEW k \in 1 .. n, k - 1 \in A
      PROVE  k \in A
    <2> DEFINE bits == ByteBits(p[k])
               t == 8 * (k - 1)
    <2>1. bits \in Seq(Bit) /\ Len(bits) = 8
        BY <1>1, ByteBitsType
    <2>2. k \in 0 .. n /\ k - 1 \in 0 .. n /\ t \in Nat /\ t + 8 = 8 * k /\ t + 8 <= N + 16
        BY <1>1
    <2>3. d[k - 1] \in Register /\ Window(d[k - 1], g, N, t)
        BY <1>2, <1>5, <2>2 DEF Divides
    <2>4. \A j \in 1 .. 8 : bits[j] = 1 <=> Entering(N, t + j) \in S
        BY <1>1
    <2> HIDE DEF bits, t, N
    <2>5. Window(ShiftAll(d[k - 1], bits), g, N, t + Len(bits))
        BY <1>1, <1>3, <2>1, <2>2, <2>3, <2>4, WindowMoves
    <2>6. d[k] = ShiftAll(d[k - 1], bits)
        BY <1>2 DEF Divides, bits
    <2> QED
        BY <2>1, <2>2, <2>5, <2>6
<1> HIDE DEF A
<1>6. \A k \in 0 .. n : k \in A
    BY <1>1, <1>4, <1>5, BoundedInduction
<1>7. Window(Divided(p), g, N, N) /\ Divided(p) \in Register
    <2>1. n \in 0 .. n
        BY <1>1
    <2> QED
        BY <1>2, <1>6, <2>1, DividedType DEF A
<1> DEFINE bits == Zeros(CrcWidth)
           r == ShiftAll(Divided(p), bits)
<1> HIDE DEF N
<1>8. bits \in Seq(Bit) /\ Len(bits) = 16 /\ \A j \in 1 .. 16 : bits[j] = 0
    BY ZerosType, RegisterIsSeq DEF Zeros, CrcWidth
<1>9. Window(r, g, N, N + 16)
    <2>1. \A j \in 1 .. 16 : Entering(N, N + j) \notin S
        BY <1>1 DEF Entering
    <2>2. N + Len(bits) <= N + 16
        BY <1>1, <1>8
    <2> HIDE DEF bits
    <2>3. \A j \in 1 .. Len(bits) : bits[j] = 1 <=> Entering(N, N + j) \in S
        BY <1>8, <2>1
    <2>4. Window(ShiftAll(Divided(p), bits), g, N, N + Len(bits))
        BY <1>1, <1>3, <1>7, <1>8, <2>2, <2>3, WindowMoves
    <2> QED
        BY <1>8, <2>4
<1>10. r \in Register
    BY <1>7, <1>8, ShiftAllType
<1> HIDE DEF bits, r
<1>11. Left(g, N + 16) = Remainder(S, N)
    BY <1>1, <1>3 DEF Left
<1>12. ASSUME NEW k \in 0 .. 15
       PROVE  IsSet(crcbitbybit(p), k) <=> 15 - k \in Remainder(S, N)
    <2>1. PICK m \in Nat : m = 16
        OBVIOUS
    <2>2. reflect(r) \in Register /\ reflect(r)[16 - k] = r[k + 1]
        <3>1. r \in [1 .. m -> Bit] /\ m - k \in 1 .. m /\ (m - (m - k)) + 1 = k + 1
            BY <1>10, <2>1 DEF Register, CrcWidth
        <3>2. reflect(r) \in [1 .. m -> Bit] /\ reflect(r)[m - k] = r[k + 1]
            BY <3>1, ReflectedType
        <3> QED
            BY <2>1, <3>2 DEF Register, CrcWidth
    <2>3. crcbitbybit(p) = ValueOf(reflect(r))
        BY CrcIs DEF r, bits
    <2>4. IsSet(crcbitbybit(p), k) <=> r[k + 1] = 1
        BY <2>2, <2>3, ValueIsSet
    <2>5. k + 1 \in 1 .. 16 /\ Entering(N, N + 16) + 16 - (k + 1) = 15 - k
        BY <1>1 DEF Entering
    <2>6. r[k + 1] = 1 <=> 15 - k \in Left(g, N + 16)
        BY <1>9, <2>5 DEF Window
    <2> QED
        BY <1>11, <2>4, <2>6
<1> QED
    BY <1>12 DEF S, N, n

(***************************************************************************)
(* The checksum of SOS: a byte that goes in is eight steps of the division,*)
(* which the table has made before.                                        *)
(***************************************************************************)
\* The bits of a word are those of its bytes.
LEMMA WordIsSet ==
    ASSUME NEW w \in Word, NEW k \in 0 .. 7
    PROVE  /\ IsSet(w, k) <=> IsSet(Low(w), k)
           /\ IsSet(w, k + 8) <=> IsSet(High(w), k)
<1>1. w \in Nat /\ Low(w) \in Octet /\ High(w) \in Octet /\ w = Low(w) + 256 * High(w)
    BY WordBytes DEF Word
<1>2. PICK n \in Nat : n = 16
    OBVIOUS
<1>3. PICK s : Halves(s, w, n) /\ \A j \in 0 .. 15 : IsSet(w, j) <=> s[j] % 2 = 1
    BY <1>1, <1>2, IsSetHalves
<1>4. s[k] % 2 = Digit(w, Weight[k + 1]) /\ s[8] = High(w)
    BY <1>1, <1>2, <1>3, HalvesOfNumber DEF High
<1>5. Digit(w, Weight[k + 1]) = Digit(Low(w), Weight[k + 1])
    <2>1. ASSUME NEW h \in Nat, NEW l \in Nat, NEW m \in {1, 2, 4, 8, 16, 32, 64, 128}
          PROVE  ((l + 256 * h) \div m) % 2 = (l \div m) % 2
        <3>1. /\ ((l + 256 * h) \div 1) % 2 = (l \div 1) % 2
              /\ ((l + 256 * h) \div 2) % 2 = (l \div 2) % 2
              /\ ((l + 256 * h) \div 4) % 2 = (l \div 4) % 2
            OBVIOUS
        <3>2. /\ ((l + 256 * h) \div 8) % 2 = (l \div 8) % 2
              /\ ((l + 256 * h) \div 16) % 2 = (l \div 16) % 2
              /\ ((l + 256 * h) \div 32) % 2 = (l \div 32) % 2
            OBVIOUS
        <3>3. /\ ((l + 256 * h) \div 64) % 2 = (l \div 64) % 2
              /\ ((l + 256 * h) \div 128) % 2 = (l \div 128) % 2
            OBVIOUS
        <3> QED
            BY <3>1, <3>2, <3>3
    <2>2. Weight[k + 1] \in {1, 2, 4, 8, 16, 32, 64, 128}
        BY DEF Weight
    <2>3. Low(w) \in Nat /\ High(w) \in Nat
        BY <1>1 DEF Octet
    <2>4. PICK h \in Nat, l \in Nat, m \in {1, 2, 4, 8, 16, 32, 64, 128} :
              h = High(w) /\ l = Low(w) /\ m = Weight[k + 1]
        BY <2>2, <2>3
    <2>5. ((l + 256 * h) \div m) % 2 = (l \div m) % 2
        BY <2>1
    <2>6. w = l + 256 * h
        BY <1>1, <2>4
    <2> QED
        BY <2>4, <2>5, <2>6, Zenon DEF Digit
<1>6. IsSet(w, k) <=> IsSet(Low(w), k)
    <2>1. IsSet(Low(w), k) <=> Digit(Low(w), Weight[k + 1]) = 1
        BY <1>1, ByteIsSet
    <2>2. IsSet(w, k) <=> s[k] % 2 = 1
        BY <1>3
    <2> QED
        BY <1>4, <1>5, <2>1, <2>2
<1> DEFINE t == [j \in 0 .. 8 |-> s[j + 8]]
<1>7. Halves(t, High(w), 8)
    <2>1. \A j \in 0 .. 16 : s[j] \in Nat
        BY <1>2, <1>3 DEF Halves
    <2>2. ASSUME NEW j \in 1 .. 8
          PROVE  t[j] = t[j - 1] \div 2
        <3>1. j + 8 \in 1 .. n /\ (j + 8) - 1 = (j - 1) + 8 /\ j - 1 \in 0 .. 8 /\ j \in 0 .. 8
            BY <1>2
        <3>2. s[j + 8] = s[(j + 8) - 1] \div 2
            BY <1>3, <3>1 DEF Halves
        <3> QED
            BY <3>1, <3>2
    <2>3. t \in [0 .. 8 -> Nat] /\ t[0] = High(w)
        BY <1>4, <2>1
    <2> HIDE DEF t
    <2> QED
        BY <2>2, <2>3 DEF Halves
<1>8. s[k + 8] % 2 = Digit(High(w), Weight[k + 1])
    <2>1. PICK m \in Nat : m = 8
        OBVIOUS
    <2>2. High(w) \in Nat
        BY <1>1 DEF Octet
    <2>3. t[k] = s[k + 8]
        OBVIOUS
    <2> HIDE DEF t
    <2>4. t[k] % 2 = Digit(High(w), Weight[k + 1])
        BY <1>7, <2>1, <2>2, HalvesOfNumber
    <2> QED
        BY <2>3, <2>4
<1>9. IsSet(w, k + 8) <=> IsSet(High(w), k)
    <2>1. IsSet(High(w), k) <=> Digit(High(w), Weight[k + 1]) = 1
        BY <1>1, ByteIsSet
    <2>2. IsSet(w, k + 8) <=> s[k + 8] % 2 = 1
        BY <1>3
    <2> QED
        BY <1>8, <2>1, <2>2
<1> QED
    BY <1>6, <1>9

\* And of an exclusive or those that are set in one byte only.
LEMMA XorIsSet ==
    ASSUME NEW a \in Octet, NEW b \in Octet, NEW k \in 0 .. 7
    PROVE  IsSet(XorBytes(a, b), k) <=> ~(IsSet(a, k) <=> IsSet(b, k))
<1> DEFINE w == Weight[k + 1]
<1>1. w \in {1, 2, 4, 8, 16, 32, 64, 128}
    BY DEF Weight
<1>2. /\ IsSet(a, k) <=> Digit(a, w) = 1
      /\ IsSet(b, k) <=> Digit(b, w) = 1
    BY ByteIsSet
<1> HIDE DEF w
<1>3. XorBytes(a, b) \in Octet /\ Digit(XorBytes(a, b), w) = (Digit(a, w) + Digit(b, w)) % 2
    BY <1>1, XorDigits
<1>4. IsSet(XorBytes(a, b), k) <=> Digit(XorBytes(a, b), w) = 1
    BY <1>3, ByteIsSet DEF w
<1>5. Digit(a, w) \in 0 .. 1 /\ Digit(b, w) \in 0 .. 1
    <2>1. \A x \in Int : x % 2 \in 0 .. 1
        OBVIOUS
    <2>2. a \div w \in Int /\ b \div w \in Int
        BY <1>1 DEF Octet
    <2> QED
        BY <2>1, <2>2 DEF Digit
<1> QED
    BY <1>2, <1>3, <1>4, <1>5

\* What a byte does to the bits of the checksum.
LEMMA CrcByteIsSet ==
    ASSUME NEW v \in Word, NEW b \in Octet
    PROVE  /\ \A k \in 0 .. 7 : IsSet(Index(v, b), k) <=> ~(IsSet(v, k + 8) <=> IsSet(b, k))
           /\ \A k \in 0 .. 7 : IsSet(crcByte(v, b), k) <=> IsSet(Entry(Index(v, b)), k)
           /\ \A k \in 0 .. 7 : IsSet(crcByte(v, b), k + 8)
                                    <=> ~(IsSet(Entry(Index(v, b)), k + 8) <=> IsSet(v, k))
<1> DEFINE e == Entry(Index(v, b))
           c == crcByte(v, b)
<1>1. /\ Index(v, b) \in Octet /\ c \in Word /\ Low(c) = Low(e)
      /\ High(c) = XorBytes(Low(v), High(e))
    BY CrcByteType
<1>2. e \in Word
    BY <1>1, EntriesDiffer
<1>3. Low(v) \in Octet /\ High(v) \in Octet /\ Low(e) \in Octet /\ High(e) \in Octet
    BY <1>2, WordBytes
<1> HIDE DEF e, c
<1>4. ASSUME NEW k \in 0 .. 7
      PROVE  IsSet(Index(v, b), k) <=> ~(IsSet(v, k + 8) <=> IsSet(b, k))
    BY <1>3, WordIsSet, XorIsSet DEF Index
<1>5. ASSUME NEW k \in 0 .. 7
      PROVE  IsSet(c, k) <=> IsSet(e, k)
    BY <1>1, <1>2, WordIsSet
<1>6. ASSUME NEW k \in 0 .. 7
      PROVE  IsSet(c, k + 8) <=> ~(IsSet(e, k + 8) <=> IsSet(v, k))
    <2>1. IsSet(c, k + 8) <=> IsSet(XorBytes(Low(v), High(e)), k)
        BY <1>1, WordIsSet
    <2>2. IsSet(XorBytes(Low(v), High(e)), k) <=> ~(IsSet(Low(v), k) <=> IsSet(High(e), k))
        BY <1>3, XorIsSet
    <2>3. (IsSet(v, k) <=> IsSet(Low(v), k)) /\ (IsSet(e, k + 8) <=> IsSet(High(e), k))
        BY <1>2, WordIsSet
    <2> QED
        BY <2>1, <2>2, <2>3
<1> QED
    BY <1>4, <1>5, <1>6 DEF e, c

\* The exponents of a message, high bits first.
LEMMA SosBits ==
    ASSUME NEW p \in Seq(Octet)
    PROVE  /\ SosPolynomial(p) \subseteq 16 .. 8 * Len(p) + 15
           /\ \A i \in 1 .. Len(p), k \in 0 .. 7 :
                  8 * (Len(p) - i) + k + 16 \in SosPolynomial(p) <=> IsSet(p[i], k)
<1> DEFINE n == Len(p)
           At(y) == 8 * (n - y[1]) + y[2] + 16
<1>1. n \in Nat
    OBVIOUS
<1>2. BitsSet(p) \subseteq (1 .. n) \X (0 .. 7)
    BY DEF BitsSet
<1>3. \A i \in 1 .. n, k \in 0 .. 7 : IsSet(p[i], k) <=> <<i, k>> \in BitsSet(p)
    BY DEF BitsSet
<1>4. SosPolynomial(p) = {At(y) : y \in BitsSet(p)}
    BY DEF SosPolynomial
<1> HIDE DEF n
<1>5. \A y \in (1 .. n) \X (0 .. 7) : At(y) \in 16 .. 8 * n + 15
    <2> TAKE y \in (1 .. n) \X (0 .. 7)
    <2>1. PICK a \in 1 .. n, c \in 0 .. 7 : a = y[1] /\ c = y[2]
        OBVIOUS
    <2>2. 8 * (n - a) + c + 16 \in 16 .. 8 * n + 15
        BY <1>1
    <2> QED
        BY <2>1, <2>2
<1>6. SosPolynomial(p) \subseteq 16 .. 8 * n + 15
    BY <1>2, <1>4, <1>5
<1>7. ASSUME NEW i \in 1 .. n, NEW k \in 0 .. 7
      PROVE  8 * (n - i) + k + 16 \in SosPolynomial(p) <=> IsSet(p[i], k)
    <2>1. ASSUME NEW y \in BitsSet(p), At(y) = At(<<i, k>>)
          PROVE  y = <<i, k>>
        <3>1. y \in (1 .. n) \X (0 .. 7)
            BY <1>2
        <3>2. PICK a \in 1 .. n, c \in 0 .. 7 : y = <<a, c>>
            BY <3>1
        <3>3. 8 * (n - a) + c + 16 = 8 * (n - i) + k + 16
            BY <2>1, <3>2
        <3>4. a = i /\ c = k
            BY <1>1, <3>3
        <3> QED
            BY <3>2, <3>4
    <2> QED
        BY <1>3, <1>4, <2>1
<1> QED
    BY <1>6, <1>7 DEF n

\* L is B, moved up by d, and something else.
Follows(L, B, d, W) == \A x \in Int : x \in L <=> ~(x - d \in B <=> x \in W)

\* The division of what follows leaves what follows, and nothing of the rest.
LEMMA ReducedFollows ==
    ASSUME NEW L, NEW B, NEW W, NEW d \in Int, NEW e \in Int, L \subseteq Int, B \subseteq Int,
           Follows(L, B, d, W), d + e \notin W
    PROVE  Follows(Reduced(L, d + e), Reduced(B, e), d, W)
<1>1. d + e \in Int /\ (d + e) - d = e
    OBVIOUS
<1>2. d + e \in L <=> e \in B
    BY <1>1 DEF Follows
<1>3. \A x : x \in Reduced(L, d + e) <=> ~(x \in L <=> d + e \in L /\ x \in Divisor(d + e))
    BY <1>1, ReducedElements
<1>4. \A x : x \in Reduced(B, e) <=> ~(x \in B <=> e \in B /\ x \in Divisor(e))
    BY ReducedElements
<1>5. ASSUME NEW x \in Int
      PROVE  x \in Reduced(L, d + e) <=> ~(x - d \in Reduced(B, e) <=> x \in W)
    <2>1. x \in Divisor(d + e) <=> x - d \in Divisor(e)
        BY DEF Divisor
    <2>2. x \in L <=> ~(x - d \in B <=> x \in W)
        BY DEF Follows
    <2>3. x \in Reduced(L, d + e) <=> ~(x \in L <=> d + e \in L /\ x \in Divisor(d + e))
        BY <1>3
    <2>4. x - d \in Reduced(B, e) <=> ~(x - d \in B <=> e \in B /\ x - d \in Divisor(e))
        BY <1>4
    <2> QED
        BY <1>2, <2>1, <2>2, <2>3, <2>4
<1> QED
    BY <1>5 DEF Follows

\* Eight steps of the division of a message are those of the division of one byte.
LEMMA ByteFollows ==
    ASSUME NEW n \in Nat, NEW S, NEW g, Divisions(g, S, 8 * n), NEW i \in 1 .. n,
           NEW T, NEW h, Divisions(h, T, 8), NEW W, Follows(g[8 * (i - 1)], h[0], 8 * (n - i), W),
           \A e \in 16 .. 23 : 8 * (n - i) + e \notin W
    PROVE  Follows(g[8 * i], h[8], 8 * (n - i), W)
<1> DEFINE d == 8 * (n - i)
           j == 8 * (i - 1)
           A == {k \in 0 .. 8 : Follows(g[j + k], h[k], d, W)}
<1>1. d \in Int /\ j \in Nat /\ j + 8 = 8 * i /\ j + 8 <= 8 * n /\ 8 * n = j + 8 + d /\ j + 0 = j
    OBVIOUS
<1>2. ASSUME NEW k \in 1 .. 8, k - 1 \in A
      PROVE  k \in A
    <2> DEFINE q == j + k
               e == 24 - k
    <2>1. q \in 1 .. 8 * n /\ q - 1 = j + (k - 1) /\ 8 * n + 16 - q = d + e /\ q - 1 \in 0 .. 8 * n
        BY <1>1
    <2>2. e \in 16 .. 23 /\ 8 + 16 - k = e /\ k - 1 \in 0 .. 8 /\ k \in 0 .. 8
        OBVIOUS
    <2>3. g[q] = Reduced(g[q - 1], d + e) /\ g[q - 1] \subseteq Int
        <3>1. g[q] = Reduced(g[q - 1], 8 * n + 16 - q)
            BY <2>1, Zenon DEF Divisions
        <3>2. g[q - 1] \subseteq Int
            BY <2>1 DEF Divisions
        <3> QED
            BY <2>1, <3>1, <3>2, Zenon
    <2>4. h[k] = Reduced(h[k - 1], e) /\ h[k - 1] \subseteq Int
        <3>1. h[k] = Reduced(h[k - 1], 8 + 16 - k)
            BY Zenon DEF Divisions
        <3>2. h[k - 1] \subseteq Int
            BY <2>2 DEF Divisions
        <3> QED
            BY <2>2, <3>1, <3>2, Zenon
    <2>5. Follows(g[q - 1], h[k - 1], d, W)
        BY <1>2, <2>1
    <2>6. d + e \notin W /\ e \in Int
        BY <2>2
    <2> HIDE DEF q, e, d
    <2>7. Follows(Reduced(g[q - 1], d + e), Reduced(h[k - 1], e), d, W)
        BY <1>1, <2>3, <2>4, <2>5, <2>6, ReducedFollows
    <2>8. Follows(g[q], h[k], d, W)
        BY <2>3, <2>4, <2>7, Zenon
    <2> QED
        BY <2>2, <2>8 DEF q
<1>3. 0 \in A
    BY <1>1
<1> HIDE DEF A
<1>4. 8 \in A
    <2>1. PICK m \in Nat : m = 8
        OBVIOUS
    <2>2. \A k \in 0 .. m : k \in A
        BY <1>2, <1>3, <2>1, BoundedInduction
    <2> QED
        BY <2>1, <2>2
<1> QED
    BY <1>1, <1>4 DEF A

\* The table has the remainders of all bytes.
LEMMA EntryDivided ==
    ASSUME NEW x \in Octet
    PROVE  \E T, h : /\ Divisions(h, T, 8)
                     /\ \A y \in Int : y \in h[0] <=> y \in 16 .. 23 /\ IsSet(x, y - 16)
                     /\ \A y \in Int : y \in h[8] <=> y \in 0 .. 15 /\ IsSet(Entry(x), y)
<1> DEFINE T == SosPolynomial(<<x>>)
<1>1. <<x>> \in Seq(Octet) /\ Len(<<x>>) = 1 /\ <<x>>[1] = x
    OBVIOUS
<1>2. PICK p : p = <<x>>
    OBVIOUS
<1>3. /\ T \subseteq 16 .. 8 * 1 + 15
      /\ \A k \in 0 .. 7 : 8 * (1 - 1) + k + 16 \in T <=> IsSet(x, k)
    <2>1. p \in Seq(Octet) /\ Len(p) = 1 /\ p[1] = x
        BY <1>1, <1>2
    <2>2. /\ SosPolynomial(p) \subseteq 16 .. 8 * Len(p) + 15
          /\ \A i \in 1 .. Len(p), k \in 0 .. 7 :
                 8 * (Len(p) - i) + k + 16 \in SosPolynomial(p) <=> IsSet(p[i], k)
        BY <2>1, SosBits
    <2>3. 1 \in 1 .. 1
        OBVIOUS
    <2> QED
        BY <1>2, <2>1, <2>2, <2>3
<1>4. x + 1 \in 1 .. 256 /\ (x + 1) - 1 = x
    BY DEF Octet
<1>5. Remainder(T, 8) = {k \in 0 .. 15 : IsSet(Entry(x), k)}
    <2>1. Remainder(SosPolynomial(<<(x + 1) - 1>>), 8) = {k \in 0 .. 15 : IsSet(crcTable[x + 1], k)}
        BY <1>4, EntriesAssumption
    <2> QED
        BY <1>4, <2>1 DEF Entry
<1> HIDE DEF T
<1>6. PICK m \in Nat : m = 8
    OBVIOUS
<1>7. PICK h : Divisions(h, T, m) /\ Remainder(T, m) = h[m]
    <2>1. T \subseteq Int
        BY <1>3
    <2> QED
        BY <2>1, RemainderSteps
<1>8. ASSUME NEW y \in Int
      PROVE  y \in h[0] <=> y \in 16 .. 23 /\ IsSet(x, y - 16)
    <2>1. h[0] = T
        BY <1>7 DEF Divisions
    <2>2. CASE y \in 16 .. 23
        <3>1. y - 16 \in 0 .. 7 /\ 8 * (1 - 1) + (y - 16) + 16 = y
            BY <2>2
        <3> QED
            BY <1>3, <2>1, <2>2, <3>1
    <2>3. CASE y \notin 16 .. 23
        BY <1>3, <2>1, <2>3
    <2> QED
        BY <2>2, <2>3
<1>9. \A y \in Int : y \in h[8] <=> y \in 0 .. 15 /\ IsSet(Entry(x), y)
    BY <1>5, <1>6, <1>7
<1> QED
    BY <1>6, <1>7, <1>8, <1>9

\* The checksum c is to be added, from exponent d on, to what the division has left of S to
\* make what it has not touched.
Behind(c, P, S, d) ==
    \A x \in Int : x <= d + 15 =>
        (x \in P <=> ~(x \in S <=> x - d \in 0 .. 15 /\ IsSet(c, x - d)))

LEMMA BehindNextByte ==
    ASSUME NEW n \in Nat, NEW S, NEW g, Divisions(g, S, 8 * n), NEW i \in 1 .. n,
           NEW c \in Word, Behind(c, g[8 * (i - 1)], S, 8 * (n - i) + 8), NEW b \in Octet,
           \A k \in 0 .. 7 : 8 * (n - i) + k + 16 \in S <=> IsSet(b, k)
    PROVE  Behind(crcByte(c, b), g[8 * i], S, 8 * (n - i))
<1> DEFINE d == 8 * (n - i)
           P == g[8 * (i - 1)]
           I == Index(c, b)
           E == Entry(I)
<1>1. d \in Int
    OBVIOUS
<1>2. I \in Octet
    BY CrcByteType
<1>3. PICK T, h : /\ Divisions(h, T, 8)
                  /\ \A y \in Int : y \in h[0] <=> y \in 16 .. 23 /\ IsSet(I, y - 16)
                  /\ \A y \in Int : y \in h[8] <=> y \in 0 .. 15 /\ IsSet(E, y)
    BY <1>2, EntryDivided
<1> DEFINE W == {x \in Int : ~(x \in P <=> x - d \in h[0])}
<1>4. Follows(P, h[0], d, W)
    BY DEF Follows
<1>5. ASSUME NEW x \in Int, x <= d + 23
      PROVE  x \in P <=> ~(x \in S <=> x - (d + 8) \in 0 .. 15 /\ IsSet(c, x - (d + 8)))
    <2>1. x <= (d + 8) + 15
        BY <1>1, <1>5
    <2> QED
        BY <2>1 DEF Behind
<1>6. ASSUME NEW e \in 16 .. 23
      PROVE  d + e \notin W
    <2> DEFINE k == e - 16
    <2>1. /\ k \in 0 .. 7 /\ e = k + 16 /\ d + e = d + k + 16 /\ d + e \in Int /\ d + e <= d + 23
          /\ (d + e) - (d + 8) = k + 8 /\ (d + e) - d = e /\ k + 8 \in 0 .. 15 /\ e \in Int
        BY <1>1
    <2>2. d + e \in P <=> ~(d + e \in S <=> IsSet(c, k + 8))
        BY <1>5, <2>1
    <2>3. d + e \in S <=> IsSet(b, k)
        BY <2>1
    <2>4. IsSet(I, k) <=> ~(IsSet(c, k + 8) <=> IsSet(b, k))
        BY <2>1, CrcByteIsSet
    <2>5. e \in h[0] <=> IsSet(I, k)
        BY <1>3, <2>1
    <2> QED
        BY <2>1, <2>2, <2>3, <2>4, <2>5
<1>7. Follows(g[8 * i], h[8], d, W)
    <2> HIDE DEF W
    <2> QED
        BY <1>3, <1>4, <1>6, ByteFollows
<1>8. ASSUME NEW x \in Int, x <= d + 15
      PROVE  x \in g[8 * i] <=> ~(x \in S <=> x - d \in 0 .. 15 /\ IsSet(crcByte(c, b), x - d))
    <2>1. x \in g[8 * i] <=> ~(x - d \in h[8] <=> x \in W)
        BY <1>7 DEF Follows
    <2>2. x - d \in Int /\ x - d \notin 16 .. 23 /\ x <= d + 23
        BY <1>1, <1>8
    <2>3. x \in W <=> x \in P
        BY <1>3, <2>2
    <2> HIDE DEF W
    <2>4. x \in P <=> ~(x \in S <=> x - (d + 8) \in 0 .. 15 /\ IsSet(c, x - (d + 8)))
        BY <1>5, <2>2
    <2>5. x - d \in h[8] <=> x - d \in 0 .. 15 /\ IsSet(E, x - d)
        BY <1>3, <2>2
    <2> HIDE DEF P, E, I, d
    <2>6. CASE x - d \in 8 .. 15
        <3> DEFINE k == (x - d) - 8
        <3>1. k \in 0 .. 7 /\ x - d = k + 8 /\ x - (d + 8) = k /\ k \in 0 .. 15 /\ x - d \in 0 .. 15
            BY <1>1, <2>6
        <3> HIDE DEF k
        <3>2. IsSet(crcByte(c, b), k + 8) <=> ~(IsSet(E, k + 8) <=> IsSet(c, k))
            BY <3>1, CrcByteIsSet DEF E, I
        <3> QED
            BY <2>1, <2>3, <2>4, <2>5, <3>1, <3>2
    <2>7. CASE x - d \in 0 .. 7
        <3>1. x - (d + 8) \notin 0 .. 15 /\ x - d \in 0 .. 15
            BY <1>1, <2>7
        <3>2. IsSet(crcByte(c, b), x - d) <=> IsSet(E, x - d)
            BY <2>7, CrcByteIsSet DEF E, I
        <3> QED
            BY <2>1, <2>3, <2>4, <2>5, <3>1, <3>2
    <2>8. CASE x - d \notin 0 .. 15
        <3>1. x - (d + 8) \notin 0 .. 15
            BY <1>1, <1>8, <2>8
        <3> QED
            BY <2>1, <2>3, <2>4, <2>5, <2>8, <3>1
    <2> QED
        BY <2>2, <2>6, <2>7, <2>8
<1> QED
    BY <1>8 DEF Behind

\* For any message of bytes, whatever its length, crc8 leaves the remainder of the message
\* by the same polynomial, the coefficient of x^15 in bit 15.
THEOREM Crc8IsRemainder ==
    ASSUME NEW p \in Seq(Octet)
    PROVE  \A k \in 0 .. 15 :
               IsSet(crc8(p), k) <=> k \in Remainder(SosPolynomial(p), 8 * Len(p))
<1> DEFINE n == Len(p)
           N == 8 * n
           S == SosPolynomial(p)
<1>1. /\ n \in Nat /\ N \in Nat /\ S \subseteq 16 .. N + 15 /\ \A i \in 1 .. n : p[i] \in Octet
      /\ \A i \in 1 .. n, k \in 0 .. 7 : 8 * (n - i) + k + 16 \in S <=> IsSet(p[i], k)
    <2>1. n \in Nat /\ N \in Nat /\ \A i \in 1 .. n : p[i] \in Octet
        OBVIOUS
    <2> QED
        BY <2>1, SosBits, Zenon
<1>2. PICK c : Sums(c, p, n) /\ crc8(p) = c[n]
    BY Crc8Steps
<1> HIDE DEF n, S
<1>3. PICK g : Divisions(g, S, N) /\ Remainder(S, N) = g[N]
    <2>1. S \subseteq Int
        BY <1>1
    <2> QED
        BY <1>1, <2>1, RemainderSteps
<1> DEFINE A == {i \in 0 .. n : Behind(c[i], g[8 * i], S, 8 * (n - i))}
<1>4. 0 \in A
    <2>1. \A k \in 0 .. 15 : ~IsSet(0, k)
        <3>1. PICK s : Halves(s, 0, 16) /\ \A k \in 0 .. 15 : IsSet(0, k) <=> s[k] % 2 = 1
            BY IsSetHalves
        <3> DEFINE Z == {k \in 0 .. 16 : s[k] = 0}
        <3>2. 0 \in Z
            BY <3>1 DEF Halves
        <3>3. ASSUME NEW k \in 1 .. 16, k - 1 \in Z
              PROVE  k \in Z
            <4>1. s[k] = s[k - 1] \div 2 /\ s[k - 1] = 0 /\ k \in 0 .. 16
                BY <3>1, <3>3 DEF Halves
            <4> QED
                BY <4>1
        <3> HIDE DEF Z
        <3>4. PICK m \in Nat : m = 16
            OBVIOUS
        <3>5. \A k \in 0 .. m : k \in Z
            BY <3>2, <3>3, <3>4, BoundedInduction
        <3>6. ASSUME NEW k \in 0 .. 15
              PROVE  s[k] = 0
            <4>1. k \in Z
                BY <3>4, <3>5
            <4> QED
                BY <4>1 DEF Z
        <3> QED
            BY <3>1, <3>6
    <2>2. c[0] = 0 /\ g[8 * 0] = S
        BY <1>2, <1>3 DEF Sums, Divisions
    <2>3. Behind(c[0], g[8 * 0], S, 8 * (n - 0))
        BY <2>1, <2>2 DEF Behind
    <2> QED
        BY <1>1, <2>3
<1>5. ASSUME NEW i \in 1 .. n, i - 1 \in A
      PROVE  i \in A
    <2>1. i \in 0 .. n /\ i - 1 \in 0 .. n /\ 8 * (n - (i - 1)) = 8 * (n - i) + 8
        BY <1>1
    <2>2. Behind(c[i - 1], g[8 * (i - 1)], S, 8 * (n - i) + 8)
        BY <1>5, <2>1
    <2>3. c[i - 1] \in Word /\ p[i] \in Octet /\ c[i] = crcByte(c[i - 1], p[i])
        BY <1>1, <1>2, <2>1 DEF Sums
    <2>4. \A k \in 0 .. 7 : 8 * (n - i) + k + 16 \in S <=> IsSet(p[i], k)
        BY <1>1
    <2>5. Behind(crcByte(c[i - 1], p[i]), g[8 * i], S, 8 * (n - i))
        BY <1>1, <1>3, <2>2, <2>3, <2>4, BehindNextByte
    <2> QED
        BY <2>1, <2>3, <2>5
<1> HIDE DEF A
<1>6. Behind(c[n], g[N], S, 0)
    <2>1. \A i \in 0 .. n : i \in A
        BY <1>1, <1>4, <1>5, BoundedInduction
    <2>2. n \in 0 .. n /\ 8 * (n - n) = 0
        BY <1>1
    <2> QED
        BY <2>1, <2>2 DEF A
<1>7. ASSUME NEW k \in 0 .. 15
      PROVE  IsSet(crc8(p), k) <=> k \in Remainder(S, N)
    <2>1. k \in Int /\ k <= 0 + 15 /\ k - 0 = k /\ k \notin S
        BY <1>1
    <2>2. k \in g[N] <=> ~(k \in S <=> k - 0 \in 0 .. 15 /\ IsSet(c[n], k - 0))
        BY <1>6, <2>1 DEF Behind
    <2> QED
        BY <1>2, <1>3, <2>1, <2>2
<1> QED
    BY <1>7 DEF S, N, n

\* The checksum of the builder's frames, and of their beginnings, is the one of the standard,
\* for every accepted call.
THEOREM FrameCrcIsDefined == Spec => []MatchesDefinition
<1>1. ASSUME CallsInv, IsFrame, NEW n \in 0 .. Len(Psdu) - 2, NEW p, p = SubSeq(Psdu, 1, n)
      PROVE  \A k \in 0 .. 15 :
                 IsSet(crcbitbybit(p), k) <=> 15 - k \in Remainder(MessagePolynomial(p), 8 * n)
    <2>1. PICK m, f : m = CallMpdu /\ f = FCS(m)
        OBVIOUS
    <2>2. m \in Seq(Octet) /\ Psdu = m \o f
        BY <1>1, <2>1, PsduIs, Zenon
    <2>3. f \in Seq(Octet)
        BY <2>1, <2>2, FcsType, Zenon
    <2>4. Psdu \in Seq(Octet)
        BY <2>2, <2>3, Together, Zenon
    <2>5. PICK s : s = Psdu
        OBVIOUS
    <2>6. s \in Seq(Octet) /\ n \in Nat /\ n <= Len(s)
        BY <1>1, <2>4, <2>5
    <2>7. p \in Seq(Octet) /\ Len(p) = n
        BY <1>1, <2>5, <2>6
    <2> QED
        BY <2>7, CrcIsRemainder, Zenon
<1>2. CallsInv => MatchesDefinition
    BY <1>1, Zenon DEF MatchesDefinition
<1> QED
    BY <1>2, CallsStay, PTL

\* And that of the packets of SOS, as sent and as received, whichever bits were hit.
THEOREM SosCrcIsDefined == Spec => []SosCrcIsRemainder
<1>1. ASSUME CallsInv, IsSos
      PROVE  Received \in Seq(Octet)
    <2>1. Sent = SosMessage
        BY <1>1 DEF Sent, IsSos
    <2>2. Sent \in Seq(Octet)
        BY <1>1, <2>1, SosMessageIs, Zenon
    <2> QED
        BY <2>2, ReceivedIs, Zenon
<1>2. CallsInv => SosCrcIsRemainder
    BY <1>1, Crc8IsRemainder, Zenon DEF SosCrcIsRemainder
<1> QED
    BY <1>2, CallsStay, PTL
=============================================================================
