--------------------------- MODULE SequenceLemmas ---------------------------
(***************************************************************************)
(* What the proofs need to know of sequences and of recursive functions.   *)
(***************************************************************************)
EXTENDS Integers, Sequences, WellFoundedInduction, TLAPS

\* A function on 1 .. n is a sequence.
LEMMA FunctionIsSeq ==
    ASSUME NEW S, NEW n \in Nat, NEW f \in [1 .. n -> S]
    PROVE  f \in Seq(S) /\ Len(f) = n /\ DOMAIN f = 1 .. n
OBVIOUS

LEMMA SeqIsFunction ==
    ASSUME NEW S, NEW s \in Seq(S)
    PROVE  s \in [1 .. Len(s) -> S]
OBVIOUS

\* Appending to the second of two sequences appends to both.
LEMMA AppendBehind ==
    ASSUME NEW S, NEW a \in Seq(S), NEW b \in Seq(S), NEW m \in S
    PROVE  a \o Append(b, m) = Append(a \o b, m)
OBVIOUS

\* And appending to the last of three, to all three.
LEMMA AppendLast ==
    ASSUME NEW S, NEW a \in Seq(S), NEW b \in Seq(S), NEW c \in Seq(S), NEW m \in S
    PROVE  a \o (b \o Append(c, m)) = Append(a \o (b \o c), m)
<1> DEFINE d == b \o c
<1>1. d \in Seq(S)
    OBVIOUS
<1>2. b \o Append(c, m) = Append(d, m)
    BY AppendBehind
<1> HIDE DEF d
<1>3. a \o Append(d, m) = Append(a \o d, m)
    BY <1>1, AppendBehind
<1>4. a \o (b \o Append(c, m)) = Append(a \o d, m)
    BY <1>2, <1>3, Zenon
<1> QED
    BY <1>4 DEF d

\* What was appended is the last element.
LEMMA LastOfAppend ==
    ASSUME NEW S, NEW a \in Seq(S), NEW m \in S
    PROVE  LET b == Append(a, m) IN b # <<>> /\ b[Len(b)] = m
<1>1. Len(Append(a, m)) = Len(a) + 1 /\ Append(a, m)[Len(a) + 1] = m
    OBVIOUS
<1> QED
    BY <1>1

\* Sequences put together.
LEMMA Together ==
    ASSUME NEW S, NEW a \in Seq(S), NEW b \in Seq(S)
    PROVE  a \o b \in Seq(S) /\ Len(a \o b) = Len(a) + Len(b)
OBVIOUS

\* A sequence of fewer values is one of more.
LEMMA Wider ==
    ASSUME NEW S, NEW T, S \subseteq T, NEW a \in Seq(S)
    PROVE  a \in Seq(T)
OBVIOUS

\* The order of putting together does not matter.
LEMMA Associative ==
    ASSUME NEW S, NEW a \in Seq(S), NEW b \in Seq(S), NEW c \in Seq(S)
    PROVE  a \o b \o c = a \o (b \o c)
OBVIOUS

\* The first of two sequences comes first.
LEMMA FirstOfTwo ==
    ASSUME NEW S, NEW a \in Seq(S), NEW b \in Seq(S), NEW k \in 1 .. Len(a)
    PROVE  (a \o b)[k] = a[k]
OBVIOUS

\* And the second behind it.
LEMMA SecondOfTwo ==
    ASSUME NEW S, NEW a \in Seq(S), NEW b \in Seq(S)
    PROVE  \A k \in 1 .. Len(b) : (a \o b)[Len(a) + k] = b[k]
OBVIOUS

\* A part of a sequence.
LEMMA PartOf ==
    ASSUME NEW S, NEW s \in Seq(S), NEW m \in Nat, NEW l \in Nat, m + l <= Len(s)
    PROVE  LET part == SubSeq(s, m + 1, m + l)
           IN  part \in Seq(S) /\ Len(part) = l /\ \A j \in 1 .. l : part[j] = s[m + j]
<1>1. SubSeq(s, m + 1, m + l) \in Seq(S)
    OBVIOUS
<1>2. Len(SubSeq(s, m + 1, m + l)) = l
    OBVIOUS
<1>3. \A j \in 1 .. l : SubSeq(s, m + 1, m + l)[j] = s[m + j]
    OBVIOUS
<1> QED
    BY <1>1, <1>2, <1>3, Zenon

\* A sequence is its head and its tail.
LEMMA HeadInFront ==
    ASSUME NEW S, NEW a \in Seq(S), a # <<>>
    PROVE  <<Head(a)>> \o Tail(a) = a
OBVIOUS

\* An element between two sequences belongs to either.
LEMMA BetweenTwo ==
    ASSUME NEW S, NEW a \in Seq(S), NEW b \in Seq(S), NEW m \in S
    PROVE  Append(a, m) \o b = a \o (<<m>> \o b)
OBVIOUS

\* The empty sequence adds nothing.
LEMMA NothingBetween ==
    ASSUME NEW S, NEW a \in Seq(S)
    PROVE  <<>> \o a = a
OBVIOUS

\* Sequences of one length and the same elements are the same.
LEMMA SameSequence ==
    ASSUME NEW S, NEW a \in Seq(S), NEW b \in Seq(S), Len(a) = Len(b),
           \A k \in 1 .. Len(a) : a[k] = b[k]
    PROVE  a = b
OBVIOUS

\* A sequence of no elements is the empty one.
LEMMA EmptySequence ==
    ASSUME NEW S, NEW a \in Seq(S)
    PROVE  a = <<>> <=> Len(a) = 0
OBVIOUS

\* A sequence with a last element taken off again.
LEMMA FrontOfAppend ==
    ASSUME NEW S, NEW a \in Seq(S), NEW m \in S
    PROVE  SubSeq(Append(a, m), 1, Len(Append(a, m)) - 1) = a
OBVIOUS

\* A longer sequence and its tail end alike.
LEMMA LastOfTail ==
    ASSUME NEW S, NEW a \in Seq(S), Len(a) > 1
    PROVE  Tail(a) # <<>> /\ Tail(a)[Len(Tail(a))] = a[Len(a)]
<1>1. /\ Tail(a) \in Seq(S) /\ Len(Tail(a)) = Len(a) - 1 /\ Len(a) \in Nat
      /\ \A k \in 1 .. Len(a) - 1 : Tail(a)[k] = a[k + 1]
    OBVIOUS
<1>2. Len(a) - 1 \in 1 .. Len(a) - 1 /\ (Len(a) - 1) + 1 = Len(a)
    BY <1>1
<1>3. Tail(a)[Len(a) - 1] = a[Len(a)]
    BY <1>1, <1>2
<1>4. Tail(a) # <<>>
    <2>1. Len(Tail(a)) # 0
        BY <1>1
    <2> QED
        BY <1>1, <2>1, EmptySequence
<1> QED
    BY <1>1, <1>3, <1>4

\* Nothing is left of one element, at either end.
LEMMA OneElement ==
    ASSUME NEW S, NEW a \in Seq(S), Len(a) = 1
    PROVE  Tail(a) = <<>> /\ SubSeq(a, 1, Len(a) - 1) = <<>>
<1>1. Tail(a) \in Seq(S) /\ Len(Tail(a)) = 0
    OBVIOUS
<1>2. SubSeq(a, 1, Len(a) - 1) \in Seq(S) /\ Len(SubSeq(a, 1, Len(a) - 1)) = 0
    OBVIOUS
<1> QED
    BY <1>1, <1>2, EmptySequence

\* Taking the first element and the last one off, in either order.
LEMMA FrontOfTail ==
    ASSUME NEW S, NEW a \in Seq(S), Len(a) > 1
    PROVE  LET front == SubSeq(a, 1, Len(a) - 1)
           IN  /\ front # <<>> /\ Head(front) = Head(a)
               /\ SubSeq(Tail(a), 1, Len(Tail(a)) - 1) = Tail(front)
<1> DEFINE front == SubSeq(a, 1, Len(a) - 1)
           rest  == Tail(a)
<1>1. /\ front \in Seq(S) /\ Len(front) = Len(a) - 1
      /\ \A k \in 1 .. Len(a) - 1 : front[k] = a[k]
    OBVIOUS
<1>2. /\ rest \in Seq(S) /\ Len(rest) = Len(a) - 1
      /\ \A k \in 1 .. Len(a) - 1 : rest[k] = a[k + 1]
    OBVIOUS
<1> HIDE DEF front, rest
<1>3. /\ Tail(front) \in Seq(S) /\ Len(Tail(front)) = Len(a) - 2
      /\ \A k \in 1 .. Len(a) - 2 : Tail(front)[k] = a[k + 1]
    BY <1>1
<1>4. /\ SubSeq(rest, 1, Len(rest) - 1) \in Seq(S)
      /\ Len(SubSeq(rest, 1, Len(rest) - 1)) = Len(a) - 2
      /\ \A k \in 1 .. Len(a) - 2 : SubSeq(rest, 1, Len(rest) - 1)[k] = a[k + 1]
    BY <1>2
<1>5. SubSeq(rest, 1, Len(rest) - 1) = Tail(front)
    BY <1>3, <1>4, SameSequence
<1>6. front # <<>> /\ Head(front) = Head(a)
    BY <1>1
<1> QED
    BY <1>5, <1>6 DEF front, rest
-----------------------------------------------------------------------------
(***************************************************************************)
(* Induction.  The theorems of the library for it take the property as an  *)
(* operator, which no prover here can give them; that a non-empty set of   *)
(* numbers has a least element takes it as a set, and will do.             *)
(***************************************************************************)
\* What holds of 0, and of n + 1 whenever it holds of n, holds of every number.
LEMMA SetInduction ==
    ASSUME NEW S, 0 \in S, \A n \in Nat : n \in S => n + 1 \in S
    PROVE  Nat \subseteq S
<1> SUFFICES ASSUME ~(Nat \subseteq S) PROVE FALSE
    OBVIOUS
<1> DEFINE T == Nat \ S
           R == {p \in Nat \X Nat : p[1] < p[2]}
<1>1. IsWellFoundedOn(R, Nat)
    BY NatLessThanWellFounded DEF OpToRel
<1>2. T \subseteq Nat /\ T # {}
    OBVIOUS
<1> HIDE DEF R, T
<1>3. PICK x \in T : \A y \in T : ~(<<y, x>> \in R)
    BY <1>1, <1>2, WFMin
<1> USE DEF T, R
<1>4. x \in Nat /\ x # 0 /\ x \notin S
    BY <1>3
<1>5. x - 1 \in Nat /\ <<x - 1, x>> \in R
    BY <1>4
<1>6. x - 1 \in S
    BY <1>3, <1>5
<1> QED
    BY <1>4, <1>5, <1>6

\* Step[k] makes the value at k of the value at k - 1; g has the values that come of it.
IsRecursion(n, S, start, Step) == n \in Nat /\ start \in S /\ Step \in [1 .. n -> [S -> S]]
Solves(g, n, S, start, Step) ==
    g \in [0 .. n -> S] /\ g[0] = start /\ \A k \in 1 .. n : g[k] = Step[k][g[k - 1]]

\* A recursion over the numbers up to n has a solution.
LEMMA RecursionExists ==
    ASSUME NEW n, NEW S, NEW start, NEW Step, IsRecursion(n, S, start, Step)
    PROVE  \E g : Solves(g, n, S, start, Step)
<1> USE DEF IsRecursion
<1> DEFINE A == {m \in Nat : m <= n => \E g : Solves(g, m, S, start, Step)}
<1>1. 0 \in A
    <2>1. Solves([k \in 0 .. 0 |-> start], 0, S, start, Step)
        BY DEF Solves
    <2> QED
        BY <2>1
<1>2. ASSUME NEW m \in Nat, m \in A
      PROVE  m + 1 \in A
    <2> SUFFICES ASSUME m + 1 <= n
                 PROVE  \E g : Solves(g, m + 1, S, start, Step)
        OBVIOUS
    <2>1. PICK g : Solves(g, m, S, start, Step)
        BY <1>2
    <2> DEFINE h == [k \in 0 .. m + 1 |-> IF k = m + 1 THEN Step[m + 1][g[m]] ELSE g[k]]
    <2>2. Step[m + 1][g[m]] \in S
        <3>1. g[m] \in S /\ m + 1 \in 1 .. n
            BY <2>1 DEF Solves
        <3> QED
            BY <3>1
    <2>3. h \in [0 .. m + 1 -> S]
        BY <2>1, <2>2 DEF Solves
    <2>4. h[0] = start
        BY <2>1 DEF Solves
    <2>5. ASSUME NEW k \in 1 .. m + 1
          PROVE  h[k] = Step[k][h[k - 1]]
        <3>1. h[k - 1] = g[k - 1]
            OBVIOUS
        <3> QED
            BY <2>1, <3>1 DEF Solves
    <2> HIDE DEF h
    <2> QED
        BY <2>3, <2>4, <2>5 DEF Solves
<1> HIDE DEF A
<1>3. Nat \subseteq A
    BY <1>1, <1>2, SetInduction
<1> QED
    BY <1>3 DEF A

\* And no other: what satisfies it as long as its values are in S has its values there.
LEMMA RecursionUnique ==
    ASSUME NEW n \in Nat, NEW S, NEW start, NEW Step, NEW g, Solves(g, n, S, start, Step),
           NEW h, h[0] = start,
           \A k \in 1 .. n : h[k - 1] \in S => h[k] = Step[k][h[k - 1]]
    PROVE  \A k \in 0 .. n : h[k] = g[k]
<1> DEFINE A == {m \in Nat : m <= n => h[m] = g[m]}
<1> USE DEF Solves
<1>1. 0 \in A
    OBVIOUS
<1>2. ASSUME NEW m \in Nat, m \in A
      PROVE  m + 1 \in A
    <2> SUFFICES ASSUME m + 1 <= n
                 PROVE  h[m + 1] = g[m + 1]
        OBVIOUS
    <2>1. h[m] = g[m] /\ m + 1 \in 1 .. n /\ (m + 1) - 1 = m /\ g[m] \in S
        BY <1>2
    <2> QED
        BY <2>1
<1> HIDE DEF A
<1>3. Nat \subseteq A
    BY <1>1, <1>2, SetInduction
<1> QED
    BY <1>3 DEF A

\* Such a function is the solution.
IsFunctionUpTo(h, n) == h = [k \in 0 .. n |-> h[k]]
LEMMA RecursionSolves ==
    ASSUME NEW n \in Nat, NEW S, NEW start, NEW Step, NEW g, Solves(g, n, S, start, Step),
           NEW h, IsFunctionUpTo(h, n), h[0] = start,
           \A k \in 1 .. n : h[k - 1] \in S => h[k] = Step[k][h[k - 1]]
    PROVE  Solves(h, n, S, start, Step)
<1>1. \A k \in 0 .. n : h[k] = g[k]
    BY RecursionUnique
<1>2. h \in [0 .. n -> S]
    <2>1. \A k \in 0 .. n : h[k] \in S
        BY <1>1 DEF Solves
    <2> QED
        BY <2>1 DEF IsFunctionUpTo
<1>3. \A k \in 1 .. n : h[k] = Step[k][h[k - 1]]
    <2> TAKE k \in 1 .. n
    <2>1. k - 1 \in 0 .. n
        OBVIOUS
    <2> QED
        BY <1>2, <2>1
<1> QED
    BY <1>2, <1>3 DEF Solves

\* Induction over the numbers up to n.
LEMMA BoundedInduction ==
    ASSUME NEW n \in Nat, NEW A, 0 \in A, \A k \in 1 .. n : k - 1 \in A => k \in A
    PROVE  \A k \in 0 .. n : k \in A
<1> DEFINE B == {m \in Nat : m <= n => m \in A}
<1>1. ASSUME NEW m \in Nat, m \in B
      PROVE  m + 1 \in B
    <2>1. CASE m + 1 <= n
        <3>1. m + 1 \in 1 .. n /\ (m + 1) - 1 = m /\ m \in A
            BY <1>1, <2>1
        <3> QED
            BY <3>1
    <2> QED
        BY <2>1
<1>2. 0 \in B
    OBVIOUS
<1> HIDE DEF B
<1>3. Nat \subseteq B
    BY <1>1, <1>2, SetInduction
<1> QED
    BY <1>3 DEF B

\* A set of numbers that has one has a least one.
LEMMA LeastNumber ==
    ASSUME NEW T, T \subseteq Nat, T # {}
    PROVE  \E x \in T : \A y \in T : x <= y
<1> DEFINE R == {p \in Nat \X Nat : p[1] < p[2]}
<1>1. IsWellFoundedOn(R, Nat)
    BY NatLessThanWellFounded DEF OpToRel
<1> HIDE DEF R
<1>2. PICK x \in T : \A y \in T : ~(<<y, x>> \in R)
    BY <1>1, WFMin
<1>3. ASSUME NEW y \in T
      PROVE  x <= y
    <2>1. x \in Nat /\ y \in Nat /\ ~(<<y, x>> \in R)
        BY <1>2
    <2> QED
        BY <2>1 DEF R
<1> QED
    BY <1>3

\* An element of a sequence is replaced by another.
LEMMA ReplacedElement ==
    \A S : \A s \in Seq(S), v \in S : \A d \in 1 .. Len(s) :
        LET t == [s EXCEPT ![d] = v]
        IN  /\ t \in Seq(S) /\ Len(t) = Len(s) /\ t[d] = v
            /\ \A a \in 1 .. Len(s) : a # d => t[a] = s[a]
    OBVIOUS
-----------------------------------------------------------------------------
(***************************************************************************)
(* Division.                                                               *)
(***************************************************************************)
\* A number is its quotient and its remainder.
LEMMA Division ==
    ASSUME NEW x \in Int, NEW n \in Nat \ {0}
    PROVE  /\ x \div n \in Int /\ x % n \in 0 .. n - 1
           /\ x = (x \div n) * n + (x % n)
BY SMTT(30)

\* The only multiple of n that is less than n away from 0 is 0.
LEMMA SmallMultiple ==
    ASSUME NEW a \in Int, NEW n \in Nat \ {0}, a * n < n, 0 - n < a * n
    PROVE  a = 0
<1>1. CASE a >= 1
    <2>1. (a - 1) * n >= 0
        BY <1>1
    <2>2. a * n = (a - 1) * n + n
        OBVIOUS
    <2> QED
        BY <2>1, <2>2
<1>2. CASE a <= -1
    <2>1. (-a - 1) * n >= 0
        BY <1>2
    <2>2. a * n = 0 - (-a - 1) * n - n
        OBVIOUS
    <2> QED
        BY <2>1, <2>2
<1> QED
    BY <1>1, <1>2

\* A number has one remainder, and one quotient.
LEMMA OneRemainder ==
    ASSUME NEW n \in Nat \ {0}, NEW q \in Int, NEW r \in 0 .. n - 1
    PROVE  (q * n + r) % n = r /\ (q * n + r) \div n = q
<1> DEFINE x == q * n + r
           d == x \div n
           s == x % n
<1>1. d \in Int /\ s \in 0 .. n - 1 /\ x = d * n + s
    <2>1. x \in Int
        OBVIOUS
    <2> QED
        BY <2>1, Division
<1>2. q * n + r = d * n + s
    BY <1>1
<1> HIDE DEF d, s
<1>3. (q - d) * n = s - r
    BY <1>1, <1>2
<1>4. q - d = 0
    BY <1>1, <1>3, SmallMultiple
<1>5. s = r
    BY <1>1, <1>2, <1>4
<1> QED
    BY <1>1, <1>4, <1>5 DEF s, d
=============================================================================
