----------------------------- MODULE SwigProofs ------------------------------
(***************************************************************************)
(* Proofs about SwigTypes and SwigObjects, for every value of the          *)
(* constants.                                                              *)
(***************************************************************************)
EXTENDS SwigObjects, SequenceLemmas, FiniteSetTheorems

Names == Range(NameOrder)

\* The numbers up to n are n.
LEMMA UpToHas ==
    ASSUME NEW n \in Nat
    PROVE  IsFiniteSet(1 .. n) /\ Cardinality(1 .. n) = n
<1>1. IsFiniteSet(1 .. n) /\ Cardinality(1 .. n) = IF 1 > n THEN 0 ELSE n - 1 + 1
    BY FS_Interval
<1> QED
    BY <1>1

-----------------------------------------------------------------------------
(***************************************************************************)
(* The binary search finds what is there.                                  *)
(***************************************************************************)
LEMMA RankIs ==
    ASSUME NEW t \in Names
    PROVE  Rank[t] \in Nat /\ NameOrder[Rank[t]] = t
<1>1. \E i \in DOMAIN NameOrder : NameOrder[i] = t
    BY DEF Names, Range
<1>2. Rank[t] \in DOMAIN NameOrder /\ NameOrder[Rank[t]] = t
    BY <1>1 DEF Rank, Names
<1> QED
    BY <1>2, TypesAssumption

\* names are in the order of strcmp.
Sorted(names) ==
    names \in Seq(Names) /\ \A i, j \in 1 .. Len(names) : i < j => Rank[names[i]] < Rank[names[j]]

\* What the search knows after k turns: name is not left of l, nor right of r, and each
\* turn has taken away one place at least.
Narrowed(names, name, k, s) ==
    /\ s.at \in 0 .. Len(names) /\ (s.at # 0 => names[s.at] = name)
    /\ s.at = 0 => /\ s.l >= 0 /\ s.r < Len(names) /\ s.r - s.l + 1 <= Len(names) - k
                   /\ \A p \in 1 .. Len(names) : names[p] = name => s.l < p /\ p <= s.r + 1

Searches == [l : Int, r : Int, at : Int]

LEMMA TurnType ==
    ASSUME NEW names \in Seq(Names), NEW name, NEW s \in Searches
    PROVE  Turn(names, name, s) \in Searches
BY DEF Turn, Searches

LEMMA TurnNarrows ==
    ASSUME NEW names, NEW name \in Names, Sorted(names), NEW s \in Searches,
           NEW k \in Nat, k < Len(names), Narrowed(names, name, k, s)
    PROVE  Narrowed(names, name, k + 1, Turn(names, name, s))
<1> USE DEF Searches
<1> DEFINE i == (s.l + s.r) \div 2
           new == Turn(names, name, s)
<1> SUFFICES Narrowed(names, name, k + 1, new)
    OBVIOUS
<1>0. Len(names) \in Nat /\ s.l \in Int /\ s.r \in Int /\ s.at \in Int
    BY DEF Sorted
<1>1. CASE s.at # 0
    BY <1>0, <1>1 DEF Turn, Narrowed
<1>2. CASE s.at = 0 /\ s.l > s.r
    <2>1. new = s
        BY <1>2 DEF Turn
    <2>2. \A p \in 1 .. Len(names) : names[p] # name
        <3> TAKE p \in 1 .. Len(names)
        <3> SUFFICES ASSUME names[p] = name PROVE FALSE
            OBVIOUS
        <3>1. s.l < p /\ p <= s.r + 1
            BY <1>2 DEF Narrowed
        <3> QED
            BY <1>0, <1>2, <3>1
    <2>3. s.l >= 0 /\ s.r < Len(names) /\ s.r - s.l + 1 <= Len(names) - (k + 1)
        BY <1>0, <1>2 DEF Narrowed
    <2> HIDE DEF new
    <2> QED
        BY <1>0, <1>2, <2>1, <2>2, <2>3 DEF Narrowed
<1>3. CASE s.at = 0 /\ s.l <= s.r
    <2>1. s.l <= i /\ i <= s.r /\ i \in Int
        BY <1>3
    <2>2. i + 1 \in 1 .. Len(names) /\ names \in Seq(Names) /\ Len(names) \in Nat
        BY <1>3, <2>1 DEF Narrowed, Sorted
    <2> DEFINE at == names[i + 1]
    <2>3. new = IF name = at THEN [s EXCEPT !.at = i + 1]
                ELSE IF Rank[name] > Rank[at] THEN [s EXCEPT !.l = i + 1]
                ELSE [s EXCEPT !.r = i - 1]
        BY <1>3 DEF Turn
    <2>4. /\ Rank[name] \in Nat /\ Rank[at] \in Nat
          /\ \A p \in 1 .. Len(names) : Rank[names[p]] \in Nat
        <3>1. \A p \in 1 .. Len(names) : names[p] \in Names
            BY <2>2
        <3> QED
            BY <2>2, <3>1, RankIs
    <2>5. /\ \A p \in 1 .. Len(names) : p < i + 1 => Rank[names[p]] < Rank[at]
          /\ \A p \in 1 .. Len(names) : i + 1 < p => Rank[at] < Rank[names[p]]
        <3>1. \A p, q \in 1 .. Len(names) : p < q => Rank[names[p]] < Rank[names[q]]
            BY DEF Sorted
        <3> HIDE DEF i
        <3> QED
            BY <2>2, <3>1
    <2>6. /\ s.l >= 0 /\ s.r < Len(names) /\ s.r - s.l + 1 <= Len(names) - k
          /\ \A p \in 1 .. Len(names) : names[p] = name => s.l < p /\ p <= s.r + 1
        BY <1>3 DEF Narrowed
    <2> HIDE DEF i, new, at
    <2>7. CASE name = at
        <3>1. new = [s EXCEPT !.at = i + 1] /\ names[i + 1] = name
            BY <2>3, <2>7 DEF at
        <3>2. new.at = i + 1 /\ i + 1 # 0
            BY <2>2, <3>1
        <3> QED
            BY <2>2, <3>1, <3>2 DEF Narrowed
    <2>8. CASE name # at /\ Rank[name] > Rank[at]
        <3>1. new = [s EXCEPT !.l = i + 1]
            BY <2>3, <2>8
        <3>2. ASSUME NEW p \in 1 .. Len(names), names[p] = name
              PROVE  i + 1 < p
            <4>1. ~(p < i + 1) /\ p # i + 1
                BY <2>4, <2>5, <2>8, <3>2 DEF at
            <4> QED
                BY <2>1, <4>1
        <3> QED
            <4>1. new.l = i + 1 /\ new.r = s.r /\ new.at = 0
                BY <1>3, <3>1
            <4>2. new.r - new.l + 1 <= Len(names) - (k + 1) /\ new.l >= 0 /\ new.r < Len(names)
                BY <1>0, <2>1, <2>6, <4>1
            <4>3. \A p \in 1 .. Len(names) : names[p] = name => new.l < p /\ p <= new.r + 1
                BY <2>6, <3>2, <4>1
            <4> QED
                BY <1>0, <4>1, <4>2, <4>3 DEF Narrowed
    <2>9. CASE name # at /\ ~(Rank[name] > Rank[at])
        <3>1. new = [s EXCEPT !.r = i - 1]
            BY <2>3, <2>9
        <3>2. ASSUME NEW p \in 1 .. Len(names), names[p] = name
              PROVE  p < i + 1
            <4>1. ~(i + 1 < p) /\ p # i + 1
                BY <2>4, <2>5, <2>9, <3>2 DEF at
            <4> QED
                BY <2>1, <4>1
        <3> QED
            <4>1. new.l = s.l /\ new.r = i - 1 /\ new.at = 0
                BY <1>3, <3>1
            <4>2. new.r - new.l + 1 <= Len(names) - (k + 1) /\ new.l >= 0 /\ new.r < Len(names)
                BY <1>0, <2>1, <2>6, <4>1
            <4>3. \A p \in 1 .. Len(names) : names[p] = name => new.l < p /\ p <= new.r + 1
                BY <2>1, <2>6, <3>2, <4>1
            <4> QED
                BY <1>0, <4>1, <4>2, <4>3 DEF Narrowed
    <2> QED
        BY <2>7, <2>8, <2>9 DEF new
<1> QED
    BY <1>0, <1>1, <1>2, <1>3 DEF Narrowed

\* It finds name when it is there, and nothing when it is not.
LEMMA SearchFinds ==
    ASSUME NEW names, Sorted(names), NEW name \in Names
    PROVE  LET at == Search(names, name, Len(names) - 1)
           IN  /\ at \in 0 .. Len(names) /\ (at # 0 => names[at] = name)
               /\ at = 0 => \A p \in 1 .. Len(names) : names[p] # name
<1> DEFINE N == Len(names)
           start == [l |-> 0, r |-> N - 1, at |-> 0]
           Step == [k \in 1 .. N |-> [s \in Searches |-> Turn(names, name, s)]]
           IsTurn(f) == f = [k \in 0 .. N |-> IF k = 0 THEN start
                                              ELSE Turn(names, name, f[k - 1])]
           turn == CHOOSE f : IsTurn(f)
<1>1. names \in Seq(Names) /\ N \in Nat
    BY DEF Sorted
<1>2. IsRecursion(N, Searches, start, Step)
    <2>1. start \in Searches
        BY <1>1 DEF Searches
    <2>2. Step \in [1 .. N -> [Searches -> Searches]]
        BY <1>1, TurnType
    <2> HIDE DEF start, Step
    <2> QED
        BY <1>1, <2>1, <2>2 DEF IsRecursion
<1>3. \A s \in Searches, k \in 1 .. N : Step[k][s] = Turn(names, name, s)
    OBVIOUS
<1>4. start.l = 0 /\ start.r = N - 1 /\ start.at = 0
    OBVIOUS
<1> HIDE DEF N, start, Step
<1>5. PICK g : Solves(g, N, Searches, start, Step)
    BY <1>2, RecursionExists
<1>6. IsTurn(g)
    <2>1. ASSUME NEW k \in 1 .. N
          PROVE  g[k] = Turn(names, name, g[k - 1])
        <3>1. g[k - 1] \in Searches /\ g[k] = Step[k][g[k - 1]]
            BY <1>1, <1>5 DEF Solves
        <3> QED
            BY <1>3, <3>1
    <2> QED
        BY <1>1, <1>5, <2>1 DEF Solves
<1>7. IsTurn(turn)
    BY <1>6
<1> HIDE DEF turn
<1>8. turn[0] = start
    BY <1>1, <1>7
<1>9. ASSUME NEW k \in 1 .. N
      PROVE  turn[k] = Turn(names, name, turn[k - 1])
    <2>1. k \in 0 .. N /\ k # 0
        BY <1>1
    <2> QED
        BY <1>7, <2>1, Zenon
<1>10. \A k \in 1 .. N : turn[k - 1] \in Searches => turn[k] = Step[k][turn[k - 1]]
    BY <1>3, <1>9
<1>11. \A k \in 0 .. N : turn[k] \in Searches
    <2>1. \A k \in 0 .. N : turn[k] = g[k]
        BY <1>1, <1>5, <1>8, <1>10, RecursionUnique
    <2> QED
        BY <1>5, <2>1 DEF Solves
<1> DEFINE A == {k \in 0 .. N : Narrowed(names, name, k, turn[k])}
<1>12. \A k \in 0 .. N : k \in A
    <2>1. 0 \in A
        <3>1. Narrowed(names, name, 0, turn[0])
            BY <1>1, <1>4, <1>8 DEF Narrowed, N
        <3> QED
            BY <1>1, <3>1
    <2>2. ASSUME NEW k \in 1 .. N, k - 1 \in A
          PROVE  k \in A
        <3>1. k - 1 \in Nat /\ k - 1 < N /\ (k - 1) + 1 = k /\ turn[k - 1] \in Searches
            BY <1>1, <1>11
        <3>2. Narrowed(names, name, k - 1, turn[k - 1])
            BY <2>2
        <3>3. Narrowed(names, name, (k - 1) + 1, Turn(names, name, turn[k - 1]))
            BY <3>1, <3>2, TurnNarrows DEF N
        <3> QED
            BY <1>9, <3>1, <3>3
    <2> HIDE DEF A
    <2> QED
        BY <1>1, <2>1, <2>2, BoundedInduction
<1>13. Narrowed(names, name, N, turn[N]) /\ turn[N] \in Searches
    BY <1>1, <1>11, <1>12
<1>14. Search(names, name, N - 1) = turn[N].at
    BY DEF Search, turn, start, N
<1>15. turn[N].at = 0 => \A p \in 1 .. N : names[p] # name
    <2> SUFFICES ASSUME turn[N].at = 0, NEW p \in 1 .. N, names[p] = name PROVE FALSE
        OBVIOUS
    <2>1. /\ turn[N].l \in Int /\ turn[N].r \in Int
          /\ turn[N].r - turn[N].l + 1 <= N - N /\ turn[N].l < p /\ p <= turn[N].r + 1
        BY <1>13 DEF Narrowed, Searches, N
    <2> QED
        BY <1>1, <2>1
<1> QED
    BY <1>13, <1>14, <1>15 DEF Narrowed, N

\* The arrays of the modules.
LEMMA Arrays ==
    ASSUME NEW m \in Modules
    PROVE  /\ Sorted(Declares[m]) /\ DOMAIN Declares[m] = 1 .. Len(Declares[m])
           /\ Declared(m) \subseteq Names
           /\ \A i \in 1 .. Len(Declares[m]) :
                  Declares[m][i] \in Declared(m) /\ Place[m][Declares[m][i]] = i
           /\ \A t \in Declared(m) :
                  Place[m][t] \in 1 .. Len(Declares[m]) /\ Declares[m][Place[m][t]] = t
<1> DEFINE d == Declares[m]
<1>1. /\ d \in Seq(Names) /\ DOMAIN d = 1 .. Len(d)
      /\ \A i, j \in 1 .. Len(d) : i < j => Rank[d[i]] < Rank[d[j]]
    BY TypesAssumption DEF Names
<1>2. Declared(m) = {d[i] : i \in 1 .. Len(d)}
    BY <1>1 DEF Declared, Place, Range
<1> HIDE DEF d
<1>3. ASSUME NEW i \in 1 .. Len(d), NEW j \in 1 .. Len(d), d[i] = d[j]
      PROVE  i = j
    <2>1. Rank[d[i]] \in Nat /\ Rank[d[j]] = Rank[d[i]]
        BY <1>1, <1>3, RankIs
    <2>2. ~(i < j) /\ ~(j < i)
        BY <1>1, <2>1
    <2> QED
        BY <2>2
<1>4. ASSUME NEW t \in Declared(m)
      PROVE  Place[m][t] \in 1 .. Len(d) /\ d[Place[m][t]] = t
    <2>1. \E i \in 1 .. Len(d) : d[i] = t
        BY <1>2
    <2>2. Place[m][t] = CHOOSE i \in 1 .. Len(d) : d[i] = t
        BY <1>1, <1>2 DEF Place, Range, d
    <2> QED
        BY <2>1, <2>2
<1>5. ASSUME NEW i \in 1 .. Len(d)
      PROVE  d[i] \in Declared(m) /\ Place[m][d[i]] = i
    <2>1. d[i] \in Declared(m)
        BY <1>2
    <2>2. Place[m][d[i]] \in 1 .. Len(d) /\ d[Place[m][d[i]]] = d[i]
        BY <1>4, <2>1
    <2> QED
        BY <1>3, <2>1, <2>2
<1> QED
    BY <1>1, <1>2, <1>4, <1>5 DEF d, Sorted

\* A module's array is asked for a name where it has it.
LEMMA FoundIs ==
    ASSUME NEW m \in Modules, NEW t \in Names
    PROVE  /\ Found[m][t] # 0 <=> t \in Declared(m)
           /\ t \in Declared(m) => Found[m][t] = Place[m][t]
<1>1. Found[m][t] = Search(Declares[m], t, Len(Declares[m]) - 1)
    BY DEF Found, Names
<1>2. Sorted(Declares[m])
    BY Arrays
<1> DEFINE at == Found[m][t]
           d  == Declares[m]
<1>3. /\ at \in 0 .. Len(d) /\ (at # 0 => d[at] = t)
      /\ at = 0 => \A p \in 1 .. Len(d) : d[p] # t
    BY <1>1, <1>2, SearchFinds
<1> HIDE DEF at
<1>4. at # 0 => t \in Declared(m) /\ Place[m][t] = at
    <2> SUFFICES ASSUME at # 0 PROVE t \in Declared(m) /\ Place[m][t] = at
        OBVIOUS
    <2>1. at \in 1 .. Len(d) /\ d[at] = t
        BY <1>2, <1>3 DEF Sorted
    <2> QED
        BY <2>1, Arrays
<1>5. t \in Declared(m) => at # 0
    BY <1>3, Arrays
<1> QED
    BY <1>4, <1>5 DEF at

-----------------------------------------------------------------------------
(***************************************************************************)
(* The structures of the modules.                                          *)
(***************************************************************************)
LEMMA LoadedAre ==
    ASSUME modules \in Seq(Modules)
    PROVE  /\ Loaded \subseteq Modules /\ (Loaded = {} <=> modules = <<>>)
           /\ \A k \in Loaded : \E i \in 1 .. Len(modules) : modules[i] = k
           /\ \A i \in 1 .. Len(modules) : modules[i] \in Loaded
BY DEF Loaded, Range

\* All modules that are loaded are asked.
LEMMA OthersAre ==
    ASSUME modules \in Seq(Modules), NEW m
    PROVE  /\ Others(m) \in Seq(Modules)
           /\ \A i \in 1 .. Len(Others(m)) : Others(m)[i] \in Loaded
           /\ \A k \in Loaded : \E i \in 1 .. Len(Others(m)) : Others(m)[i] = k
<1>1. CASE modules = <<>>
    BY <1>1, LoadedAre DEF Others
<1>2. CASE modules # <<>>
    <2> DEFINE n == Len(modules)
               o == Others(m)
    <2>1. n \in Nat \ {0}
        BY <1>2
    <2>2. /\ o \in Seq(Modules) /\ Len(o) = n
          /\ \A i \in 1 .. n - 1 : o[i] = modules[i + 1]
          /\ o[n] = modules[1]
        BY <1>2, <2>1 DEF Others
    <2> HIDE DEF o
    <2>3. \A i \in 1 .. n : o[i] \in Loaded
        <3> TAKE i \in 1 .. n
        <3>1. CASE i = n
            BY <2>1, <2>2, <3>1, LoadedAre
        <3>2. CASE i # n
            <4>1. i \in 1 .. n - 1 /\ i + 1 \in 1 .. n
                BY <2>1, <3>2
            <4> QED
                BY <2>2, <4>1, LoadedAre
        <3> QED
            BY <3>1, <3>2
    <2>4. ASSUME NEW k \in Loaded
          PROVE  \E i \in 1 .. n : o[i] = k
        <3>1. PICK j \in 1 .. n : modules[j] = k
            BY LoadedAre
        <3>2. CASE j = 1
            BY <2>1, <2>2, <3>1, <3>2
        <3>3. CASE j # 1
            <4>1. j - 1 \in 1 .. n - 1 /\ j - 1 \in 1 .. n /\ (j - 1) + 1 = j
                BY <2>1, <3>3
            <4>2. o[j - 1] = k
                BY <2>2, <3>1, <4>1
            <4> QED
                BY <4>1, <4>2
        <3> QED
            BY <3>2, <3>3
    <2> QED
        BY <2>2, <2>3, <2>4 DEF o
<1> QED
    BY <1>1, <1>2

\* They give the structure of a name, if one of them has it.
LEMMA QueryGives ==
    ASSUME StructuresKept, NEW m, NEW t \in Names
    PROVE  /\ (\A k \in Loaded : t \notin Declared(k)) => Query(Others(m), t) = None
           /\ \A k \in Loaded : t \in Declared(k) => Query(Others(m), t) = TypeOf(k, t)
<1> DEFINE start == Others(m)
           has   == {i \in DOMAIN start : Found[start[i]][t] # 0}
           first == CHOOSE i \in has : \A j \in has : i <= j
<1>1. /\ start \in Seq(Modules) /\ DOMAIN start = 1 .. Len(start)
      /\ \A i \in 1 .. Len(start) : start[i] \in Loaded
      /\ \A k \in Loaded : \E i \in 1 .. Len(start) : start[i] = k
    BY OthersAre DEF StructuresKept
<1>2. \A i \in 1 .. Len(start) :
          /\ Found[start[i]][t] # 0 <=> t \in Declared(start[i])
          /\ t \in Declared(start[i]) => Found[start[i]][t] = Place[start[i]][t]
    <2> TAKE i \in 1 .. Len(start)
    <2>1. start[i] \in Modules
        BY <1>1
    <2> HIDE DEF start
    <2> QED
        BY <2>1, FoundIs
<1>3. Query(start, t) = IF has = {} THEN None ELSE types[start[first]][Found[start[first]][t]]
    BY DEF Query
<1> HIDE DEF start
<1>4. has \subseteq Nat /\ \A i \in has : i \in 1 .. Len(start) /\ t \in Declared(start[i])
    BY <1>1, <1>2
<1>5. ASSUME \A k \in Loaded : t \notin Declared(k)
      PROVE  Query(start, t) = None
    <2>1. has = {}
        BY <1>1, <1>4, <1>5
    <2> QED
        BY <1>3, <2>1
<1>6. ASSUME NEW k \in Loaded, t \in Declared(k)
      PROVE  Query(start, t) = TypeOf(k, t)
    <2>1. has # {}
        <3>1. PICK i \in 1 .. Len(start) : start[i] = k
            BY <1>1
        <3>2. i \in has
            BY <1>1, <1>2, <1>6, <3>1
        <3> QED
            BY <3>2
    <2>2. \E i \in has : \A j \in has : i <= j
        <3> HIDE DEF has
        <3> QED
            BY <1>4, <2>1, LeastNumber
    <2>3. first \in has
        <3> HIDE DEF has
        <3> QED
            BY <2>2
    <2> HIDE DEF first, has
    <2>4. /\ start[first] \in Loaded /\ t \in Declared(start[first])
          /\ Found[start[first]][t] = Place[start[first]][t]
        BY <1>1, <1>2, <1>4, <2>3
    <2>5. Query(start, t) = TypeOf(start[first], t)
        BY <1>3, <2>1, <2>4 DEF TypeOf
    <2> QED
        BY <1>6, <2>4, <2>5 DEF StructuresKept, CanonicalTypes
<1> QED
    BY <1>5, <1>6 DEF start

\* The structures in use are those that the modules have for their names.
ArraysLaid ==
    modules \in Seq(Modules) /\ \A m \in Loaded : DOMAIN types[m] = DOMAIN Declares[m]
UsedFromArrays ==
    \A s : s \in Used <=> \E m \in Loaded : \E t \in Declared(m) : s = TypeOf(m, t)

LEMMA UsedAre ==
    ASSUME ArraysLaid
    PROVE  UsedFromArrays
<1> USE DEF ArraysLaid, UsedFromArrays
<1>1. ASSUME NEW m \in Loaded
      PROVE  Range(types[m]) = {TypeOf(m, t) : t \in Declared(m)}
    <2>1. m \in Modules /\ DOMAIN types[m] = DOMAIN Declares[m]
        BY LoadedAre
    <2>2. /\ DOMAIN Declares[m] = 1 .. Len(Declares[m])
          /\ \A i \in 1 .. Len(Declares[m]) :
                  Declares[m][i] \in Declared(m) /\ Place[m][Declares[m][i]] = i
          /\ \A t \in Declared(m) :
                  Place[m][t] \in 1 .. Len(Declares[m]) /\ Declares[m][Place[m][t]] = t
        BY <2>1, Arrays
    <2>3. \A i \in 1 .. Len(Declares[m]) : types[m][i] = TypeOf(m, Declares[m][i])
        BY <2>2 DEF TypeOf
    <2>4. \A t \in Declared(m) : TypeOf(m, t) = types[m][Place[m][t]]
        BY DEF TypeOf
    <2>5. Range(types[m]) = {types[m][i] : i \in 1 .. Len(Declares[m])}
        BY <2>1, <2>2 DEF Range
    <2> QED
        BY <2>2, <2>3, <2>4, <2>5
<1> QED
    BY <1>1 DEF Used

LEMMA UsedHave ==
    ASSUME StructuresKept, NEW s \in Used
    PROVE  /\ s = <<s[1], s[2]>> /\ s[1] \in Loaded /\ s[2] \in Declared(s[1])
           /\ TypeOf(s[1], s[2]) = s /\ s[2] \in Names
<1>0. PICK m \in Loaded : \E t \in Declared(m) : s = TypeOf(m, t)
    BY UsedAre DEF StructuresKept, ArraysLaid, UsedFromArrays
<1>1. PICK t \in Declared(m) : s = TypeOf(m, t)
    BY <1>0
<1>2. PICK k \in Loaded :
          t \in Declared(k) /\ TypeOf(m, t) = <<k, t>> /\ TypeOf(k, t) = <<k, t>>
    BY <1>1 DEF StructuresKept
<1>3. k \in Modules
    BY LoadedAre DEF StructuresKept
<1> QED
    BY <1>1, <1>2, <1>3, Arrays

-----------------------------------------------------------------------------
(***************************************************************************)
(* The list of a type.                                                     *)
(***************************************************************************)
LEMMA NodesAre ==
    ASSUME NEW t \in Names
    PROVE  /\ IsFiniteSet(NodesOf[t]) /\ None \notin NodesOf[t]
           /\ \A n \in NodesOf[t] : n \in Modules \X Names /\ n = <<n[1], n[2]>>
           /\ \A m, x : <<m, x>> \in NodesOf[t] <=>
                            m \in Modules /\ t \in Declared(m) /\ x \in Range(CastsTo[m][t])
<1> DEFINE from(m) == IF t \in Declared(m) THEN {m} \X Range(CastsTo[m][t]) ELSE {}
<1>1. NodesOf[t] = UNION {from(m) : m \in Modules}
    BY DEF NodesOf, Names
<1>2. \A m \in Modules : t \in Declared(m) => Range(CastsTo[m][t]) \subseteq Names
    <2> TAKE m \in Modules
    <2> HAVE t \in Declared(m)
    <2>1. CastsTo[m][t] \in Seq(Declared(m)) /\ Declared(m) \subseteq Names
        BY Arrays, TypesAssumption
    <2> HIDE DEF from
    <2>2. Range(CastsTo[m][t]) = {CastsTo[m][t][i] : i \in DOMAIN CastsTo[m][t]}
        BY DEF Range
    <2>3. \A i \in DOMAIN CastsTo[m][t] : CastsTo[m][t][i] \in Declared(m)
        BY <2>1
    <2> QED
        BY <2>1, <2>2, <2>3
<1>3. \A n \in NodesOf[t] : n \in Modules \X Names
    BY <1>1, <1>2
<1>4. IsFiniteSet(Names)
    <2>1. Names = {NameOrder[i] : i \in DOMAIN NameOrder} /\ DOMAIN NameOrder = 1 .. Len(NameOrder)
          /\ Len(NameOrder) \in Nat
        BY TypesAssumption DEF Names, Range
    <2> DEFINE f == [i \in 1 .. Len(NameOrder) |-> NameOrder[i]]
    <2>2. f \in Surjection(1 .. Len(NameOrder), Names)
        BY <2>1 DEF Surjection
    <2>3. IsFiniteSet(1 .. Len(NameOrder))
        BY <2>1, UpToHas
    <2> HIDE DEF f
    <2> QED
        BY <2>2, <2>3, FS_Surjection
<1>5. IsFiniteSet(NodesOf[t])
    <2>1. IsFiniteSet(Modules \X Names)
        BY <1>4, FS_Product, TypesAssumption
    <2>2. NodesOf[t] \in SUBSET (Modules \X Names)
        BY <1>3
    <2> QED
        BY <2>1, <2>2, FS_Subset
<1>6. None \notin NodesOf[t]
    BY <1>3, TypesAssumption DEF Names
<1>7. \A n \in NodesOf[t] : n = <<n[1], n[2]>>
    BY <1>3
<1>8. \A m, x : <<m, x>> \in NodesOf[t] <=>
                    m \in Modules /\ t \in Declared(m) /\ x \in Range(CastsTo[m][t])
    <2> TAKE m, x
    <2>1. <<m, x>> \in NodesOf[t] <=> \E k \in Modules : <<m, x>> \in from(k)
        BY <1>1
    <2>2. \A k : <<m, x>> \in from(k) <=>
                     t \in Declared(k) /\ m = k /\ x \in Range(CastsTo[k][t])
        OBVIOUS
    <2> HIDE DEF from
    <2> QED
        BY <2>1, <2>2
<1> QED
    BY <1>3, <1>5, <1>6, <1>7, <1>8

\* A list with one node for a name.
OneEach(list) == \A i, j \in 1 .. Len(list) : list[i][2] = list[j][2] => i = j
GoodList(t, c, list) == IsList(t, c, list) /\ OneEach(list)

\* It is no longer than there are nodes: following that many links is enough.
LEMMA ListFits ==
    ASSUME NEW t \in Names, NEW c, NEW list, GoodList(t, c, list)
    PROVE  /\ DOMAIN c.next = NodesOf[t] /\ Cardinality(NodesOf[t]) \in Nat
           /\ Len(list) \in Nat /\ Len(list) <= Cardinality(NodesOf[t])
<1>1. /\ list \in Seq(NodesOf[t]) /\ c.next \in [NodesOf[t] -> Links(t)]
      /\ Len(list) \in Nat /\ OneEach(list)
    BY DEF GoodList, IsList
<1>2. IsFiniteSet(NodesOf[t])
    BY NodesAre
<1> DEFINE f == [i \in 1 .. Len(list) |-> list[i]]
<1>3. f \in Injection(1 .. Len(list), NodesOf[t])
    BY <1>1 DEF Injection, IsInjective, OneEach
<1>4. Cardinality(1 .. Len(list)) = Len(list)
    BY <1>1, UpToHas
<1> HIDE DEF f
<1>5. Cardinality(1 .. Len(list)) <= Cardinality(NodesOf[t])
    BY <1>2, <1>3, FS_Injection
<1> QED
    BY <1>1, <1>2, <1>4, <1>5, FS_CardinalityType

LEMMA ListOfIs ==
    ASSUME NEW t \in Names, NEW c, NEW list, GoodList(t, c, list)
    PROVE  ListOf(c) = list
<1> DEFINE N == Cardinality(DOMAIN c.next)
           L == Len(list)
           start == c.head
           Step == [k \in 1 .. N |-> [n \in Links(t) |-> Behind(c, n)]]
           IsAt(f) == f = [k \in 0 .. N |-> IF k = 0 THEN start ELSE Behind(c, f[k - 1])]
           at == CHOOSE f : IsAt(f)
           links == {j \in 0 .. N : at[j] # None}
<1>1. N \in Nat /\ L \in Nat /\ L <= N
    BY ListFits
<1>2. /\ c.head \in Links(t) /\ c.next \in [NodesOf[t] -> Links(t)] /\ list \in Seq(NodesOf[t])
      /\ c.head = IF L = 0 THEN None ELSE list[1]
      /\ \A i \in 1 .. L : c.next[list[i]] = IF i = L THEN None ELSE list[i + 1]
    BY DEF GoodList, IsList
<1>3. None \notin NodesOf[t] /\ \A i \in 1 .. L : list[i] \in NodesOf[t]
    BY <1>2, NodesAre
<1>4. \A n \in Links(t) : Behind(c, n) \in Links(t)
    BY <1>2 DEF Behind, Links
<1>5. IsRecursion(N, Links(t), start, Step)
    <2>1. Step \in [1 .. N -> [Links(t) -> Links(t)]]
        BY <1>4
    <2> HIDE DEF Step, N
    <2> QED
        BY <1>1, <1>2, <2>1 DEF IsRecursion
<1>6. \A n \in Links(t), k \in 1 .. N : Step[k][n] = Behind(c, n)
    OBVIOUS
<1> HIDE DEF N, Step, start
<1>7. PICK g : Solves(g, N, Links(t), start, Step)
    BY <1>5, RecursionExists
<1>8. IsAt(g)
    <2>1. ASSUME NEW k \in 1 .. N
          PROVE  g[k] = Behind(c, g[k - 1])
        <3>1. g[k - 1] \in Links(t) /\ g[k] = Step[k][g[k - 1]]
            BY <1>1, <1>7 DEF Solves
        <3> QED
            BY <1>6, <3>1
    <2> QED
        BY <1>1, <1>7, <2>1 DEF Solves
<1>9. IsAt(at)
    BY <1>8
<1> HIDE DEF at
<1>10. at[0] = start
    BY <1>1, <1>9
<1>11. ASSUME NEW k \in 1 .. N
       PROVE  at[k] = Behind(c, at[k - 1])
    <2>1. k \in 0 .. N /\ k # 0
        BY <1>1
    <2> QED
        BY <1>9, <2>1, Zenon
<1> HIDE DEF L
<1> DEFINE A == {k \in 0 .. N : at[k] = IF k < L THEN list[k + 1] ELSE None}
<1>12. \A k \in 0 .. N : k \in A
    <2>1. 0 \in A
        BY <1>1, <1>2, <1>10 DEF start
    <2>2. ASSUME NEW k \in 1 .. N, k - 1 \in A
          PROVE  k \in A
        <3>1. at[k - 1] = IF k - 1 < L THEN list[(k - 1) + 1] ELSE None
            BY <2>2
        <3>2. CASE k - 1 < L
            <4>1. k \in 1 .. L /\ (k - 1) + 1 = k
                BY <1>1, <3>2
            <4>2. at[k - 1] = list[k] /\ list[k] # None
                BY <1>3, <3>1, <3>2, <4>1
            <4>3. at[k] = c.next[list[k]]
                BY <1>11, <4>2 DEF Behind
            <4> QED
                BY <1>1, <1>2, <4>1, <4>3
        <3>3. CASE ~(k - 1 < L)
            <4>1. at[k] = None
                BY <1>11, <3>1, <3>3 DEF Behind
            <4> QED
                BY <1>1, <3>3, <4>1
        <3> QED
            BY <3>2, <3>3
    <2> HIDE DEF A
    <2> QED
        BY <1>1, <2>1, <2>2, BoundedInduction
<1>13. \A k \in 0 .. N : at[k] # None <=> k < L
    <2> TAKE k \in 0 .. N
    <2>1. at[k] = IF k < L THEN list[k + 1] ELSE None
        BY <1>12
    <2>2. k < L => k + 1 \in 1 .. L
        BY <1>1
    <2> QED
        BY <1>3, <2>1, <2>2
<1>14. links = 0 .. (L - 1)
    BY <1>1, <1>13
<1>15. Cardinality(links) = L
    <2> HIDE DEF links
    <2>1. Cardinality(0 .. (L - 1)) = IF 0 > L - 1 THEN 0 ELSE (L - 1) - 0 + 1
        BY <1>1, FS_Interval
    <2> QED
        BY <1>1, <1>14, <2>1
<1>16. ListOf(c) = [k \in 1 .. Cardinality(links) |-> at[k - 1]]
    BY DEF ListOf, at, start, N
<1> HIDE DEF links
<1>17. \A k \in 1 .. L : at[k - 1] = list[k]
    <2> TAKE k \in 1 .. L
    <2>1. k - 1 \in 0 .. N /\ k - 1 < L /\ (k - 1) + 1 = k
        BY <1>1
    <2> QED
        BY <1>12, <2>1
<1>18. list = [k \in 1 .. L |-> list[k]]
    BY <1>2 DEF L
<1> QED
    BY <1>15, <1>16, <1>17, <1>18

\* What SWIG_TypeCheck looks for is found when it is there.
LEMMA LookupFinds ==
    ASSUME NEW t \in Names, NEW c, NEW list, GoodList(t, c, list), NEW name
    PROVE  \/ \E i \in 1 .. Len(list) : list[i][2] = name /\ Lookup(c, name) = list[i]
           \/ Lookup(c, name) = None /\ \A i \in 1 .. Len(list) : list[i][2] # name
<1> DEFINE N == Cardinality(DOMAIN c.next)
           L == Len(list)
           start == c.head
           Step == [k \in 1 .. N |-> [n \in Links(t) |-> Follow(c, name, n)]]
           IsAt(f) == f = [k \in 0 .. N |-> IF k = 0 THEN start ELSE Follow(c, name, f[k - 1])]
           at == CHOOSE f : IsAt(f)
<1>1. N \in Nat /\ L \in Nat /\ L <= N
    BY ListFits
<1>2. /\ c.head \in Links(t) /\ c.next \in [NodesOf[t] -> Links(t)] /\ list \in Seq(NodesOf[t])
      /\ c.head = IF L = 0 THEN None ELSE list[1]
      /\ \A i \in 1 .. L : c.next[list[i]] = IF i = L THEN None ELSE list[i + 1]
      /\ \A n \in NodesOf[t] : c.type[n][2] = n[2]
    BY DEF GoodList, IsList
<1>3. None \notin NodesOf[t] /\ \A i \in 1 .. L : list[i] \in NodesOf[t]
    BY <1>2, NodesAre
<1>4. \A n \in Links(t) : Follow(c, name, n) \in Links(t)
    BY <1>2 DEF Follow, Links
<1>5. IsRecursion(N, Links(t), start, Step)
    <2>1. Step \in [1 .. N -> [Links(t) -> Links(t)]]
        BY <1>4
    <2> HIDE DEF Step, N
    <2> QED
        BY <1>1, <1>2, <2>1 DEF IsRecursion
<1>6. \A n \in Links(t), k \in 1 .. N : Step[k][n] = Follow(c, name, n)
    OBVIOUS
<1> HIDE DEF N, Step, start
<1>7. PICK g : Solves(g, N, Links(t), start, Step)
    BY <1>5, RecursionExists
<1>8. IsAt(g)
    <2>1. ASSUME NEW k \in 1 .. N
          PROVE  g[k] = Follow(c, name, g[k - 1])
        <3>1. g[k - 1] \in Links(t) /\ g[k] = Step[k][g[k - 1]]
            BY <1>1, <1>7 DEF Solves
        <3> QED
            BY <1>6, <3>1
    <2> QED
        BY <1>1, <1>7, <2>1 DEF Solves
<1>9. IsAt(at)
    BY <1>8
<1> HIDE DEF at
<1>10. at[0] = start
    BY <1>1, <1>9
<1>11. ASSUME NEW k \in 1 .. N
       PROVE  at[k] = Follow(c, name, at[k - 1])
    <2>1. k \in 0 .. N /\ k # 0
        BY <1>1
    <2> QED
        BY <1>9, <2>1, Zenon
<1> HIDE DEF L
\* After k links: it has been found, or it is none of the first k.
<1> DEFINE Hit(n) == \E i \in 1 .. L : list[i][2] = name /\ n = list[i]
           Next0(k) == IF k < L THEN list[k + 1] ELSE None
           Missed(k) == \A i \in 1 .. L : i <= k => list[i][2] # name
           A == {k \in 0 .. N : Hit(at[k]) \/ (at[k] = Next0(k) /\ Missed(k))}
<1>12. \A k \in 0 .. N : k \in A
    <2>1. 0 \in A
        <3>1. at[0] = Next0(0)
            BY <1>1, <1>2, <1>10 DEF start
        <3>2. Missed(0)
            OBVIOUS
        <3> HIDE DEF Next0, Missed, Hit
        <3> QED
            BY <1>1, <3>1, <3>2
    <2>2. ASSUME NEW k \in 1 .. N, k - 1 \in A
          PROVE  k \in A
        <3>1. CASE Hit(at[k - 1])
            <4>1. PICK i \in 1 .. L : list[i][2] = name /\ at[k - 1] = list[i]
                BY <3>1
            <4>2. c.type[at[k - 1]][2] = name
                BY <1>2, <1>3, <4>1
            <4>3. at[k] = list[i]
                BY <1>11, <4>1, <4>2 DEF Follow
            <4>4. Hit(at[k])
                BY <4>1, <4>3
            <4> HIDE DEF Next0, Missed, Hit
            <4> QED
                BY <1>1, <4>4
        <3>2. CASE at[k - 1] = Next0(k - 1) /\ Missed(k - 1) /\ k - 1 < L
            <4>1. k \in 1 .. L /\ (k - 1) + 1 = k
                BY <1>1, <3>2
            <4>2. at[k - 1] = list[k] /\ list[k] # None /\ c.type[list[k]][2] = list[k][2]
                BY <1>2, <1>3, <3>2, <4>1
            <4>3. at[k] = IF list[k][2] = name THEN list[k] ELSE c.next[list[k]]
                BY <1>11, <4>2 DEF Follow
            <4>4. CASE list[k][2] = name
                <5>1. Hit(at[k])
                    BY <4>1, <4>3, <4>4
                <5> HIDE DEF Next0, Missed, Hit
                <5> QED
                    BY <1>1, <5>1
            <4>5. CASE list[k][2] # name
                <5>1. at[k] = Next0(k)
                    BY <1>1, <1>2, <4>1, <4>3, <4>5
                <5>2. Missed(k)
                    <6> TAKE i \in 1 .. L
                    <6> HAVE i <= k
                    <6>1. i = k \/ i <= k - 1
                        BY <1>1
                    <6> QED
                        BY <3>2, <4>5, <6>1
                <5> HIDE DEF Next0, Missed, Hit
                <5> QED
                    BY <1>1, <5>1, <5>2
            <4> QED
                BY <4>4, <4>5
        <3>3. CASE at[k - 1] = Next0(k - 1) /\ Missed(k - 1) /\ ~(k - 1 < L)
            <4>1. at[k] = None
                BY <1>11, <3>3 DEF Follow
            <4>2. at[k] = Next0(k)
                BY <1>1, <3>3, <4>1
            <4>3. Missed(k)
                BY <1>1, <3>3
            <4> HIDE DEF Next0, Missed, Hit
            <4> QED
                BY <1>1, <4>2, <4>3
        <3>4. Hit(at[k - 1]) \/ (at[k - 1] = Next0(k - 1) /\ Missed(k - 1))
            <4> HIDE DEF Next0, Missed, Hit
            <4> QED
                BY <2>2
        <3> HIDE DEF Next0, Missed, Hit, A
        <3> QED
            BY <3>1, <3>2, <3>3, <3>4
    <2> HIDE DEF A
    <2> QED
        BY <1>1, <2>1, <2>2, BoundedInduction
<1>13. Hit(at[N]) \/ (at[N] = None /\ \A i \in 1 .. L : list[i][2] # name)
    <2>1. Hit(at[N]) \/ (at[N] = Next0(N) /\ Missed(N))
        <3> HIDE DEF Next0, Missed, Hit
        <3> QED
            BY <1>1, <1>12
    <2>2. Next0(N) = None /\ \A i \in 1 .. L : i <= N
        BY <1>1
    <2> HIDE DEF Next0, Hit
    <2> QED
        BY <2>1, <2>2
<1>14. Lookup(c, name) = at[N]
    BY DEF Lookup, at, start, N
<1> QED
    BY <1>13, <1>14 DEF L

\* A node that was not in the list is put in front.
LEMMA InsertKeeps ==
    ASSUME NEW t \in Names, NEW c, NEW list, GoodList(t, c, list),
           NEW n \in NodesOf[t], \A i \in 1 .. Len(list) : list[i][2] # n[2]
    PROVE  GoodList(t, Insert(c, n), <<n>> \o list)
<1> DEFINE L == Len(list)
           d == Insert(c, n)
           longer == <<n>> \o list
<1>1. /\ c \in [head : Links(t), next : [NodesOf[t] -> Links(t)],
                prev : [NodesOf[t] -> Links(t)],
                type : [NodesOf[t] -> Modules \X Range(NameOrder)]]
      /\ list \in Seq(NodesOf[t]) /\ L \in Nat /\ \A i \in 1 .. L : list[i] \in NodesOf[t]
      /\ c.head = IF L = 0 THEN None ELSE list[1]
      /\ \A i \in 1 .. L : /\ c.next[list[i]] = IF i = L THEN None ELSE list[i + 1]
                           /\ c.prev[list[i]] = IF i = 1 THEN None ELSE list[i - 1]
      /\ \A k \in NodesOf[t] :
             /\ c.type[k][2] = k[2]
             /\ (\A i \in 1 .. L : list[i] # k) => c.next[k] = None /\ c.prev[k] = None
      /\ \A i, j \in 1 .. L : list[i][2] = list[j][2] => i = j
    BY DEF GoodList, IsList, OneEach
<1>2. /\ longer \in Seq(NodesOf[t]) /\ Len(longer) = L + 1 /\ longer[1] = n
      /\ \A i \in 2 .. L + 1 : longer[i] = list[i - 1]
    BY <1>1
<1>3. None \notin NodesOf[t] /\ n \in Links(t)
    BY NodesAre DEF Links
<1> HIDE DEF longer
<1>4. CASE L = 0
    <2>1. d = [c EXCEPT !.head = n] /\ c.next[n] = None /\ c.prev[n] = None
        BY <1>1, <1>4 DEF Insert
    <2> HIDE DEF d
    <2>2. d \in [head : Links(t), next : [NodesOf[t] -> Links(t)],
                 prev : [NodesOf[t] -> Links(t)],
                 type : [NodesOf[t] -> Modules \X Range(NameOrder)]]
        BY <1>1, <1>3, <2>1
    <2>3. d.head = n /\ d.next = c.next /\ d.prev = c.prev /\ d.type = c.type
        BY <1>1, <2>1
    <2>4. Len(longer) = 1
        BY <1>2, <1>4
    <2>5. \A i \in 1 .. Len(longer) :
              /\ d.next[longer[i]] = IF i = Len(longer) THEN None ELSE longer[i + 1]
              /\ d.prev[longer[i]] = IF i = 1 THEN None ELSE longer[i - 1]
        <3> TAKE i \in 1 .. Len(longer)
        <3>1. i = 1
            BY <2>4
        <3> QED
            BY <1>2, <2>1, <2>3, <2>4, <3>1
    <2>6. \A k \in NodesOf[t] :
              /\ d.type[k][2] = k[2]
              /\ (\A i \in 1 .. Len(longer) : longer[i] # k) => d.next[k] = None /\ d.prev[k] = None
        BY <1>1, <1>4, <2>3
    <2>7. IsList(t, d, longer)
        BY <1>2, <2>2, <2>3, <2>4, <2>5, <2>6 DEF IsList
    <2>8. OneEach(longer)
        BY <2>4 DEF OneEach
    <2> QED
        BY <2>7, <2>8 DEF GoodList, d, longer
<1>5. CASE L # 0
    <2> DEFINE h == list[1]
    <2>1. c.head = h /\ h # None /\ h \in NodesOf[t] /\ h # n /\ 1 \in 1 .. L
        BY <1>1, <1>3, <1>5
    <2>2. d = [c EXCEPT !.prev[h] = n, !.next[n] = h, !.head = n]
        BY <2>1 DEF Insert
    <2> HIDE DEF d, h
    <2>3. d \in [head : Links(t), next : [NodesOf[t] -> Links(t)],
                 prev : [NodesOf[t] -> Links(t)],
                 type : [NodesOf[t] -> Modules \X Range(NameOrder)]]
        BY <1>1, <1>3, <2>1, <2>2 DEF Links
    <2>4. d.head = n /\ d.next = [c.next EXCEPT ![n] = h]
          /\ d.prev = [c.prev EXCEPT ![h] = n] /\ d.type = c.type
        BY <1>1, <2>2
    <2>5. /\ d.next[n] = h /\ d.prev[h] = n
          /\ \A k \in NodesOf[t] : /\ k # n => d.next[k] = c.next[k]
                                   /\ k # h => d.prev[k] = c.prev[k]
        BY <1>1, <2>1, <2>4
    <2>6. \A i \in 1 .. L : list[i] # n /\ (i # 1 => list[i] # h)
        BY <1>1, <2>1 DEF h
    <2>7. \A i \in 1 .. L + 1 : d.next[longer[i]] = IF i = L + 1 THEN None ELSE longer[i + 1]
        <3> TAKE i \in 1 .. L + 1
        <3>1. CASE i = 1
            BY <1>1, <1>2, <1>5, <2>5, <3>1 DEF h
        <3>2. CASE i # 1
            <4>1. i \in 2 .. L + 1 /\ i - 1 \in 1 .. L
                BY <1>1, <3>2
            <4>2. longer[i] = list[i - 1]
                BY <1>2, <4>1
            <4>3. i # L + 1 => longer[i + 1] = list[(i - 1) + 1]
                <5> HAVE i # L + 1
                <5>1. i + 1 \in 2 .. L + 1 /\ (i + 1) - 1 = (i - 1) + 1
                    BY <1>1
                <5> QED
                    BY <1>2, <5>1
            <4>4. d.next[longer[i]] = c.next[list[i - 1]]
                BY <1>1, <2>5, <2>6, <4>1, <4>2
            <4>5. c.next[list[i - 1]] = IF i - 1 = L THEN None ELSE list[(i - 1) + 1]
                BY <1>1, <4>1
            <4>6. CASE i = L + 1
                <5>1. i - 1 = L
                    BY <1>1, <4>6
                <5> QED
                    BY <4>4, <4>5, <4>6, <5>1
            <4>7. CASE i # L + 1
                <5>1. i - 1 # L
                    BY <1>1, <4>7
                <5> QED
                    BY <4>3, <4>4, <4>5, <4>7, <5>1
            <4> QED
                BY <4>6, <4>7
        <3> QED
            BY <3>1, <3>2
    <2>8. \A i \in 1 .. L + 1 : d.prev[longer[i]] = IF i = 1 THEN None ELSE longer[i - 1]
        <3> TAKE i \in 1 .. L + 1
        <3>1. CASE i = 1
            BY <1>1, <1>2, <2>1, <2>5, <2>6, <3>1
        <3>2. CASE i = 2
            BY <1>1, <1>2, <2>5, <3>2 DEF h
        <3>3. CASE i # 1 /\ i # 2
            <4>1. i - 1 \in 1 .. L /\ i - 1 # 1
                BY <1>1, <3>3
            <4>2. longer[i] = list[i - 1] /\ longer[i - 1] = list[(i - 1) - 1]
                BY <1>1, <1>2, <3>3
            <4> QED
                BY <1>1, <2>5, <2>6, <3>3, <4>1, <4>2
        <3> QED
            BY <3>1, <3>2, <3>3
    <2>9. ASSUME NEW k \in NodesOf[t], \A i \in 1 .. L + 1 : longer[i] # k
          PROVE  d.next[k] = None /\ d.prev[k] = None
        <3>1. k # n /\ \A i \in 1 .. L : list[i] # k
            <4>1. 1 \in 1 .. L + 1
                BY <1>1
            <4>2. \A i \in 1 .. L : i + 1 \in 2 .. L + 1 /\ i + 1 \in 1 .. L + 1 /\ (i + 1) - 1 = i
                BY <1>1
            <4>3. \A i \in 1 .. L : longer[i + 1] = list[i]
                BY <1>2, <4>2
            <4> QED
                BY <1>2, <2>9, <4>1, <4>2, <4>3
        <3>2. k # h
            BY <2>1, <3>1 DEF h
        <3> QED
            BY <1>1, <2>5, <3>1, <3>2
    <2>10. IsList(t, d, longer)
        <3>1. d.head = IF Len(longer) = 0 THEN None ELSE longer[1]
            BY <1>1, <1>2, <2>4
        <3>2. \A k \in NodesOf[t] : d.type[k][2] = k[2]
            BY <1>1, <2>4
        <3> QED
            BY <1>2, <2>3, <2>7, <2>8, <2>9, <3>1, <3>2 DEF IsList
    <2>11. OneEach(longer)
        <3> SUFFICES ASSUME NEW i \in 1 .. L + 1, NEW j \in 1 .. L + 1,
                            longer[i][2] = longer[j][2]
                     PROVE  i = j
            BY <1>2 DEF OneEach
        <3>1. \A q \in 2 .. L + 1 : q - 1 \in 1 .. L /\ longer[q] = list[q - 1]
            BY <1>1, <1>2
        <3>2. \A q \in 2 .. L + 1 : longer[q][2] # longer[1][2]
            BY <1>2, <3>1
        <3>4. CASE i = 1 \/ j = 1
            <4>1. i \in 2 .. L + 1 \/ i = 1
                BY <1>1
            <4>2. j \in 2 .. L + 1 \/ j = 1
                BY <1>1
            <4> QED
                BY <3>2, <3>4, <4>1, <4>2
        <3>3. CASE i # 1 /\ j # 1
            <4>1. i \in 2 .. L + 1 /\ j \in 2 .. L + 1
                BY <1>1, <3>3
            <4>2. i - 1 = j - 1
                BY <1>1, <3>1, <4>1
            <4> QED
                BY <4>1, <4>2
        <3> QED
            BY <3>3, <3>4
    <2> QED
        BY <2>10, <2>11 DEF GoodList, d, longer
<1> QED
    BY <1>4, <1>5

\* A node that is found behind the head goes to the head.
LEMMA ToHeadKeeps ==
    ASSUME NEW t \in Names, NEW c, NEW list, GoodList(t, c, list), NEW p \in 2 .. Len(list)
    PROVE  GoodList(t, ToHead(c, list[p]), [i \in 1 .. Len(list) |->
               IF i = 1 THEN list[p] ELSE IF i <= p THEN list[i - 1] ELSE list[i]])
<1> DEFINE L == Len(list)
           n == list[p]
           h == list[1]
           q == list[p - 1]
           f == IF p = L THEN None ELSE list[p + 1]
           d == ToHead(c, n)
           moved == [i \in 1 .. L |-> IF i = 1 THEN n ELSE IF i <= p THEN list[i - 1] ELSE list[i]]
<1>1. /\ c \in [head : Links(t), next : [NodesOf[t] -> Links(t)],
                prev : [NodesOf[t] -> Links(t)],
                type : [NodesOf[t] -> Modules \X Range(NameOrder)]]
      /\ list \in Seq(NodesOf[t]) /\ L \in Nat /\ \A i \in 1 .. L : list[i] \in NodesOf[t]
      /\ c.head = IF L = 0 THEN None ELSE list[1]
      /\ \A i \in 1 .. L : /\ c.next[list[i]] = IF i = L THEN None ELSE list[i + 1]
                           /\ c.prev[list[i]] = IF i = 1 THEN None ELSE list[i - 1]
      /\ \A k \in NodesOf[t] :
             /\ c.type[k][2] = k[2]
             /\ (\A i \in 1 .. L : list[i] # k) => c.next[k] = None /\ c.prev[k] = None
      /\ \A i, j \in 1 .. L : list[i][2] = list[j][2] => i = j
    BY DEF GoodList, IsList, OneEach
<1>2. None \notin NodesOf[t]
    BY NodesAre
<1>3. /\ p \in 1 .. L /\ p - 1 \in 1 .. L /\ 1 \in 1 .. L /\ p \in Int /\ p >= 2 /\ p <= L
      /\ p # L => p + 1 \in 1 .. L
    BY <1>1
<1>4. /\ n \in NodesOf[t] /\ h \in NodesOf[t] /\ q \in NodesOf[t] /\ f \in Links(t)
      /\ c.prev[n] = q /\ c.next[n] = f /\ c.head = h
    BY <1>1, <1>3 DEF Links
<1>5. \A i, j \in 1 .. L : list[i] = list[j] => i = j
    BY <1>1
<1> DEFINE prev0 == [m \in NodesOf[t] |-> IF m = f THEN q ELSE c.prev[m]]
<1>6. d = [c EXCEPT !.next = [@ EXCEPT ![q] = f, ![n] = h],
                    !.prev = [prev0 EXCEPT ![n] = None, ![h] = n],
                    !.head = n]
    <2>1. /\ [m \in DOMAIN c.prev |-> IF m = c.next[n] THEN c.prev[n] ELSE c.prev[m]] = prev0
          /\ c.prev[n] = q /\ c.next[n] = f /\ c.head = h
        <3> HIDE DEF n, h, q, f
        <3> QED
            BY <1>1, <1>4
    <2> HIDE DEF prev0, n, h, q, f
    <2> QED
        BY <2>1 DEF ToHead, d
<1> HIDE DEF d
<1>7. /\ d.head = n /\ d.type = c.type
      /\ d.next = [c.next EXCEPT ![q] = f, ![n] = h]
      /\ d.prev = [prev0 EXCEPT ![n] = None, ![h] = n]
    BY <1>1, <1>6
<1>8. prev0 \in [NodesOf[t] -> Links(t)]
    BY <1>1, <1>4 DEF Links
<1>9. d \in [head : Links(t), next : [NodesOf[t] -> Links(t)], prev : [NodesOf[t] -> Links(t)],
             type : [NodesOf[t] -> Modules \X Range(NameOrder)]]
    <2> HIDE DEF n, h, q, f, prev0
    <2>1. None \in Links(t) /\ n \in Links(t) /\ h \in Links(t)
        BY <1>4 DEF Links
    <2>2. d.next \in [NodesOf[t] -> Links(t)]
        BY <1>1, <1>4, <1>7, <2>1
    <2>3. d.prev \in [NodesOf[t] -> Links(t)]
        BY <1>4, <1>7, <1>8, <2>1
    <2>4. d = [head |-> n, next |-> d.next, prev |-> d.prev, type |-> c.type]
        BY <1>1, <1>6
    <2> QED
        BY <1>1, <2>1, <2>2, <2>3, <2>4
<1>10. \A k \in NodesOf[t] :
           /\ d.next[k] = IF k = n THEN h ELSE IF k = q THEN f ELSE c.next[k]
           /\ d.prev[k] = IF k = h THEN n ELSE IF k = n THEN None ELSE prev0[k]
    <2> HIDE DEF n, h, q, f, prev0
    <2> QED
        BY <1>1, <1>4, <1>7, <1>8
<1>11. /\ h # n /\ q # n /\ (p # L => f = list[p + 1])
       /\ \A i \in 1 .. L : /\ list[i] = n <=> i = p
                            /\ list[i] = h <=> i = 1
                            /\ list[i] = q <=> i = p - 1
                            /\ list[i] = f <=> i = p + 1
    <2>1. \A i \in 1 .. L : list[i] # None
        BY <1>1, <1>2
    <2> QED
        BY <1>3, <1>5, <2>1
<1>12. \A j \in 1 .. L : d.next[list[j]] = IF j = p THEN list[1]
                                          ELSE IF j = p - 1 THEN f
                                          ELSE IF j = L THEN None ELSE list[j + 1]
    <2> TAKE j \in 1 .. L
    <2>1. list[j] \in NodesOf[t] /\ c.next[list[j]] = IF j = L THEN None ELSE list[j + 1]
        BY <1>1
    <2> HIDE DEF f
    <2> QED
        BY <1>10, <1>11, <2>1 DEF h
<1>13. \A j \in 1 .. L : d.prev[list[j]] = IF j = 1 THEN n
                                          ELSE IF j = p THEN None
                                          ELSE IF j = p + 1 THEN q ELSE list[j - 1]
    <2> TAKE j \in 1 .. L
    <2>1. list[j] \in NodesOf[t] /\ c.prev[list[j]] = IF j = 1 THEN None ELSE list[j - 1]
        BY <1>1
    <2>2. prev0[list[j]] = IF list[j] = f THEN q ELSE c.prev[list[j]]
        BY <2>1
    <2> HIDE DEF f, prev0, q, n
    <2> QED
        BY <1>10, <1>11, <2>1, <2>2
<1>14. /\ moved \in Seq(NodesOf[t]) /\ Len(moved) = L /\ moved[1] = n
       /\ \A i \in 2 .. L : moved[i] = IF i <= p THEN list[i - 1] ELSE list[i]
    <2>1. \A i \in 1 .. L : moved[i] \in NodesOf[t]
        <3> TAKE i \in 1 .. L
        <3>1. i = 1 \/ (i # 1 /\ i <= p /\ i - 1 \in 1 .. L) \/ (i # 1 /\ ~(i <= p))
            BY <1>1
        <3> HIDE DEF n
        <3> QED
            BY <1>1, <1>4, <3>1
    <2>2. moved \in Seq(NodesOf[t]) /\ Len(moved) = L
        <3>1. moved = [i \in 1 .. L |-> moved[i]]
            OBVIOUS
        <3> HIDE DEF moved
        <3>2. moved \in [1 .. L -> NodesOf[t]]
            BY <2>1, <3>1
        <3>3. L \in Nat
            BY <1>1
        <3> HIDE DEF L
        <3> QED
            BY <3>2, <3>3, FunctionIsSeq
    <2> QED
        BY <1>3, <2>2
<1> HIDE DEF moved
<1>15. \A i \in 1 .. L : d.next[moved[i]] = IF i = L THEN None ELSE moved[i + 1]
    <2> TAKE i \in 1 .. L
    <2>1. CASE i = 1
        <3>1. moved[2] = list[1] /\ d.next[n] = list[1] /\ i # L
            <4>1. 2 \in 2 .. L /\ 2 <= p /\ 2 - 1 = 1 /\ L # 1
                BY <1>1, <1>3
            <4> QED
                BY <1>3, <1>12, <1>14, <2>1, <4>1
        <3> QED
            BY <1>14, <2>1, <3>1
    <2>2. CASE i # 1 /\ i < p
        <3>1. i \in 2 .. L /\ i + 1 \in 2 .. L /\ i - 1 \in 1 .. L /\ (i + 1) - 1 = i
              /\ i # L /\ (i - 1) + 1 = i /\ i - 1 # p /\ i - 1 # p - 1 /\ i - 1 # L
              /\ i <= p /\ i + 1 <= p
            BY <1>1, <1>3, <2>2
        <3>2. moved[i] = list[i - 1] /\ moved[i + 1] = list[i]
            BY <1>14, <3>1
        <3> QED
            BY <1>12, <3>1, <3>2
    <2>3. CASE i = p
        <3>1. p \in 2 .. L /\ p - 1 \in 1 .. L /\ p - 1 # p /\ p <= p
              /\ (p # L => p + 1 \in 2 .. L /\ ~(p + 1 <= p))
            BY <1>1, <1>3
        <3>2. moved[p] = list[p - 1] /\ (p # L => moved[p + 1] = list[p + 1])
            BY <1>14, <3>1
        <3> QED
            BY <1>12, <2>3, <3>1, <3>2
    <2>4. CASE i > p
        <3>1. i \in 2 .. L /\ ~(i <= p) /\ i # p /\ i # p - 1
              /\ (i # L => i + 1 \in 2 .. L /\ ~(i + 1 <= p))
            BY <1>1, <1>3, <2>4
        <3>2. moved[i] = list[i] /\ (i # L => moved[i + 1] = list[i + 1])
            BY <1>14, <3>1
        <3> QED
            BY <1>12, <3>1, <3>2
    <2> QED
        BY <1>3, <2>1, <2>2, <2>3, <2>4
<1>16. \A i \in 1 .. L : d.prev[moved[i]] = IF i = 1 THEN None ELSE moved[i - 1]
    <2> TAKE i \in 1 .. L
    <2>1. CASE i = 1
        <3>1. p # 1 /\ d.prev[n] = None
            BY <1>3, <1>13
        <3> QED
            BY <1>14, <2>1, <3>1
    <2>2. CASE i = 2
        <3>1. moved[2] = list[1] /\ 2 - 1 = 1
            <4>1. 2 \in 2 .. L /\ 2 <= p /\ 2 - 1 = 1
                BY <1>1, <1>3
            <4> QED
                BY <1>14, <4>1
        <3> QED
            BY <1>3, <1>13, <1>14, <2>2, <3>1
    <2>3. CASE i # 1 /\ i # 2 /\ i <= p
        <3>1. i \in 2 .. L /\ i - 1 \in 2 .. L /\ i - 1 \in 1 .. L /\ i - 1 <= p
              /\ i - 1 # 1 /\ i - 1 # p /\ i - 1 # p + 1
            BY <1>1, <1>3, <2>3
        <3>2. moved[i] = list[i - 1] /\ moved[i - 1] = list[(i - 1) - 1]
            BY <1>14, <2>3, <3>1
        <3> QED
            BY <1>13, <2>3, <3>1, <3>2
    <2>4. CASE i = p + 1
        <3>1. i \in 2 .. L /\ p \in 2 .. L /\ ~(i <= p) /\ p <= p /\ i - 1 = p
              /\ i # 1 /\ i # p
            BY <1>1, <1>3, <2>4
        <3>2. moved[i] = list[i] /\ moved[i - 1] = list[p - 1]
            BY <1>14, <3>1
        <3> QED
            BY <1>13, <2>4, <3>1, <3>2
    <2>5. CASE i > p + 1
        <3>1. i \in 2 .. L /\ i - 1 \in 2 .. L /\ ~(i <= p) /\ ~(i - 1 <= p)
              /\ i # 1 /\ i # p /\ i # p + 1
            BY <1>1, <1>3, <2>5
        <3>2. moved[i] = list[i] /\ moved[i - 1] = list[i - 1]
            BY <1>14, <3>1
        <3> QED
            BY <1>13, <3>1, <3>2
    <2> QED
        BY <1>3, <2>1, <2>2, <2>3, <2>4, <2>5
\* Where the nodes of the list are now.
<1>17. \A j \in 1 .. L : \E i \in 1 .. L : moved[i] = list[j]
    <2> TAKE j \in 1 .. L
    <2>1. CASE j = p
        BY <1>3, <1>14, <2>1
    <2>2. CASE j < p
        <3>1. j + 1 \in 2 .. L /\ j + 1 \in 1 .. L /\ j + 1 <= p /\ (j + 1) - 1 = j
            BY <1>1, <1>3, <2>2
        <3>2. moved[j + 1] = list[j]
            BY <1>14, <3>1
        <3> QED
            BY <3>1, <3>2
    <2>3. CASE j > p
        <3>1. j \in 2 .. L /\ ~(j <= p)
            BY <1>1, <1>3, <2>3
        <3> QED
            BY <1>14, <3>1
    <2> QED
        BY <1>3, <2>1, <2>2, <2>3
<1>18. \A k \in NodesOf[t] : (\A i \in 1 .. L : moved[i] # k) => d.next[k] = None /\ d.prev[k] = None
    <2> SUFFICES ASSUME NEW k \in NodesOf[t], \A i \in 1 .. L : moved[i] # k
                 PROVE  d.next[k] = None /\ d.prev[k] = None
        OBVIOUS
    <2>1. \A j \in 1 .. L : list[j] # k
        BY <1>17
    <2>2. k # n /\ k # h /\ k # q /\ k # f
        <3>1. k # None
            BY <1>2
        <3> QED
            BY <1>3, <2>1, <3>1
    <2>3. prev0[k] = c.prev[k] /\ c.next[k] = None /\ c.prev[k] = None
        BY <1>1, <2>1, <2>2
    <2> HIDE DEF n, h, q, f, prev0
    <2> QED
        BY <1>10, <2>2, <2>3
<1>19. OneEach(moved)
    <2> SUFFICES ASSUME NEW i \in 1 .. L, NEW j \in 1 .. L, moved[i][2] = moved[j][2]
                 PROVE  i = j
        BY <1>14 DEF OneEach
    <2> DEFINE at(a) == IF a = 1 THEN p ELSE IF a <= p THEN a - 1 ELSE a
    <2>1. \A a \in 1 .. L : at(a) \in 1 .. L /\ moved[a] = list[at(a)]
        <3> TAKE a \in 1 .. L
        <3>1. a = 1 \/ a \in 2 .. L
            BY <1>1
        <3> QED
            BY <1>1, <1>3, <1>14, <3>1
    <2>2. at(i) = at(j)
        <3>1. \A a, b \in 1 .. L : list[a][2] = list[b][2] => a = b
            BY <1>1
        <3> HIDE DEF at
        <3>2. at(i) \in 1 .. L /\ at(j) \in 1 .. L /\ list[at(i)][2] = list[at(j)][2]
            BY <2>1
        <3> QED
            BY <3>1, <3>2
    <2> QED
        BY <1>3, <2>2
<1>20. d.head = IF L = 0 THEN None ELSE moved[1]
    BY <1>3, <1>7, <1>14
<1>21. \A k \in NodesOf[t] : d.type[k][2] = k[2]
    BY <1>1, <1>7
<1>22. IsList(t, d, moved)
    <2> HIDE DEF n, L
    <2> QED
        BY <1>9, <1>14, <1>15, <1>16, <1>18, <1>20, <1>21 DEF IsList
<1> QED
    BY <1>19, <1>22 DEF GoodList, d, moved

\* Looking a name up rearranges the list at most.
Rearranged(list, moved) ==
    /\ Len(moved) = Len(list)
    /\ \A i \in 1 .. Len(list) : \E j \in 1 .. Len(list) : moved[i] = list[j]
    /\ \A j \in 1 .. Len(list) : \E i \in 1 .. Len(list) : moved[i] = list[j]

LEMMA CheckedKeeps ==
    ASSUME NEW t \in Names, NEW c, NEW list, GoodList(t, c, list), NEW name
    PROVE  \E moved : GoodList(t, Checked(c, name), moved) /\ Rearranged(list, moved)
<1> DEFINE n == Lookup(c, name)
           L == Len(list)
<1>1. /\ c.head = IF L = 0 THEN None ELSE list[1]
      /\ L \in Nat
    BY DEF GoodList, IsList
<1>2. CASE n = None \/ n = c.head
    <2>1. Checked(c, name) = c
        BY <1>2 DEF Checked
    <2>2. Rearranged(list, list)
        BY DEF Rearranged
    <2> QED
        BY <2>1, <2>2
<1>3. CASE n # None /\ n # c.head
    <2>1. PICK p \in 1 .. L : n = list[p]
        <3> HIDE DEF L
        <3> QED
            BY <1>3, LookupFinds DEF L
    <2>2. p \in 2 .. L /\ p \in 1 .. L
        BY <1>1, <1>3, <2>1
    <2> DEFINE moved == [i \in 1 .. L |->
                            IF i = 1 THEN list[p] ELSE IF i <= p THEN list[i - 1] ELSE list[i]]
    <2>3. Checked(c, name) = ToHead(c, list[p])
        BY <1>3, <2>1 DEF Checked
    <2>4. GoodList(t, Checked(c, name), moved)
        BY <2>2, <2>3, ToHeadKeeps
    <2>5. Len(moved) = L
        BY <1>1
    <2>6. \A i \in 1 .. L : \E j \in 1 .. L : moved[i] = list[j]
        <3> TAKE i \in 1 .. L
        <3>1. i = 1 \/ (i # 1 /\ i <= p /\ i - 1 \in 1 .. L) \/ (i # 1 /\ ~(i <= p))
            BY <1>1
        <3> QED
            BY <2>2, <3>1
    <2>7. \A j \in 1 .. L : \E i \in 1 .. L : moved[i] = list[j]
        <3> TAKE j \in 1 .. L
        <3>1. CASE j = p
            <4>1. moved[1] = list[p] /\ 1 \in 1 .. L
                BY <1>1, <2>2
            <4> QED
                BY <3>1, <4>1
        <3>2. CASE j < p
            <4>1. j + 1 \in 1 .. L /\ j + 1 # 1 /\ j + 1 <= p /\ (j + 1) - 1 = j
                BY <1>1, <2>2, <3>2
            <4>2. moved[j + 1] = list[j]
                BY <4>1
            <4> QED
                BY <4>1, <4>2
        <3>3. CASE j > p
            <4>1. j # 1 /\ ~(j <= p)
                BY <1>1, <2>2, <3>3
            <4>2. moved[j] = list[j]
                BY <4>1
            <4> QED
                BY <4>2
        <3> QED
            BY <2>2, <3>1, <3>2, <3>3
    <2> HIDE DEF moved
    <2>8. Rearranged(list, moved)
        BY <2>5, <2>6, <2>7 DEF Rearranged
    <2> QED
        BY <2>4, <2>8
<1> QED
    BY <1>2, <1>3

\* The names of a list, and that its nodes are of modules in a set.
NamesIn(list) == {list[i][2] : i \in 1 .. Len(list)}
MadeBy(list, ms) == \A i \in 1 .. Len(list) : list[i][1] \in ms

LEMMA RearrangedSame ==
    ASSUME NEW list, NEW moved, Rearranged(list, moved), NEW ms, MadeBy(list, ms)
    PROVE  NamesIn(moved) = NamesIn(list) /\ MadeBy(moved, ms)
<1>1. \A x : x \in NamesIn(moved) <=> \E i \in 1 .. Len(list) : x = moved[i][2]
    BY DEF NamesIn, Rearranged
<1>2. \A x : x \in NamesIn(list) <=> \E i \in 1 .. Len(list) : x = list[i][2]
    BY DEF NamesIn
<1>3. \A x : x \in NamesIn(moved) <=> x \in NamesIn(list)
    <2> TAKE x
    <2>1. ASSUME x \in NamesIn(moved)
          PROVE  x \in NamesIn(list)
        <3>1. PICK i \in 1 .. Len(list) : x = moved[i][2]
            BY <1>1, <2>1
        <3>2. PICK j \in 1 .. Len(list) : moved[i] = list[j]
            BY DEF Rearranged
        <3> QED
            BY <1>2, <3>1, <3>2
    <2>2. ASSUME x \in NamesIn(list)
          PROVE  x \in NamesIn(moved)
        <3>1. PICK j \in 1 .. Len(list) : x = list[j][2]
            BY <1>2, <2>2
        <3>2. PICK i \in 1 .. Len(list) : moved[i] = list[j]
            BY DEF Rearranged
        <3> QED
            BY <1>1, <3>1, <3>2
    <2> QED
        BY <2>1, <2>2
<1>4. MadeBy(moved, ms)
    BY DEF MadeBy, Rearranged
<1> QED
    BY <1>3, <1>4

LEMMA InsertedHas ==
    ASSUME NEW S, NEW list \in Seq(S), NEW n \in S, NEW ms, MadeBy(list, ms), n[1] \in ms
    PROVE  NamesIn(<<n>> \o list) = NamesIn(list) \cup {n[2]} /\ MadeBy(<<n>> \o list, ms)
<1> DEFINE L == Len(list)
           longer == <<n>> \o list
<1>1. /\ L \in Nat /\ Len(longer) = L + 1 /\ longer[1] = n
      /\ \A i \in 1 .. L : longer[i + 1] = list[i] /\ i + 1 \in 1 .. L + 1
      /\ \A i \in 1 .. L + 1 : i = 1 \/ (i - 1 \in 1 .. L /\ longer[i] = list[i - 1])
      /\ 1 \in 1 .. L + 1
    OBVIOUS
<1> HIDE DEF L, longer
<1>2. \A x : x \in NamesIn(longer) <=> \E i \in 1 .. L + 1 : x = longer[i][2]
    BY <1>1 DEF NamesIn
<1>3. \A x : x \in NamesIn(list) <=> \E i \in 1 .. L : x = list[i][2]
    BY DEF NamesIn, L
<1>4. \A x : x \in NamesIn(longer) <=> x \in NamesIn(list) \/ x = n[2]
    <2> TAKE x
    <2>1. ASSUME x \in NamesIn(longer)
          PROVE  x \in NamesIn(list) \/ x = n[2]
        <3>1. PICK i \in 1 .. L + 1 : x = longer[i][2]
            BY <1>2, <2>1
        <3> QED
            BY <1>1, <1>3, <3>1
    <2>2. ASSUME x \in NamesIn(list) \/ x = n[2]
          PROVE  x \in NamesIn(longer)
        <3>1. CASE x = n[2]
            BY <1>1, <1>2, <3>1
        <3>2. CASE x \in NamesIn(list)
            <4>1. PICK i \in 1 .. L : x = list[i][2]
                BY <1>3, <3>2
            <4>2. i + 1 \in 1 .. L + 1 /\ x = longer[i + 1][2]
                BY <1>1, <4>1
            <4> QED
                BY <1>2, <4>2
        <3> QED
            BY <2>2, <3>1, <3>2
    <2> QED
        BY <2>1, <2>2
<1>5. MadeBy(longer, ms)
    BY <1>1 DEF MadeBy, L
<1> QED
    BY <1>4, <1>5 DEF longer

LEMMA EmptyList ==
    ASSUME NEW t \in Names, NEW ms
    PROVE  GoodList(t, NoCasts(t), <<>>) /\ NamesIn(<<>>) = {} /\ MadeBy(<<>>, ms)
<1>1. \A n \in NodesOf[t] : n \in Modules \X Range(NameOrder)
    BY NodesAre DEF Names
<1>2. NoCasts(t) \in [head : Links(t), next : [NodesOf[t] -> Links(t)],
                      prev : [NodesOf[t] -> Links(t)],
                      type : [NodesOf[t] -> Modules \X Range(NameOrder)]]
    BY <1>1 DEF NoCasts, Links
<1>3. IsList(t, NoCasts(t), <<>>)
    BY <1>2 DEF IsList, NoCasts
<1> QED
    BY <1>3 DEF GoodList, OneEach, NamesIn, MadeBy

-----------------------------------------------------------------------------
(***************************************************************************)
(* The casts of a module.                                                  *)
(***************************************************************************)
\* c is a list with a node of the modules ms for each of the names.
HasNames(t, c, ms, names) ==
    \E list : GoodList(t, c, list) /\ MadeBy(list, ms) /\ NamesIn(list) = names

LEMMA AddCastKeeps ==
    ASSUME StructuresKept, NEW m \in Modules, NEW t \in Declared(m),
           NEW x \in Range(CastsTo[m][t]), NEW own \in BOOLEAN, NEW c, NEW names,
           HasNames(t, c, Loaded \cup {m}, names),
           own \/ (\A k \in Loaded : x \notin Declared(k)) => x \notin names
    PROVE  HasNames(t, AddCast(m, own, c, <<m, x>>), Loaded \cup {m}, names \cup {x})
<1> DEFINE ms == Loaded \cup {m}
           n == <<m, x>>
           ret == Query(Others(m), x)
<1>1. PICK list : GoodList(t, c, list) /\ MadeBy(list, ms) /\ NamesIn(list) = names
    BY DEF HasNames
<1>2. t \in Names /\ x \in Names /\ n \in NodesOf[t] /\ n[1] = m /\ n[2] = x /\ m \in ms
    <2>1. t \in Names
        BY Arrays
    <2>2. n \in NodesOf[t]
        BY <2>1, NodesAre
    <2>3. n \in Modules \X Names
        BY <2>1, <2>2, NodesAre
    <2> QED
        BY <2>1, <2>2, <2>3
<1>3. list \in Seq(NodesOf[t])
    BY <1>1 DEF GoodList, IsList
<1>4. ret # None => ret \in Modules \X Names /\ ret[2] = x
    <2> HAVE ret # None
    <2>1. PICK k \in Loaded : x \in Declared(k)
        BY <1>2, QueryGives
    <2>2. ret = TypeOf(k, x)
        BY <1>2, <2>1, QueryGives
    <2>3. PICK j \in Loaded : TypeOf(k, x) = <<j, x>>
        BY <2>1 DEF StructuresKept
    <2>4. j \in Modules
        BY LoadedAre DEF StructuresKept
    <2> QED
        BY <1>2, <2>2, <2>3, <2>4
<1>5. ret = None => \A k \in Loaded : x \notin Declared(k)
    <2> SUFFICES ASSUME NEW k \in Loaded, x \in Declared(k) PROVE ret # None
        OBVIOUS
    <2>1. ret = TypeOf(k, x)
        BY <1>2, QueryGives
    <2>2. PICK j \in Loaded : TypeOf(k, x) = <<j, x>>
        BY DEF StructuresKept
    <2>3. j \in Modules
        BY LoadedAre DEF StructuresKept
    <2> QED
        BY <1>2, <2>1, <2>2, <2>3, TypesAssumption DEF Names
<1> HIDE DEF ms, ret
<1>6. ASSUME NEW d, GoodList(t, d, list), x \notin names
      PROVE  HasNames(t, Insert(d, n), ms, names \cup {x})
    <2>1. \A i \in 1 .. Len(list) : list[i][2] # n[2]
        BY <1>1, <1>2, <1>6 DEF NamesIn
    <2> HIDE DEF n
    <2>2. GoodList(t, Insert(d, n), <<n>> \o list)
        BY <1>2, <1>6, <2>1, InsertKeeps
    <2>3. NamesIn(<<n>> \o list) = names \cup {x} /\ MadeBy(<<n>> \o list, ms)
        BY <1>1, <1>2, <1>3, InsertedHas
    <2> QED
        BY <2>2, <2>3 DEF HasNames
<1>7. CASE ret # None /\ own
    <2> DEFINE d == [c EXCEPT !.type[n] = ret]
    <2>1. GoodList(t, d, list)
        <3>1. /\ c \in [head : Links(t), next : [NodesOf[t] -> Links(t)],
                        prev : [NodesOf[t] -> Links(t)],
                        type : [NodesOf[t] -> Modules \X Range(NameOrder)]]
              /\ \A k \in NodesOf[t] : c.type[k][2] = k[2]
            BY <1>1 DEF GoodList, IsList
        <3>2. d = [c EXCEPT !.type = [@ EXCEPT ![n] = ret]] /\ n \in NodesOf[t]
            BY <1>2
        <3> HIDE DEF n, d
        <3>3. /\ d.head = c.head /\ d.next = c.next /\ d.prev = c.prev
              /\ d.type = [c.type EXCEPT ![n] = ret]
              /\ d = [head |-> c.head, next |-> c.next, prev |-> c.prev, type |-> d.type]
            BY <3>1, <3>2
        <3>4. d.type \in [NodesOf[t] -> Modules \X Range(NameOrder)]
            BY <1>4, <1>7, <3>1, <3>2, <3>3 DEF Names
        <3>5. \A k \in NodesOf[t] : d.type[k][2] = k[2]
            BY <1>2, <1>4, <1>7, <3>1, <3>3
        <3>6. d \in [head : Links(t), next : [NodesOf[t] -> Links(t)],
                     prev : [NodesOf[t] -> Links(t)],
                     type : [NodesOf[t] -> Modules \X Range(NameOrder)]]
            BY <3>1, <3>3, <3>4
        <3>7. IsList(t, c, list) /\ OneEach(list)
            BY <1>1 DEF GoodList
        <3>8. IsList(t, d, list)
            BY <3>3, <3>5, <3>6, <3>7 DEF IsList
        <3> QED
            BY <3>7, <3>8 DEF GoodList
    <2>2. AddCast(m, own, c, n) = Insert(d, n)
        BY <1>2, <1>7 DEF AddCast, ret
    <2> HIDE DEF d, n
    <2>3. HasNames(t, Insert(d, n), ms, names \cup {x})
        BY <1>6, <1>7, <2>1
    <2> QED
        BY <2>2, <2>3 DEF ms, n
<1>8. CASE ret # None /\ ~own /\ Lookup(c, x) # None
    <2>1. AddCast(m, own, c, n) = Checked(c, x)
        BY <1>2, <1>8 DEF AddCast, ret
    <2>2. PICK moved : GoodList(t, Checked(c, x), moved) /\ Rearranged(list, moved)
        BY <1>1, <1>2, CheckedKeeps
    <2>3. NamesIn(moved) = names /\ MadeBy(moved, ms)
        BY <1>1, <2>2, RearrangedSame
    <2>4. x \in names
        BY <1>1, <1>2, <1>8, LookupFinds DEF NamesIn
    <2> QED
        BY <2>1, <2>2, <2>3, <2>4 DEF HasNames, ms, n
<1>9. CASE ret = None \/ (~own /\ Lookup(c, x) = None)
    <2>1. AddCast(m, own, c, n) = Insert(c, n)
        BY <1>2, <1>9 DEF AddCast, ret
    <2>2. x \notin names
        <3>1. CASE ret = None
            BY <1>5, <3>1
        <3>2. CASE Lookup(c, x) = None
            <4>1. \A i \in 1 .. Len(list) : list[i][2] # x
                <5>1. \A i \in 1 .. Len(list) : list[i] # None
                    BY <1>2, <1>3, NodesAre
                <5> QED
                    BY <1>1, <1>2, <3>2, <5>1, LookupFinds
            <4> QED
                BY <1>1, <4>1 DEF NamesIn
        <3> QED
            BY <1>9, <3>1, <3>2
    <2> HIDE DEF n
    <2>3. HasNames(t, Insert(c, n), ms, names \cup {x})
        BY <1>1, <1>6, <2>2
    <2> QED
        BY <2>1, <2>3 DEF ms, n
<1> QED
    BY <1>7, <1>8, <1>9

\* The names of the first k casts.
Upto(from, k) == {from[i] : i \in 1 .. k}

Lists(t) == [head : Links(t), next : [NodesOf[t] -> Links(t)], prev : [NodesOf[t] -> Links(t)],
             type : [NodesOf[t] -> Modules \X Range(NameOrder)]]

\* What m may add its casts to: its own structure, when it is empty, or one that has names of
\* modules loaded.
MayAdd(m, t, own, c, names) ==
    /\ m \in Modules /\ t \in Declared(m) /\ own \in BOOLEAN
    /\ HasNames(t, c, Loaded \cup {m}, names)
    /\ own => names = {}
    /\ \A x \in names : \E k \in Loaded : x \in Declared(k)

\* f adds the casts one by one, as far as lists come of it.
Adds(f, m, t, own, c) ==
    /\ f[0] = c
    /\ \A k \in 1 .. Len(CastsTo[m][t]) :
           AddCast(m, own, f[k - 1], <<m, CastsTo[m][t][k]>>) \in Lists(t)
               => f[k] = AddCast(m, own, f[k - 1], <<m, CastsTo[m][t][k]>>)
Added(f, m, t, own, names) ==
    \A k \in 0 .. Len(CastsTo[m][t]) :
        /\ HasNames(t, f[k], Loaded \cup {m}, names \cup Upto(CastsTo[m][t], k))
        /\ k # 0 => f[k] = AddCast(m, own, f[k - 1], <<m, CastsTo[m][t][k]>>)

LEMMA StepsKeep ==
    ASSUME StructuresKept, NEW m, NEW t, NEW own, NEW c, NEW names, MayAdd(m, t, own, c, names),
           NEW f, Adds(f, m, t, own, c)
    PROVE  Added(f, m, t, own, names)
<1> USE DEF MayAdd, Adds
<1> DEFINE from == CastsTo[m][t]
           N == Len(from)
           Holds(k) == /\ HasNames(t, f[k], Loaded \cup {m}, names \cup Upto(from, k))
                       /\ k # 0 => f[k] = AddCast(m, own, f[k - 1], <<m, from[k]>>)
           A == {k \in 0 .. N : Holds(k)}
<1>1. N \in Nat /\ \A i \in 1 .. N : from[i] \in Range(CastsTo[m][t])
    <2>1. CastsTo[m][t] \in Seq(Declared(m))
        BY TypesAssumption
    <2> QED
        BY <2>1 DEF Range
<1>2. \A i, j \in 1 .. N : from[i] = from[j] => i = j
    BY TypesAssumption
<1>3. 0 \in A
    <2>1. names \cup Upto(from, 0) = names
        BY DEF Upto
    <2>2. Holds(0)
        BY <2>1
    <2> HIDE DEF Holds
    <2> QED
        BY <1>1, <2>2
<1>4. ASSUME NEW k \in 1 .. N, k - 1 \in A
      PROVE  k \in A
    <2> DEFINE x == from[k]
               before == names \cup Upto(from, k - 1)
               new == AddCast(m, own, f[k - 1], <<m, x>>)
    <2>1. HasNames(t, f[k - 1], Loaded \cup {m}, before)
        BY <1>4
    <2>2. x \in Range(CastsTo[m][t])
        BY <1>1
    <2>3. own \/ (\A j \in Loaded : x \notin Declared(j)) => x \notin before
        <3>1. x \notin Upto(from, k - 1)
            <4>1. \A i \in 1 .. k - 1 : i \in 1 .. N /\ i # k
                BY <1>1
            <4> QED
                BY <1>2, <4>1 DEF Upto
        <3> QED
            BY <3>1
    <2>4. HasNames(t, new, Loaded \cup {m}, before \cup {x})
        <3> HIDE DEF before, x
        <3> QED
            BY <2>1, <2>2, <2>3, AddCastKeeps
    <2>5. new \in Lists(t)
        BY <2>4 DEF HasNames, GoodList, IsList, Lists
    <2>6. f[k] = new
        BY <2>5
    <2>7. before \cup {x} = names \cup Upto(from, k)
        <3>1. 1 .. k = (1 .. k - 1) \cup {k}
            BY <1>1
        <3> QED
            BY <3>1 DEF Upto
    <2>8. Holds(k)
        <3> HIDE DEF before, new
        <3>1. HasNames(t, f[k], Loaded \cup {m}, names \cup Upto(from, k))
            BY <2>4, <2>6, <2>7
        <3> QED
            BY <2>6, <3>1 DEF new
    <2> HIDE DEF Holds
    <2> QED
        BY <1>1, <2>8
<1> HIDE DEF A
<1>5. \A k \in 0 .. N : k \in A
    BY <1>1, <1>3, <1>4, BoundedInduction
<1> QED
    BY <1>5 DEF A, Added

LEMMA AddCastsKeep ==
    ASSUME StructuresKept, NEW m, NEW t, NEW own, NEW c, NEW names, MayAdd(m, t, own, c, names)
    PROVE  HasNames(t, AddCasts(m, own, c, CastsTo[m][t]), Loaded \cup {m},
                    names \cup Range(CastsTo[m][t]))
<1> DEFINE from == CastsTo[m][t]
           N == Len(from)
           WithOne(d, k) == AddCast(m, own, d, <<m, from[k]>>)
           Step == [k \in 1 .. N |-> [d \in Lists(t) |->
                       IF WithOne(d, k) \in Lists(t) THEN WithOne(d, k) ELSE d]]
           IsAdded(f) == f = [k \in 0 .. N |-> IF k = 0 THEN c ELSE WithOne(f[k - 1], k)]
           added == CHOOSE f : IsAdded(f)
<1>1. N \in Nat
    <2>1. CastsTo[m][t] \in Seq(Declared(m))
        BY TypesAssumption DEF MayAdd
    <2> QED
        BY <2>1
<1>2. IsRecursion(N, Lists(t), c, Step)
    <2>1. c \in Lists(t)
        BY DEF MayAdd, HasNames, GoodList, IsList, Lists
    <2>2. Step \in [1 .. N -> [Lists(t) -> Lists(t)]]
        <3> HIDE DEF WithOne, N
        <3> QED
            OBVIOUS
    <2> HIDE DEF Step, N
    <2> QED
        BY <1>1, <2>1, <2>2 DEF IsRecursion
<1>3. \A d \in Lists(t), k \in 1 .. N : WithOne(d, k) \in Lists(t) => Step[k][d] = WithOne(d, k)
    OBVIOUS
<1> HIDE DEF Step
<1>4. PICK g : Solves(g, N, Lists(t), c, Step)
    <2> HIDE DEF N
    <2> QED
        BY <1>2, RecursionExists
<1>5. \A k \in 1 .. N : WithOne(g[k - 1], k) \in Lists(t) => g[k] = WithOne(g[k - 1], k)
    <2> TAKE k \in 1 .. N
    <2>1. g[k - 1] \in Lists(t) /\ g[k] = Step[k][g[k - 1]]
        <3> HIDE DEF N
        <3> QED
            BY <1>1, <1>4 DEF Solves
    <2> HIDE DEF WithOne, N
    <2> QED
        BY <1>3, <2>1
<1>6. \A k \in 1 .. N : g[k] = WithOne(g[k - 1], k)
    <2>1. Adds(g, m, t, own, c)
        BY <1>4, <1>5 DEF Solves, Adds
    <2>2. \A k \in 0 .. N : k # 0 => g[k] = WithOne(g[k - 1], k)
        <3>1. Added(g, m, t, own, names)
            BY <2>1, StepsKeep
        <3> QED
            BY <3>1 DEF Added
    <2> HIDE DEF WithOne, N
    <2> QED
        BY <1>1, <2>2
<1>7. IsAdded(g)
    <2> HIDE DEF WithOne, N
    <2>1. g = [k \in 0 .. N |-> g[k]] /\ g[0] = c
        BY <1>4 DEF Solves
    <2>2. \A k \in 0 .. N : g[k] = IF k = 0 THEN c ELSE WithOne(g[k - 1], k)
        <3> TAKE k \in 0 .. N
        <3>1. k = 0 \/ k \in 1 .. N
            BY <1>1
        <3> QED
            BY <1>6, <2>1, <3>1
    <2> QED
        BY <2>1, <2>2, Zenon
<1>8. IsAdded(added)
    BY <1>7
<1>9. added[0] = c /\ \A k \in 1 .. N : added[k] = WithOne(added[k - 1], k)
    <2> HIDE DEF WithOne, N, added
    <2>1. added[0] = c
        BY <1>1, <1>8
    <2>2. ASSUME NEW k \in 1 .. N
          PROVE  added[k] = WithOne(added[k - 1], k)
        <3>1. k \in 0 .. N /\ k # 0
            BY <1>1
        <3> QED
            BY <1>8, <3>1, Zenon
    <2> QED
        BY <2>1, <2>2
<1>10. HasNames(t, added[N], Loaded \cup {m}, names \cup Upto(from, N))
    <2> HIDE DEF added
    <2>1. Adds(added, m, t, own, c)
        BY <1>9 DEF Adds
    <2>2. \A k \in 0 .. N : HasNames(t, added[k], Loaded \cup {m}, names \cup Upto(from, k))
        <3>1. Added(added, m, t, own, names)
            BY <2>1, StepsKeep
        <3> QED
            BY <3>1 DEF Added
    <2> HIDE DEF N, from
    <2>3. N \in 0 .. N
        BY <1>1
    <2> QED
        BY <2>2, <2>3
<1>11. Upto(from, N) = Range(CastsTo[m][t])
    <2>1. DOMAIN from = 1 .. N
        <3>1. CastsTo[m][t] \in Seq(Declared(m))
            BY TypesAssumption DEF MayAdd
        <3> QED
            BY <3>1
    <2> QED
        BY <2>1 DEF Upto, Range
<1>12. AddCasts(m, own, c, CastsTo[m][t]) = added[N]
    BY DEF AddCasts
<1> QED
    BY <1>10, <1>11, <1>12

-----------------------------------------------------------------------------
(***************************************************************************)
(* The invariant of the tables.                                            *)
(***************************************************************************)
\* What is in use has its place in the modules, and the other way round.
StructuresNamed ==
    /\ \A s \in Used : s = <<s[1], s[2]>> /\ s[2] \in Names
    /\ \A m \in Loaded : \A t \in Declared(m) : TypeOf(m, t) \in Used /\ TypeOf(m, t)[2] = t

LEMMA StructuresAreNamed ==
    ASSUME StructuresKept
    PROVE  StructuresNamed
<1>1. \A s \in Used : s = <<s[1], s[2]>> /\ s[2] \in Names
    BY UsedHave
<1> QED
    BY <1>1, UsedAre
       DEF StructuresNamed, StructuresKept, ArraysLaid, UsedFromArrays, CanonicalTypes

\* The lists that ListOf gives are those that there are.
ListsHaveNames == \A s \in Used : HasNames(s[2], cast[s], Loaded, Sources(s[2]))

LEMMA ListsKeptIs ==
    ASSUME StructuresKept
    PROVE  ListsKept <=> ListsHaveNames
<1>1. ASSUME NEW s \in Used
      PROVE  LET list == ListOf(cast[s])
             IN  IsList(s[2], cast[s], list) /\ Covers(list, Sources(s[2]))
                     <=> HasNames(s[2], cast[s], Loaded, Sources(s[2]))
    <2> DEFINE list == ListOf(cast[s])
    <2>1. s[2] \in Names
        BY UsedHave
    <2>2. ASSUME NEW l
          PROVE  IsList(s[2], cast[s], l) /\ Covers(l, Sources(s[2]))
                     <=> /\ GoodList(s[2], cast[s], l) /\ MadeBy(l, Loaded)
                         /\ NamesIn(l) = Sources(s[2])
        BY DEF Covers, GoodList, OneEach, MadeBy, NamesIn
    <2>3. ASSUME IsList(s[2], cast[s], list), Covers(list, Sources(s[2]))
          PROVE  HasNames(s[2], cast[s], Loaded, Sources(s[2]))
        <3> HIDE DEF list
        <3> QED
            BY <2>2, <2>3 DEF HasNames
    <2>4. ASSUME HasNames(s[2], cast[s], Loaded, Sources(s[2]))
          PROVE  IsList(s[2], cast[s], list) /\ Covers(list, Sources(s[2]))
        <3>1. PICK l : /\ GoodList(s[2], cast[s], l) /\ MadeBy(l, Loaded)
                       /\ NamesIn(l) = Sources(s[2])
            BY <2>4 DEF HasNames
        <3>2. list = l
            BY <2>1, <3>1, ListOfIs
        <3> HIDE DEF list
        <3> QED
            BY <2>2, <3>1, <3>2
    <2> QED
        BY <2>3, <2>4
<1> QED
    BY <1>1 DEF ListsKept, ListsHaveNames

LEMMA NamesOfMore ==
    ASSUME NEW t, NEW c, NEW ms, NEW names, HasNames(t, c, ms, names), NEW more, ms \subseteq more
    PROVE  HasNames(t, c, more, names)
BY DEF HasNames, MadeBy

\* What the initialisation of a module does to the structures in use.
IsInitialised(m) ==
    /\ modules' \in Seq(Modules) /\ Loaded' = Loaded \cup {m} /\ DOMAIN types' = Modules
    /\ DOMAIN types'[m] = DOMAIN Declares[m]
    /\ \A k \in Loaded : types'[k] = types[k] /\ \A t \in Declared(k) : TypeOf(k, t)' = TypeOf(k, t)
    /\ \A t \in Declared(m) :
           /\ (\A k \in Loaded : t \notin Declared(k)) => TypeOf(m, t)' = <<m, t>>
           /\ \A k \in Loaded : t \in Declared(k) => TypeOf(m, t)' = TypeOf(k, t)
    /\ \A s : s \in Used' <=> s \in Used \/ \E t \in Declared(m) : s = TypeOf(m, t)'
    /\ DOMAIN cast' = Used'
    /\ \A s \in Used' :
           cast'[s] = IF s[2] \in Declared(m) /\ TypeOf(m, s[2])' = s
                      THEN AddCasts(m, s[1] = m, IF s[1] = m THEN NoCasts(s[2]) ELSE cast[s],
                                    CastsTo[m][s[2]])
                      ELSE cast[s]

LEMMA Initialised ==
    ASSUME StructuresKept, NEW m \in Modules, m \notin Loaded, InitializeModule(m)
    PROVE  IsInitialised(m)
<1> DEFINE loaded == [t \in Declared(m) |-> Query(Others(m), t)]
           used   == [t \in Declared(m) |-> IF loaded[t] = None THEN <<m, t>> ELSE loaded[t]]
           list(s) == AddCasts(m, s[1] = m, IF s[1] = m THEN NoCasts(s[2]) ELSE cast[s],
                               CastsTo[m][s[2]])
<1>1. /\ modules' = IF modules = <<>> THEN <<m>> ELSE <<Head(modules), m>> \o Tail(modules)
      /\ types' = [types EXCEPT ![m] = [i \in DOMAIN Declares[m] |-> used[Declares[m][i]]]]
      /\ cast' = [s \in DOMAIN cast \cup Range(used) |->
                     IF s[2] \in DOMAIN used /\ used[s[2]] = s THEN list(s) ELSE cast[s]]
    BY DEF InitializeModule
<1>2. DOMAIN used = Declared(m) /\ Declared(m) \subseteq Names
    BY Arrays
<1>3. \A t \in Declared(m) :
          /\ (\A k \in Loaded : t \notin Declared(k)) => used[t] = <<m, t>>
          /\ \A k \in Loaded : t \in Declared(k) => used[t] = TypeOf(k, t)
    <2> TAKE t \in Declared(m)
    <2>1. loaded[t] = Query(Others(m), t) /\ t \in Names
        BY <1>2
    <2>2. used[t] = IF loaded[t] = None THEN <<m, t>> ELSE loaded[t]
        OBVIOUS
    <2> HIDE DEF used, loaded
    <2>3. (\A k \in Loaded : t \notin Declared(k)) => used[t] = <<m, t>>
        BY <2>1, <2>2, QueryGives
    <2>4. ASSUME NEW k \in Loaded, t \in Declared(k)
          PROVE  used[t] = TypeOf(k, t)
        <3>1. loaded[t] = TypeOf(k, t)
            BY <2>1, <2>4, QueryGives
        <3>2. PICK j \in Loaded : TypeOf(k, t) = <<j, t>>
            BY <2>4 DEF StructuresKept
        <3>3. j \in Modules
            BY LoadedAre DEF StructuresKept
        <3>4. loaded[t] # None
            BY <2>1, <3>1, <3>2, <3>3, TypesAssumption DEF Names
        <3> QED
            BY <2>2, <3>1, <3>4
    <2> QED
        BY <2>3, <2>4
<1> HIDE DEF used, list
<1>4. modules' \in Seq(Modules) /\ Loaded' = Loaded \cup {m}
    <2>1. modules \in Seq(Modules)
        BY DEF StructuresKept
    <2>2. CASE modules = <<>>
        <3>1. modules' = <<m>>
            BY <1>1, <2>2
        <3>2. Loaded' = {m} /\ Loaded = {}
            BY <2>2, <3>1 DEF Loaded, Range
        <3> QED
            BY <3>1, <3>2
    <2>3. CASE modules # <<>>
        <3> DEFINE new == <<Head(modules), m>> \o Tail(modules)
                   n == Len(modules)
        <3>1. modules' = new
            BY <1>1, <2>3
        <3>2. /\ n \in Nat /\ n >= 1 /\ new \in Seq(Modules) /\ Len(new) = n + 1
              /\ new[1] = modules[1] /\ new[2] = m
              /\ \A i \in 3 .. n + 1 : new[i] = modules[i - 1]
            BY <2>1, <2>3
        <3> HIDE DEF new, n
        <3>3. \A x : x \in Loaded <=> \E i \in 1 .. n : x = modules[i]
            BY <2>1 DEF Loaded, Range, n
        <3>4. \A x : x \in Loaded' <=> \E i \in 1 .. n + 1 : x = new[i]
            <4>1. Loaded' = {new[i] : i \in DOMAIN new}
                BY <3>1 DEF Loaded, Range
            <4>2. DOMAIN new = 1 .. n + 1
                BY <3>2
            <4> QED
                BY <4>1, <4>2
        <3>5. ASSUME NEW x \in Loaded'
              PROVE  x \in Loaded \cup {m}
            <4>1. PICK i \in 1 .. n + 1 : x = new[i]
                BY <3>4
            <4>2. i = 1 \/ i = 2 \/ (i \in 3 .. n + 1 /\ i - 1 \in 1 .. n)
                BY <3>2
            <4>3. 1 \in 1 .. n
                BY <3>2
            <4> QED
                BY <3>2, <3>3, <4>1, <4>2, <4>3
        <3>6. ASSUME NEW x \in Loaded \cup {m}
              PROVE  x \in Loaded'
            <4>1. CASE x = m
                <5>1. 2 \in 1 .. n + 1
                    BY <3>2
                <5> QED
                    BY <3>2, <3>4, <4>1, <5>1
            <4>2. CASE x \in Loaded
                <5>1. PICK i \in 1 .. n : x = modules[i]
                    BY <3>3, <4>2
                <5>2. CASE i = 1
                    <6>1. 1 \in 1 .. n + 1
                        BY <3>2
                    <6> QED
                        BY <3>2, <3>4, <5>1, <5>2, <6>1
                <5>3. CASE i # 1
                    <6>1. i + 1 \in 3 .. n + 1 /\ i + 1 \in 1 .. n + 1 /\ (i + 1) - 1 = i
                        BY <3>2, <5>3
                    <6>2. new[i + 1] = x
                        BY <3>2, <5>1, <6>1
                    <6> QED
                        BY <3>4, <6>1, <6>2
                <5> QED
                    BY <5>2, <5>3
            <4> QED
                BY <4>1, <4>2
        <3> QED
            BY <3>1, <3>2, <3>5, <3>6
    <2> QED
        BY <2>2, <2>3
<1>5. /\ DOMAIN types' = Modules /\ DOMAIN types'[m] = DOMAIN Declares[m]
      /\ \A i \in DOMAIN Declares[m] : types'[m][i] = used[Declares[m][i]]
      /\ \A k \in Loaded : types'[k] = types[k]
    <2>1. DOMAIN types = Modules /\ Loaded \subseteq Modules
        BY LoadedAre DEF StructuresKept
    <2> QED
        BY <1>1, <2>1
<1>6. \A t \in Declared(m) : TypeOf(m, t)' = used[t]
    <2> TAKE t \in Declared(m)
    <2>1. TypeOf(m, t)' = types'[m][Place[m][t]]
        BY DEF TypeOf
    <2>2. Place[m][t] \in DOMAIN Declares[m] /\ Declares[m][Place[m][t]] = t
        BY Arrays
    <2> QED
        BY <1>5, <2>1, <2>2
<1>7. \A k \in Loaded : \A t \in Declared(k) : TypeOf(k, t)' = TypeOf(k, t)
    BY <1>5 DEF TypeOf
<1>8. \A s : s \in Used' <=> s \in Used \/ \E t \in Declared(m) : s = TypeOf(m, t)'
    <2>1. \A s : s \in Used <=> \E k \in Loaded : \E t \in Declared(k) : s = TypeOf(k, t)
        BY UsedAre DEF StructuresKept, ArraysLaid, UsedFromArrays
    <2>2. ArraysLaid'
        BY <1>4, <1>5 DEF StructuresKept, ArraysLaid
    <2>3. UsedFromArrays'
        BY <2>2, UsedAre, PTL
    <2>4. \A s : s \in Used' <=> \E k \in Loaded' : \E t \in Declared(k) : s = TypeOf(k, t)'
        BY <2>3 DEF UsedFromArrays
    <2> QED
        BY <1>4, <1>7, <2>1, <2>4
<1>9. DOMAIN cast' = Used'
    <2>1. \A s : s \in Range(used) <=> \E t \in Declared(m) : s = TypeOf(m, t)'
        BY <1>2, <1>6 DEF Range
    <2>2. DOMAIN cast' = Used \cup Range(used)
        BY <1>1 DEF StructuresKept
    <2> QED
        BY <1>8, <2>1, <2>2
<1>10. ASSUME NEW s \in Used'
       PROVE  cast'[s] = IF s[2] \in Declared(m) /\ TypeOf(m, s[2])' = s
                         THEN AddCasts(m, s[1] = m, IF s[1] = m THEN NoCasts(s[2]) ELSE cast[s],
                                       CastsTo[m][s[2]])
                         ELSE cast[s]
    <2>1. s \in DOMAIN cast \cup Range(used)
        BY <1>1, <1>9
    <2>2. cast'[s] = IF s[2] \in DOMAIN used /\ used[s[2]] = s THEN list(s) ELSE cast[s]
        BY <1>1, <2>1
    <2> QED
        BY <1>2, <1>6, <2>2 DEF list
<1>11. \A t \in Declared(m) :
           /\ (\A k \in Loaded : t \notin Declared(k)) => TypeOf(m, t)' = <<m, t>>
           /\ \A k \in Loaded : t \in Declared(k) => TypeOf(m, t)' = TypeOf(k, t)
    BY <1>3, <1>6
<1> QED
    BY <1>4, <1>5, <1>7, <1>8, <1>9, <1>10, <1>11 DEF IsInitialised

LEMMA InitialisedStructures ==
    ASSUME StructuresKept, NEW m \in Modules, m \notin Loaded, IsInitialised(m),
           DOMAIN klass' = DOMAIN cast'
    PROVE  StructuresKept'
<1> USE DEF IsInitialised
<1>1. Loaded \subseteq Modules
    BY LoadedAre DEF StructuresKept
<1>2. ASSUME NEW k \in Loaded', NEW t \in Declared(k)
      PROVE  /\ TypeOf(k, t)'[2] = t
             /\ \E j \in Loaded' :
                    t \in Declared(j) /\ TypeOf(k, t)' = <<j, t>> /\ TypeOf(j, t)' = <<j, t>>
    <2>1. ASSUME NEW i \in Loaded, t \in Declared(i), TypeOf(k, t)' = TypeOf(i, t)
          PROVE  \E j \in Loaded' :
                    t \in Declared(j) /\ TypeOf(k, t)' = <<j, t>> /\ TypeOf(j, t)' = <<j, t>>
        <3>1. PICK j \in Loaded :
                  t \in Declared(j) /\ TypeOf(i, t) = <<j, t>> /\ TypeOf(j, t) = <<j, t>>
            BY <2>1 DEF StructuresKept
        <3>2. TypeOf(j, t)' = TypeOf(j, t) /\ j \in Loaded'
            BY <3>1
        <3> QED
            BY <2>1, <3>1, <3>2
    <2>2. \E j \in Loaded' :
              t \in Declared(j) /\ TypeOf(k, t)' = <<j, t>> /\ TypeOf(j, t)' = <<j, t>>
        <3>1. CASE k \in Loaded
            <4>1. TypeOf(k, t)' = TypeOf(k, t)
                BY <3>1
            <4> QED
                BY <2>1, <3>1, <4>1
        <3>2. CASE k = m /\ \E i \in Loaded : t \in Declared(i)
            <4>1. PICK i \in Loaded : t \in Declared(i)
                BY <3>2
            <4>2. TypeOf(k, t)' = TypeOf(i, t)
                BY <3>2, <4>1
            <4> QED
                BY <2>1, <4>1, <4>2
        <3>3. CASE k = m /\ \A i \in Loaded : t \notin Declared(i)
            <4>1. TypeOf(m, t)' = <<m, t>> /\ m \in Loaded'
                BY <3>3
            <4> QED
                BY <3>3, <4>1
        <3> QED
            BY <3>1, <3>2, <3>3
    <2> QED
        BY <2>2
<1>3. ASSUME NEW k \in Loaded', NEW t \in Declared(k), NEW j \in Loaded', t \in Declared(j)
      PROVE  TypeOf(j, t)' = TypeOf(k, t)'
    <2>1. CASE j \in Loaded /\ k \in Loaded
        <3>1. TypeOf(j, t) = TypeOf(k, t)
            BY <1>3, <2>1 DEF StructuresKept, CanonicalTypes
        <3> QED
            BY <1>3, <2>1, <3>1
    <2>2. CASE j = m /\ k = m
        BY <2>2
    <2>3. CASE j = m /\ k \in Loaded
        <3>1. TypeOf(m, t)' = TypeOf(k, t) /\ TypeOf(k, t)' = TypeOf(k, t)
            BY <1>3, <2>3
        <3> QED
            BY <2>3, <3>1
    <2>4. CASE k = m /\ j \in Loaded
        <3>1. TypeOf(m, t)' = TypeOf(j, t) /\ TypeOf(j, t)' = TypeOf(j, t)
            BY <1>3, <2>4
        <3> QED
            BY <2>4, <3>1
    <2> QED
        BY <2>1, <2>2, <2>3, <2>4
<1>4. CanonicalTypes'
    BY <1>2, <1>3 DEF CanonicalTypes
<1>5. \A k \in Loaded' : DOMAIN types'[k] = DOMAIN Declares[k]
    <2> TAKE k \in Loaded'
    <2>1. k \in Loaded \/ k = m
        OBVIOUS
    <2> QED
        BY <2>1 DEF StructuresKept
<1> QED
    BY <1>2, <1>4, <1>5 DEF StructuresKept

LEMMA InitialisedLists ==
    ASSUME StructuresKept, NEW m \in Modules, m \notin Loaded, IsInitialised(m),
           ListsHaveNames, StructuresKept', NEW s \in Used'
    PROVE  HasNames(s[2], cast'[s], Loaded', Sources(s[2])')
<1> DEFINE t == s[2]
<1>1. /\ Loaded' = Loaded \cup {m} /\ Loaded \subseteq Modules /\ m \in Loaded'
      /\ Loaded \subseteq Loaded'
    BY LoadedAre DEF IsInitialised, StructuresKept
<1>2. s = <<s[1], t>> /\ t \in Names
    <2>1. StructuresNamed'
        BY StructuresAreNamed, PTL
    <2> QED
        BY <2>1 DEF StructuresNamed
<1>3. Sources(t)' = Sources(t) \cup (IF t \in Declared(m) THEN Range(CastsTo[m][t]) ELSE {})
    BY <1>1 DEF Sources
<1>4. \A x \in Sources(t) : \E k \in Loaded : x \in Declared(k)
    <2> TAKE x \in Sources(t)
    <2>1. PICK k \in Loaded : t \in Declared(k) /\ x \in Range(CastsTo[k][t])
        BY DEF Sources
    <2>2. k \in Modules
        BY <1>1
    <2>3. CastsTo[k][t] \in Seq(Declared(k))
        BY <2>1, <2>2, TypesAssumption
    <2>4. x \in Declared(k)
        BY <2>1, <2>3 DEF Range
    <2> QED
        BY <2>4
<1>5. CASE t \in Declared(m) /\ TypeOf(m, t)' = s /\ s[1] = m
    <2>1. \A k \in Loaded : t \notin Declared(k)
        <3> SUFFICES ASSUME NEW k \in Loaded, t \in Declared(k) PROVE FALSE
            OBVIOUS
        <3>1. s = TypeOf(k, t)
            BY <1>5 DEF IsInitialised
        <3>2. PICK j \in Loaded : TypeOf(k, t) = <<j, t>>
            BY DEF StructuresKept
        <3> QED
            BY <1>5, <3>1, <3>2
    <2>2. Sources(t) = {}
        BY <2>1 DEF Sources
    <2>3. cast'[s] = AddCasts(m, TRUE, NoCasts(t), CastsTo[m][t])
        BY <1>5 DEF IsInitialised
    <2>4. HasNames(t, NoCasts(t), Loaded \cup {m}, {})
        BY <1>2, EmptyList DEF HasNames
    <2>5. MayAdd(m, t, TRUE, NoCasts(t), {})
        BY <1>5, <2>4 DEF MayAdd
    <2>6. HasNames(t, AddCasts(m, TRUE, NoCasts(t), CastsTo[m][t]), Loaded \cup {m},
                   {} \cup Range(CastsTo[m][t]))
        BY <2>5, AddCastsKeep
    <2>7. {} \cup Range(CastsTo[m][t]) = Sources(t)'
        BY <1>3, <1>5, <2>2
    <2> QED
        BY <1>1, <2>3, <2>6, <2>7
<1>6. CASE t \in Declared(m) /\ TypeOf(m, t)' = s /\ s[1] # m
    <2>1. s \in Used
        <3>1. ~(\A k \in Loaded : t \notin Declared(k))
            BY <1>2, <1>6 DEF IsInitialised
        <3>2. PICK k \in Loaded : t \in Declared(k)
            BY <3>1
        <3>3. s = TypeOf(k, t)
            BY <1>6, <3>2 DEF IsInitialised
        <3> QED
            BY <3>2, <3>3, UsedAre DEF StructuresKept, ArraysLaid, UsedFromArrays
    <2>2. cast'[s] = AddCasts(m, FALSE, cast[s], CastsTo[m][t])
        BY <1>6 DEF IsInitialised
    <2>3. HasNames(t, cast[s], Loaded \cup {m}, Sources(t))
        BY <2>1, NamesOfMore DEF ListsHaveNames
    <2>4. MayAdd(m, t, FALSE, cast[s], Sources(t))
        BY <1>4, <1>6, <2>3 DEF MayAdd
    <2>5. HasNames(t, AddCasts(m, FALSE, cast[s], CastsTo[m][t]), Loaded \cup {m},
                   Sources(t) \cup Range(CastsTo[m][t]))
        BY <2>4, AddCastsKeep
    <2>6. Sources(t) \cup Range(CastsTo[m][t]) = Sources(t)'
        BY <1>3, <1>6
    <2> QED
        BY <1>1, <2>2, <2>5, <2>6
<1>7. CASE ~(t \in Declared(m) /\ TypeOf(m, t)' = s)
    <2>1. s \in Used
        BY <1>7 DEF IsInitialised, StructuresKept, CanonicalTypes
    <2>2. t \notin Declared(m)
        <3>1. TypeOf(s[1], t) = s /\ s[1] \in Loaded /\ t \in Declared(s[1])
            BY <2>1, UsedHave
        <3>2. t \in Declared(m) => TypeOf(m, t)' = s
            BY <3>1 DEF IsInitialised
        <3> QED
            BY <1>7, <3>2
    <2>3. cast'[s] = cast[s]
        BY <1>7 DEF IsInitialised
    <2>4. Sources(t)' = Sources(t)
        BY <1>3, <2>2
    <2>5. HasNames(t, cast[s], Loaded', Sources(t))
        BY <1>1, <2>1, NamesOfMore DEF ListsHaveNames
    <2> QED
        BY <2>3, <2>4, <2>5
<1> QED
    BY <1>5, <1>6, <1>7

\* swigregister gives a class to each type of m that has one.
LEMMA RegisteredKeeps ==
    ASSUME StructuresKept, StructuresKept', ClassesKept, NEW m \in Modules,
           Loaded' = Loaded \cup {m}, \A s \in Used : s \in Used',
           \A k \in Loaded : \A t \in Declared(k) : TypeOf(k, t)' = TypeOf(k, t),
           klass' = [s \in DOMAIN cast' |-> Registered(m, s)]
    PROVE  ClassesKept'
<1>1. DOMAIN cast' = Used' /\ DOMAIN klass = Used
    BY DEF StructuresKept
<1>2. Classes[m] \subseteq Declared(m) /\ \A k \in Loaded : Classes[k] \subseteq Declared(k)
    <2>1. Loaded \subseteq Modules
        BY LoadedAre DEF StructuresKept
    <2> QED
        BY <2>1, TypesAssumption
<1>3. \A s \in Used' : klass'[s] = IF s[2] \in Classes[m] /\ s = TypeOf(m, s[2])' THEN m
                                   ELSE IF s \in Used THEN klass[s] ELSE None
    <2> TAKE s \in Used'
    <2>1. klass'[s] = Registered(m, s)
        BY <1>1
    <2> QED
        BY <1>1, <2>1 DEF Registered, TypeOf
<1>4. ASSUME NEW s \in Used', klass'[s] # None
      PROVE  klass'[s] \in Loaded' /\ s[2] \in Classes[klass'[s]]
    BY <1>3, <1>4 DEF ClassesKept
<1>5. ASSUME NEW k \in Loaded', NEW t \in Classes[k]
      PROVE  klass'[TypeOf(k, t)'] # None
    <2> DEFINE s == TypeOf(k, t)'
    <2>1. t \in Declared(k)
        BY <1>2
    <2>2. s \in Used' /\ s[2] = t
        <3>1. StructuresNamed'
            BY StructuresAreNamed, PTL
        <3> QED
            BY <2>1, <3>1 DEF StructuresNamed
    <2>3. m # None
        BY TypesAssumption
    <2>4. CASE k = m
        BY <1>3, <2>2, <2>3, <2>4
    <2>5. CASE k \in Loaded
        <3>1. s = TypeOf(k, t) /\ s \in Used
            BY <2>1, <2>5, UsedAre DEF StructuresKept, ArraysLaid, UsedFromArrays
        <3>2. klass[s] # None
            BY <2>5, <3>1 DEF ClassesKept
        <3> SUFFICES klass'[s] # None
            OBVIOUS
        <3> HIDE DEF s
        <3> QED
            BY <1>3, <2>2, <2>3, <3>1, <3>2
    <2> QED
        BY <2>4, <2>5
<1> QED
    BY <1>4, <1>5 DEF ClassesKept

\* What is kept of the structures rests on the modules, the types and who has lists.
LEMMA SameStructures ==
    ASSUME StructuresKept, UNCHANGED <<modules, types, cast>>, DOMAIN klass' = DOMAIN cast
    PROVE  StructuresKept'
<1>1. Loaded' = Loaded /\ Used' = Used /\ \A k, t : TypeOf(k, t)' = TypeOf(k, t)
    BY DEF Loaded, Used, TypeOf
<1>2. CanonicalTypes'
    <2>1. CanonicalTypes
        BY DEF StructuresKept
    <2> QED
        BY <1>1, <2>1 DEF CanonicalTypes
<1>3. modules' \in Seq(Modules) /\ DOMAIN types' = Modules
    BY DEF StructuresKept
<1>4. \A m \in Loaded :
          /\ DOMAIN types[m] = DOMAIN Declares[m]
          /\ \A t \in Declared(m) : \E k \in Loaded :
                 t \in Declared(k) /\ TypeOf(m, t) = <<k, t>> /\ TypeOf(k, t) = <<k, t>>
    BY DEF StructuresKept
<1>5. DOMAIN cast' = Used' /\ DOMAIN klass' = Used'
    BY <1>1 DEF StructuresKept
<1> QED
    BY <1>1, <1>2, <1>3, <1>4, <1>5 DEF StructuresKept

LEMMA ImportKeeps ==
    ASSUME TypesInv, NEW m \in Modules, Import(m)
    PROVE  TypesInv'
<1>1. StructuresKept /\ ListsKept /\ ClassesKept
    BY DEF TypesInv
<1>2. klass' = [s \in DOMAIN cast' |-> Registered(m, s)] /\ DOMAIN klass' = DOMAIN cast'
    BY DEF Import
<1>3. CASE m \in Loaded
    <2>1. UNCHANGED <<modules, types, cast>>
        BY <1>3 DEF Import
    <2>2. Loaded' = Loaded /\ Used' = Used /\ \A k, t : TypeOf(k, t)' = TypeOf(k, t)
        BY <2>1 DEF Loaded, Used, TypeOf
    <2>3. StructuresKept'
        BY <1>1, <1>2, <2>1, SameStructures
    <2>4. ListsKept'
        <3>1. \A t : Sources(t)' = Sources(t)
            BY <2>2 DEF Sources
        <3> QED
            BY <1>1, <2>1, <2>2, <3>1 DEF ListsKept, Covers
    <2>5. ClassesKept'
        <3>1. Loaded' = Loaded \cup {m}
            BY <1>3, <2>2
        <3> QED
            BY <1>1, <1>2, <2>2, <2>3, <3>1, RegisteredKeeps
    <2> QED
        BY <2>3, <2>4, <2>5 DEF TypesInv
<1>4. CASE m \notin Loaded
    <2>1. IsInitialised(m)
        BY <1>1, <1>4, Initialised DEF Import
    <2>2. StructuresKept'
        BY <1>1, <1>2, <1>4, <2>1, InitialisedStructures
    <2>3. ListsKept'
        <3>1. ListsHaveNames
            BY <1>1, ListsKeptIs
        <3>2. \A s \in Used' : HasNames(s[2], cast'[s], Loaded', Sources(s[2])')
            BY <1>1, <1>4, <2>1, <2>2, <3>1, InitialisedLists
        <3>3. ListsHaveNames'
            BY <3>2 DEF ListsHaveNames
        <3>4. ListsKept' <=> ListsHaveNames'
            BY <2>2, ListsKeptIs, PTL
        <3> QED
            BY <3>3, <3>4
    <2>4. ClassesKept'
        BY <1>1, <1>2, <2>1, <2>2, RegisteredKeeps DEF IsInitialised
    <2> QED
        BY <2>2, <2>3, <2>4 DEF TypesInv
<1> QED
    BY <1>3, <1>4

LEMMA CheckKeeps ==
    ASSUME TypesInv, NEW s \in Used, NEW name, Check(s, name)
    PROVE  TypesInv'
<1>1. StructuresKept /\ ListsKept /\ ClassesKept
    BY DEF TypesInv
<1>2. cast' = [cast EXCEPT ![s] = Checked(@, name)] /\ UNCHANGED <<modules, types, klass>>
    BY DEF Check
<1>3. /\ Loaded' = Loaded /\ Used' = Used
      /\ \A k, t : TypeOf(k, t)' = TypeOf(k, t) /\ Sources(t)' = Sources(t)
    BY <1>2 DEF Loaded, Used, TypeOf, Sources
<1>4. DOMAIN cast = Used /\ DOMAIN cast' = Used
    BY <1>1, <1>2 DEF StructuresKept
<1>5. StructuresKept'
    BY <1>1, <1>2, <1>3, <1>4 DEF StructuresKept, CanonicalTypes
<1>6. ListsKept'
    <2>2. ListsHaveNames
        BY <1>1, ListsKeptIs
    <2>3. ASSUME NEW u \in Used
          PROVE  HasNames(u[2], cast'[u], Loaded, Sources(u[2]))
        <3>1. CASE u # s
            BY <1>2, <1>4, <2>2, <3>1 DEF ListsHaveNames
        <3>2. CASE u = s
            <4>1. cast'[u] = Checked(cast[u], name)
                BY <1>2, <1>4, <3>2
            <4>2. u[2] \in Names
                BY <1>1, UsedHave
            <4>3. PICK list : /\ GoodList(u[2], cast[u], list) /\ MadeBy(list, Loaded)
                              /\ NamesIn(list) = Sources(u[2])
                BY <2>2 DEF HasNames, ListsHaveNames
            <4>4. PICK moved : /\ GoodList(u[2], Checked(cast[u], name), moved)
                               /\ Rearranged(list, moved)
                BY <4>2, <4>3, CheckedKeeps
            <4>5. NamesIn(moved) = NamesIn(list) /\ MadeBy(moved, Loaded)
                BY <4>3, <4>4, RearrangedSame
            <4> QED
                BY <4>1, <4>3, <4>4, <4>5 DEF HasNames
        <3> QED
            BY <3>1, <3>2
    <2>4. ListsHaveNames'
        BY <1>3, <2>3 DEF ListsHaveNames
    <2>5. ListsKept' <=> ListsHaveNames'
        BY <1>5, ListsKeptIs, PTL
    <2> QED
        BY <2>4, <2>5
<1>7. ClassesKept'
    BY <1>1, <1>2, <1>3 DEF ClassesKept
<1> QED
    BY <1>5, <1>6, <1>7 DEF TypesInv

LEMMA TypesStart ==
    ASSUME TypesInit
    PROVE  TypesInv
<1>1. modules = <<>> /\ types = [m \in Modules |-> <<>>] /\ cast = <<>> /\ klass = <<>>
    BY DEF TypesInit
<1>2. Loaded = {}
    BY <1>1 DEF Loaded, Range
<1>3. Used = {}
    BY <1>2 DEF Used
<1> QED
    BY <1>1, <1>2, <1>3
       DEF TypesInv, StructuresKept, CanonicalTypes, ListsKept, ClassesKept

LEMMA TypesStep ==
    ASSUME TypesInv, [TypesNext]_typeVars
    PROVE  TypesInv'
<1>1. CASE TypesNext
    <2>1. ASSUME NEW m \in Modules, Import(m)
          PROVE  TypesInv'
        BY <2>1, ImportKeeps
    <2>2. ASSUME NEW m \in Loaded, NEW t \in Declared(m), NEW name, Check(TypeOf(m, t), name)
          PROVE  TypesInv'
        <3>1. TypeOf(m, t) \in Used
            BY UsedAre DEF TypesInv, StructuresKept, ArraysLaid, UsedFromArrays
        <3> QED
            BY <2>2, <3>1, CheckKeeps
    <2> QED
        BY <1>1, <2>1, <2>2 DEF TypesNext
<1>2. CASE UNCHANGED typeVars
    <2>1. UNCHANGED <<modules, types, cast, klass>>
        BY <1>2 DEF typeVars
    <2>2. /\ Loaded' = Loaded /\ Used' = Used
          /\ \A k, t : TypeOf(k, t)' = TypeOf(k, t) /\ Sources(t)' = Sources(t)
        BY <2>1 DEF Loaded, Used, TypeOf, Sources
    <2>3. StructuresKept'
        BY <2>1, SameStructures DEF TypesInv, StructuresKept
    <2>4. ListsKept'
        BY <2>1, <2>2 DEF TypesInv, ListsKept, Covers
    <2>5. ClassesKept'
        BY <2>1, <2>2 DEF TypesInv, ClassesKept
    <2> QED
        BY <2>3, <2>4, <2>5 DEF TypesInv
<1> QED
    BY <1>1, <1>2

\* However imports and type checks are ordered: the tables stay as they are meant to be.
THEOREM TypesStay == TypesSpec => []TypesInv
<1>1. TypesInit => TypesInv
    BY TypesStart
<1>2. TypesInv /\ [TypesNext]_typeVars => TypesInv'
    BY TypesStep
<1> QED
    BY <1>1, <1>2, PTL DEF TypesSpec

\* Modules that know a name use one structure for it.
THEOREM TypesAreCanonical == TypesSpec => []CanonicalTypes
<1>1. TypesInv => CanonicalTypes
    BY DEF TypesInv, StructuresKept
<1> QED
    BY <1>1, TypesStay, PTL

LEMMA ListsAreComplete ==
    ASSUME TypesInv
    PROVE  CastsFound
<1> SUFFICES ASSUME NEW s \in Used
             PROVE  LET list == ListOf(cast[s])
                    IN  /\ {cast[s].type[list[i]][2] : i \in DOMAIN list} = Sources(s[2])
                        /\ Len(list) = Cardinality(Sources(s[2]))
                        /\ \A i \in DOMAIN list :
                               cast[s].prev[list[i]] = IF i = 1 THEN None ELSE list[i - 1]
    BY DEF CastsFound
<1> DEFINE list == ListOf(cast[s])
           c == cast[s]
<1>1. IsList(s[2], c, list) /\ Covers(list, Sources(s[2]))
    BY DEF TypesInv, ListsKept
<1> HIDE DEF list, c
<1>2. /\ list \in Seq(NodesOf[s[2]]) /\ DOMAIN list = 1 .. Len(list) /\ Len(list) \in Nat
      /\ \A i \in 1 .. Len(list) : /\ list[i] \in NodesOf[s[2]]
                                   /\ c.prev[list[i]] = IF i = 1 THEN None ELSE list[i - 1]
      /\ \A n \in NodesOf[s[2]] : c.type[n][2] = n[2]
    BY <1>1 DEF IsList
<1>3. \A i \in 1 .. Len(list) : c.type[list[i]][2] = list[i][2]
    BY <1>2
<1>4. {c.type[list[i]][2] : i \in DOMAIN list} = Sources(s[2])
    BY <1>1, <1>2, <1>3 DEF Covers
<1>5. Len(list) = Cardinality(Sources(s[2]))
    <2> DEFINE f == [i \in 1 .. Len(list) |-> list[i][2]]
    <2>1. f \in Bijection(1 .. Len(list), Sources(s[2]))
        <3>1. {list[i][2] : i \in 1 .. Len(list)} = Sources(s[2])
            BY <1>1 DEF Covers
        <3>2. f \in [1 .. Len(list) -> Sources(s[2])]
            BY <3>1
        <3>3. f \in Surjection(1 .. Len(list), Sources(s[2]))
            BY <3>1, <3>2 DEF Surjection
        <3>4. f \in Injection(1 .. Len(list), Sources(s[2]))
            BY <1>1, <3>2 DEF Covers, Injection, IsInjective
        <3> QED
            BY <3>3, <3>4 DEF Bijection
    <2>2. IsFiniteSet(1 .. Len(list)) /\ Cardinality(1 .. Len(list)) = Len(list)
        BY <1>2, UpToHas
    <2>3. ExistsBijection(1 .. Len(list), Sources(s[2]))
        BY <2>1 DEF ExistsBijection
    <2> QED
        BY <2>2, <2>3, FS_Bijection
<1> QED
    BY <1>2, <1>4, <1>5 DEF list, c

\* And its list has each cast that a module declared, once, linked both ways.
THEOREM CastsStayFound == TypesSpec => []CastsFound
BY TypesStay, ListsAreComplete, PTL

-----------------------------------------------------------------------------
(***************************************************************************)
(* Conversion and destruction.                                             *)
(***************************************************************************)
\* The list of a type decides what is converted to it.
LEMMA ConvertIs ==
    ASSUME TypesInv, NEW m \in Loaded, NEW t \in Declared(m), NEW from
    PROVE  ConvertPtr(from, TypeOf(m, t)) <=> from[2] \in Sources(t)
<1> DEFINE to == TypeOf(m, t)
<1>1. StructuresKept /\ ListsKept
    BY DEF TypesInv
<1>2. to \in Used /\ to[2] = t /\ t \in Names
    BY <1>1, StructuresAreNamed DEF StructuresNamed
<1> HIDE DEF to
<1>3. PICK list : GoodList(t, cast[to], list) /\ NamesIn(list) = Sources(t)
    BY <1>1, <1>2, ListsKeptIs DEF ListsHaveNames, HasNames
<1>4. \A i \in 1 .. Len(list) : list[i] # None
    <2>1. list \in Seq(NodesOf[t])
        BY <1>3 DEF GoodList, IsList
    <2> QED
        BY <1>2, <2>1, NodesAre
<1>5. Lookup(cast[to], from[2]) # None <=> from[2] \in Sources(t)
    BY <1>2, <1>3, <1>4, LookupFinds DEF NamesIn
<1>6. t \in Sources(t)
    <2>1. m \in Modules
        BY <1>1, LoadedAre DEF StructuresKept
    <2> QED
        BY <2>1, TypesAssumption DEF Sources
<1> QED
    BY <1>2, <1>5, <1>6 DEF ConvertPtr, to

LEMMA ObjectsAreAccepted ==
    ASSUME TypesInv
    PROVE  AcceptedByName
BY ConvertIs DEF AcceptedByName

\* What converts to a parameter that takes no block is none.
LEMMA ConvertedIsNoBlock ==
    ASSUME TypesInv, NEW m \in Loaded, NEW t \in Declared(m), TakesNoBlock(t),
           NEW from, ConvertPtr(from, TypeOf(m, t))
    PROVE  from[2] \notin BlockTypes
<1>1. from[2] \in Sources(t)
    BY ConvertIs
<1>2. PICK k \in Loaded : t \in Declared(k) /\ from[2] \in Range(CastsTo[k][t])
    BY <1>1 DEF Sources
<1>3. k \in Modules
    BY LoadedAre DEF TypesInv, StructuresKept
<1> QED
    BY <1>2, <1>3 DEF TakesNoBlock

\* An object that goes away deletes its cell once, if its type has a class.
LEMMA DeletionsAre ==
    ASSUME TypesInv, NEW obj \in Objects
    PROVE  Deletions(obj) = IF obj.own /\ klass[obj.type] # None THEN 1 ELSE 0
<1>1. obj.type \in Used /\ obj.own \in BOOLEAN
    BY DEF Objects
<1>2. ASSUME klass[obj.type] # None
      PROVE  ConvertPtr(obj.type, TypeOf(klass[obj.type], obj.type[2]))
    <2> DEFINE s == obj.type
               k == klass[s]
    <2>1. k \in Loaded /\ s[2] \in Classes[k]
        BY <1>1, <1>2 DEF TypesInv, ClassesKept
    <2>2. k \in Modules
        BY <2>1, LoadedAre DEF TypesInv, StructuresKept
    <2>3. s[2] \in Declared(k)
        BY <2>1, <2>2, TypesAssumption
    <2>4. s[1] \in Loaded /\ s[2] \in Declared(s[1]) /\ TypeOf(s[1], s[2]) = s
        BY <1>1, UsedHave DEF TypesInv
    <2>5. TypeOf(k, s[2]) = s
        BY <2>1, <2>3, <2>4 DEF TypesInv, StructuresKept, CanonicalTypes
    <2> QED
        BY <2>5 DEF ConvertPtr
<1>3. Destroys(obj) <=> obj.own /\ klass[obj.type] # None
    BY <1>2 DEF Destroys
<1>4. ~Destroys(Temporary(obj))
    <2>1. Temporary(obj).own = FALSE
        BY DEF Temporary, Objects
    <2> QED
        BY <2>1 DEF Destroys
<1> QED
    BY <1>3, <1>4 DEF Deletions

-----------------------------------------------------------------------------
(***************************************************************************)
(* The invariant of the objects.                                           *)
(***************************************************************************)
\* Imports and checks take no type out of use, nor its class.
LEMMA TablesGrow ==
    ASSUME TypesInv, TypesNext
    PROVE  /\ TypesInv' /\ Used \subseteq Used'
           /\ \A s \in Used : klass[s] # None => klass'[s] # None
<1>1. TypesInv'
    BY TypesStep
<1>2. StructuresKept /\ StructuresKept'
    BY <1>1 DEF TypesInv
<1>3. ASSUME NEW m \in Modules, Import(m)
      PROVE  /\ Used \subseteq Used'
             /\ \A s \in Used : klass[s] # None => klass'[s] # None
    <2>1. Used \subseteq Used'
        <3>1. CASE m \in Loaded
            BY <1>3, <3>1 DEF Import, Used, Loaded
        <3>2. CASE m \notin Loaded
            <4>1. IsInitialised(m)
                BY <1>2, <1>3, <3>2, Initialised DEF Import
            <4> QED
                BY <4>1 DEF IsInitialised
        <3> QED
            BY <3>1, <3>2
    <2>2. DOMAIN klass = Used /\ DOMAIN cast' = Used' /\ m # None
        BY <1>2, TypesAssumption DEF StructuresKept
    <2>3. klass' = [s \in DOMAIN cast' |-> Registered(m, s)]
        BY <1>3 DEF Import
    <2>4. \A s \in Used : klass'[s] = m \/ klass'[s] = klass[s]
        BY <2>1, <2>2, <2>3 DEF Registered
    <2> QED
        BY <2>1, <2>2, <2>4
<1>4. ASSUME NEW s, NEW name, Check(s, name)
      PROVE  Used' = Used /\ klass' = klass
    BY <1>4 DEF Check, Used, Loaded
<1> QED
    BY <1>1, <1>3, <1>4 DEF TypesNext

LEMMA TablesKeepObjects ==
    ASSUME ObjectsInv, TypesNext, UNCHANGED objectVars
    PROVE  ObjectsInv'
<1>1. /\ TypesInv' /\ Used \subseteq Used'
      /\ \A s \in Used : klass[s] # None => klass'[s] # None
    BY TablesGrow DEF ObjectsInv
<1>2. UNCHANGED <<objects, cells, uses, graph, aborted>>
    BY DEF objectVars
<1>3. ObjectsTyped'
    <2>1. objects' \in [Places -> Objects' \cup {None}]
        BY <1>1, <1>2 DEF ObjectsInv, ObjectsTyped, Objects
    <2> QED
        BY <1>2, <2>1 DEF ObjectsInv, ObjectsTyped
<1>4. CellsHeld'
    BY <1>2 DEF ObjectsInv, CellsHeld, Holders
<1>5. OursDestroyed'
    <2> SUFFICES ASSUME NEW o \in Places, objects[o] # None, objects[o].type[2] \in OurTypes
                 PROVE  klass'[objects[o].type] # None
        BY <1>2 DEF OursDestroyed
    <2>1. objects[o].type \in Used
        BY DEF ObjectsInv, ObjectsTyped, Objects
    <2> QED
        BY <1>1, <2>1 DEF ObjectsInv, OursDestroyed
<1>6. UsesCounted'
    BY <1>2 DEF ObjectsInv, UsesCounted, Sharing
<1> QED
    BY <1>1, <1>3, <1>4, <1>5, <1>6 DEF ObjectsInv

\* While the tables stay as they are, only what is of the objects is left to prove.
LEMMA TablesStay ==
    ASSUME TypesInv, UNCHANGED typeVars
    PROVE  TypesInv' /\ Used' = Used /\ klass' = klass /\ Objects' = Objects
<1>1. UNCHANGED <<modules, types, cast, klass>>
    BY DEF typeVars
<1>2. TypesInv'
    BY TypesStep
<1>3. Used' = Used
    BY <1>1 DEF Used, Loaded
<1> QED
    BY <1>1, <1>2, <1>3 DEF Objects

\* A new object is at a place that was free.
FirstPlace == CHOOSE p \in FreePlaces : \A q \in FreePlaces : p <= q

LEMMA FirstPlaceIsFree ==
    FreePlaces # {} => FirstPlace \in Places /\ objects[FirstPlace] = None
<1> SUFFICES ASSUME FreePlaces # {} PROVE FirstPlace \in FreePlaces
    BY DEF FreePlaces
<1>1. FreePlaces \subseteq Nat
    BY ObjectsAssumption DEF FreePlaces, Places
<1>2. \E p \in FreePlaces : \A q \in FreePlaces : p <= q
    BY <1>1, LeastNumber
<1> QED
    BY <1>2 DEF FirstPlace

LEMMA NewPointerIs ==
    ASSUME NEW m, NEW t, NEW ptr, NEW own, FreePlaces # {}, NewPointerObj(m, t, ptr, own)
    PROVE  \E o \in Places :
               /\ objects[o] = None
               /\ objects' = [objects EXCEPT ![o] =
                                  [type |-> TypeOf(m, t), ptr |-> ptr, own |-> own]]
BY FirstPlaceIsFree DEF NewPointerObj, FirstPlace

LEMMA SharingIsFinite ==
    ASSUME ObjectsTyped, NEW b
    PROVE  /\ Sharing(b) \subseteq 1 .. Len(cells) /\ IsFiniteSet(Sharing(b))
           /\ Cardinality(Sharing(b)) \in Nat
<1>1. Len(cells) \in Nat
    BY DEF ObjectsTyped
<1>2. IsFiniteSet(1 .. Len(cells))
    BY <1>1, UpToHas
<1>3. Sharing(b) \in SUBSET (1 .. Len(cells))
    BY DEF Sharing
<1> QED
    BY <1>2, <1>3, FS_Subset, FS_CardinalityType

\* A shared_ptr on the heap and an object that owns it; what it points to is counted.
NewCellCounted(b) ==
    \/ b \in 0 .. Len(uses) /\ uses' = Counted(b, 1)
    \/ b = Len(uses) + 1 /\ uses' = Append(uses, 1)

LEMMA NewCellCounts ==
    ASSUME ObjectsTyped, UsesCounted, NEW b, NewCellCounted(b)
    PROVE  /\ uses' \in Seq(Nat) /\ Len(uses) <= Len(uses') /\ b \in 0 .. Len(uses')
           /\ \A c \in 1 .. Len(uses') :
                  uses'[c] = Cardinality(Sharing(c)) + (IF c \in graph THEN 1 ELSE 0)
                             + (IF c = b THEN 1 ELSE 0)
<1> DEFINE N == Len(uses)
<1>1. uses \in Seq(Nat) /\ N \in Nat /\ \A c \in 1 .. N : uses[c] \in Nat
    BY DEF ObjectsTyped
<1>2. CASE b \in 0 .. N /\ uses' = Counted(b, 1)
    <2>1. /\ uses' \in Seq(Nat) /\ Len(uses') = N
          /\ \A c \in 1 .. N : uses'[c] = uses[c] + (IF c = b THEN 1 ELSE 0)
        <3>1. CASE b = 0
            BY <1>1, <1>2, <3>1 DEF Counted
        <3>2. CASE b # 0
            <4>1. uses' = [uses EXCEPT ![b] = @ + 1] /\ b \in 1 .. N
                BY <1>1, <1>2, <3>2 DEF Counted
            <4>2. uses[b] + 1 \in Nat
                BY <1>1, <4>1
            <4> QED
                BY <1>1, <4>1, <4>2
        <3> QED
            BY <3>1, <3>2
    <2> QED
        BY <1>1, <1>2, <2>1 DEF UsesCounted
<1>3. CASE b = N + 1 /\ uses' = Append(uses, 1)
    <2>1. /\ uses' \in Seq(Nat) /\ Len(uses') = N + 1 /\ uses'[N + 1] = 1
          /\ \A c \in 1 .. N : uses'[c] = uses[c] /\ c # b
        BY <1>1, <1>3
    <2>2. Sharing(N + 1) = {} /\ N + 1 \notin graph
        <3>1. \A a \in 1 .. Len(cells) : cells[a].block \in 0 .. N
            <4> DEFINE S == [type : Range(NameOrder), block : 0 .. N, deleted : {0, 1}]
            <4>1. cells \in Seq(S)
                BY DEF ObjectsTyped
            <4> HIDE DEF S
            <4>2. \A a \in 1 .. Len(cells) : cells[a] \in S
                BY <4>1
            <4> QED
                BY <4>2 DEF S
        <3> QED
            BY <1>1, <3>1 DEF ObjectsTyped, Sharing
    <2>3. ASSUME NEW c \in 1 .. N + 1
          PROVE  uses'[c] = Cardinality(Sharing(c)) + (IF c \in graph THEN 1 ELSE 0)
                            + (IF c = b THEN 1 ELSE 0)
        <3>1. CASE c \in 1 .. N
            <4>1. uses[c] = Cardinality(Sharing(c)) + (IF c \in graph THEN 1 ELSE 0)
                BY <3>1 DEF UsesCounted
            <4> QED
                BY <1>1, <2>1, <3>1, <4>1
        <3>2. CASE c = N + 1
            <4>1. Cardinality(Sharing(c)) = 0
                BY <2>2, <3>2, FS_EmptySet
            <4> QED
                BY <1>3, <2>1, <2>2, <3>2, <4>1
        <3> QED
            BY <1>1, <3>1, <3>2
    <2> QED
        BY <1>1, <1>3, <2>1, <2>3
<1> QED
    BY <1>2, <1>3 DEF NewCellCounted

LEMMA NewCellKeeps ==
    ASSUME ObjectsInv, NEW m \in Loaded, NEW t \in Declared(m), t \notin BlockTypes,
           t \in OurTypes => t \in Classes[m], NEW b, NewCell(m, t, b), NewCellCounted(b),
           UNCHANGED <<typeVars, graph>>
    PROVE  ObjectsInv'
<1> USE DEF ObjectsInv
<1> DEFINE s == TypeOf(m, t)
           N == Len(cells)
           new == [type |-> t, block |-> b, deleted |-> 0]
           obj == [type |-> s, ptr |-> N + 1, own |-> TRUE]
<1>1. TypesInv' /\ Used' = Used /\ klass' = klass /\ Objects' = Objects
    BY TablesStay
<1>2. s \in Used /\ s[2] = t /\ t \in Names
    BY StructuresAreNamed DEF StructuresNamed, TypesInv
<1>3. cells' = Append(cells, new) /\ FreePlaces # {} /\ NewPointerObj(m, t, N + 1, TRUE)
    BY DEF NewCell, Fits
<1>4. PICK o \in Places : objects[o] = None /\ objects' = [objects EXCEPT ![o] = obj]
    BY <1>3, NewPointerIs
<1>5. N \in Nat /\ graph' = graph
    BY DEF ObjectsTyped
<1>6. obj \in Objects /\ obj # None
    <2>1. s \in Modules \X Names
        <3>1. s = <<s[1], s[2]>> /\ s[1] \in Loaded /\ s[2] \in Names
            BY <1>2, UsedHave DEF TypesInv
        <3>2. Loaded \subseteq Modules
            BY LoadedAre DEF TypesInv, StructuresKept
        <3> HIDE DEF s
        <3> QED
            BY <3>1, <3>2
    <2> HIDE DEF s
    <2>2. obj \in Objects
        BY <1>2, <1>5 DEF Objects
    <2>3. obj \in [type : Modules \X Range(NameOrder), ptr : Nat, own : BOOLEAN]
        BY <1>5, <2>1 DEF Names
    <2> QED
        BY <2>2, <2>3, ObjectsAssumption
<1> HIDE DEF s, obj
<1>7. /\ obj.type = s /\ obj.ptr = N + 1 /\ obj.own = TRUE
      /\ new.type = t /\ new.block = b /\ new.deleted = 0
    BY DEF obj
<1>8. /\ uses' \in Seq(Nat) /\ Len(uses) <= Len(uses') /\ b \in 0 .. Len(uses')
      /\ \A c \in 1 .. Len(uses') :
             uses'[c] = Cardinality(Sharing(c)) + (IF c \in graph THEN 1 ELSE 0)
                        + (IF c = b THEN 1 ELSE 0)
    BY NewCellCounts
<1>9. /\ Len(uses) \in Nat /\ objects \in [Places -> Objects \cup {None}]
      /\ cells \in Seq([type : Range(NameOrder), block : 0 .. Len(uses), deleted : {0, 1}])
      /\ graph \subseteq 1 .. Len(uses)
    BY DEF ObjectsTyped
<1>10. /\ cells' \in Seq([type : Range(NameOrder), block : 0 .. Len(uses'), deleted : {0, 1}])
       /\ Len(cells') = N + 1 /\ cells'[N + 1] = new /\ \A a \in 1 .. N : cells'[a] = cells[a]
    <2> DEFINE S == [type : Range(NameOrder), block : 0 .. Len(uses'), deleted : {0, 1}]
    <2>1. new \in S
        BY <1>2, <1>8 DEF Names
    <2>2. 0 .. Len(uses) \subseteq 0 .. Len(uses')
        BY <1>8, <1>9
    <2>3. cells \in Seq(S)
        <3>1. \A a \in 1 .. N : cells[a] \in S
            <4> DEFINE R == [type : Range(NameOrder), block : 0 .. Len(uses), deleted : {0, 1}]
            <4>1. cells \in Seq(R)
                BY <1>9
            <4>2. \A r \in R : r \in S
                BY <2>2
            <4> HIDE DEF R, S
            <4> QED
                BY <4>1, <4>2
        <3> HIDE DEF S
        <3> QED
            BY <1>9, <3>1
    <2> HIDE DEF S, new
    <2> QED
        BY <1>3, <2>1, <2>3 DEF S
<1> HIDE DEF new
<1>11. objects' \in [Places -> Objects \cup {None}] /\ objects'[o] = obj
       /\ \A p \in Places : p # o => objects'[p] = objects[p]
    BY <1>4, <1>6, <1>9
<1>12. ObjectsTyped'
    <2>1. graph' \subseteq 1 .. Len(uses')
        BY <1>5, <1>8, <1>9
    <2> QED
        BY <1>1, <1>8, <1>10, <1>11, <2>1 DEF ObjectsTyped
<1>13. \A p \in Places : objects[p] # None /\ objects[p].type[2] \notin BlockTypes =>
           objects[p].ptr \in 1 .. N /\ p # o
    BY <1>4 DEF CellsHeld
<1>0. PICK last : last = N + 1
    OBVIOUS
<1>14. Holders(last)' = {o}
    <2>1. \A p \in Places :
              p \in Holders(last)' <=> /\ objects'[p] # None /\ objects'[p].ptr = last
                                        /\ objects'[p].type[2] \notin BlockTypes
        BY DEF Holders
    <2>2. o \in Holders(last)'
        BY <1>0, <1>2, <1>6, <1>7, <1>11, <2>1
    <2>3. \A p \in Places : p # o => p \notin Holders(last)'
        <3> TAKE p \in Places
        <3> HAVE p # o
        <3>1. objects'[p] = objects[p]
            BY <1>11
        <3>2. last \notin 1 .. N
            BY <1>5, <1>0
        <3> QED
            BY <1>13, <2>1, <3>1, <3>2
    <2> QED
        BY <2>2, <2>3 DEF Holders
<1>15. \A a \in 1 .. N : Holders(a)' = Holders(a)
    <2> TAKE a \in 1 .. N
    <2>1. a # last
        BY <1>0, <1>5
    <2>2. \A p \in Places :
              objects'[p] # None /\ objects'[p].ptr = a /\ objects'[p].type[2] \notin BlockTypes
                  <=> objects[p] # None /\ objects[p].ptr = a /\ objects[p].type[2] \notin BlockTypes
        <3> TAKE p \in Places
        <3>1. CASE p = o
            BY <1>0, <1>4, <1>7, <1>11, <2>1, <3>1
        <3>2. CASE p # o
            BY <1>11, <3>2
        <3> QED
            BY <3>1, <3>2
    <2> QED
        BY <2>2 DEF Holders
<1>16. CellsHeld'
    <2>1. ASSUME NEW p \in Places, objects'[p] # None
          PROVE  IF objects'[p].type[2] \in BlockTypes THEN ~objects'[p].own
                 ELSE /\ objects'[p].own /\ objects'[p].ptr \in 1 .. Len(cells')
                      /\ cells'[objects'[p].ptr].type = objects'[p].type[2]
                      /\ cells'[objects'[p].ptr].deleted = 0
        <3>1. CASE p = o
            BY <1>2, <1>5, <1>7, <1>10, <1>11, <3>1
        <3>2. CASE p # o
            <4>1. objects'[p] = objects[p]
                BY <1>11, <3>2
            <4>2. CASE objects[p].type[2] \in BlockTypes
                BY <2>1, <4>1, <4>2 DEF CellsHeld
            <4>3. CASE objects[p].type[2] \notin BlockTypes
                <5>1. /\ objects[p].own /\ objects[p].ptr \in 1 .. N
                      /\ cells[objects[p].ptr].type = objects[p].type[2]
                      /\ cells[objects[p].ptr].deleted = 0
                    BY <2>1, <4>1, <4>3 DEF CellsHeld
                <5>2. objects[p].ptr \in 1 .. Len(cells')
                    BY <1>5, <1>10, <5>1
                <5> QED
                    BY <1>10, <4>1, <4>3, <5>1, <5>2
            <4> QED
                BY <4>2, <4>3
        <3> QED
            BY <3>1, <3>2
    <2>2. \A a \in 1 .. Len(cells') : a = last \/ a \in 1 .. N
        BY <1>0, <1>5, <1>10
    <2>3. \A a \in 1 .. Len(cells') : \A p, q \in Holders(a)' : p = q
        BY <1>14, <1>15, <2>2 DEF CellsHeld
    <2>4. ASSUME NEW a \in 1 .. Len(cells'), cells'[a].type \in OurTypes, cells'[a].deleted = 0
          PROVE  Holders(a)' # {}
        <3>1. CASE a = last
            BY <1>14, <3>1
        <3>2. CASE a \in 1 .. N
            <4>1. cells'[a] = cells[a]
                BY <1>10, <3>2
            <4>2. Holders(a) # {}
                BY <2>4, <3>2, <4>1 DEF CellsHeld
            <4> QED
                BY <1>15, <3>2, <4>2
        <3> QED
            BY <2>2, <3>1, <3>2
    <2> QED
        BY <2>1, <2>3, <2>4 DEF CellsHeld
<1>17. OursDestroyed'
    <2> SUFFICES ASSUME NEW p \in Places, objects'[p] # None, objects'[p].type[2] \in OurTypes
                 PROVE  klass[objects'[p].type] # None
        BY <1>1 DEF OursDestroyed
    <2>1. CASE p = o
        <3>1. t \in Classes[m]
            BY <1>2, <1>7, <1>11, <2>1
        <3>2. klass[s] # None
            BY <3>1 DEF TypesInv, ClassesKept, s
        <3> QED
            BY <1>7, <1>11, <2>1, <3>2
    <2>2. CASE p # o
        BY <1>11, <2>2 DEF OursDestroyed
    <2> QED
        BY <2>1, <2>2
<1>18. UsesCounted'
    <2>1. ASSUME NEW c \in 1 .. Len(uses')
          PROVE  Cardinality(Sharing(c)') = Cardinality(Sharing(c)) + (IF c = b THEN 1 ELSE 0)
        <3>1. Sharing(c)' = {a \in 1 .. N + 1 : cells'[a].block = c /\ cells'[a].deleted = 0}
            BY <1>10 DEF Sharing
        <3>2. \A a : a \in Sharing(c)' <=>
                  a \in Sharing(c) \/ (a = N + 1 /\ c = b)
            <4> TAKE a
            <4>1. a \in 1 .. N + 1 <=> a \in 1 .. N \/ a = N + 1
                BY <1>5
            <4>2. N + 1 \notin 1 .. N
                BY <1>5
            <4> QED
                BY <1>7, <1>10, <3>1, <4>1, <4>2 DEF Sharing
        <3>3. IsFiniteSet(Sharing(c)) /\ N + 1 \notin Sharing(c) /\ Cardinality(Sharing(c)) \in Nat
            <4>1. Sharing(c) \subseteq 1 .. N
                BY SharingIsFinite
            <4> QED
                BY <1>5, <4>1, SharingIsFinite
        <3>4. CASE c = b
            <4>1. Sharing(c)' = Sharing(c) \cup {N + 1}
                BY <3>2, <3>4
            <4>2. Cardinality(Sharing(c) \cup {N + 1}) = Cardinality(Sharing(c)) + 1
                BY <3>3, FS_AddElement
            <4>3. Cardinality(Sharing(c)') = Cardinality(Sharing(c)) + 1
                BY <4>1, <4>2
            <4> QED
                BY <3>4, <4>3
        <3>5. CASE c # b
            <4>1. Sharing(c)' = Sharing(c)
                BY <3>2, <3>5
            <4>2. Cardinality(Sharing(c)') = Cardinality(Sharing(c))
                BY <4>1
            <4> QED
                BY <3>3, <3>5, <4>2
        <3> QED
            BY <3>4, <3>5
    <2>2. ASSUME NEW c \in 1 .. Len(uses')
          PROVE  uses'[c] = Cardinality(Sharing(c)') + (IF c \in graph' THEN 1 ELSE 0)
        <3>1. Cardinality(Sharing(c)) \in Nat
            BY SharingIsFinite
        <3> QED
            BY <1>5, <1>8, <2>1, <3>1
    <2> QED
        BY <2>2 DEF UsesCounted
<1> QED
    BY <1>1, <1>12, <1>16, <1>17, <1>18

\* The address of a block, in an object that does not own it.
LEMMA NewAddressKeeps ==
    ASSUME ObjectsInv, NEW m \in Loaded, NEW t \in Declared(m), t \in BlockTypes,
           NEW ptr \in Nat, FreePlaces # {}, NewPointerObj(m, t, ptr, FALSE),
           UNCHANGED <<typeVars, cells, uses, graph>>
    PROVE  ObjectsInv'
<1> USE DEF ObjectsInv
<1> DEFINE s == TypeOf(m, t)
           obj == [type |-> s, ptr |-> ptr, own |-> FALSE]
<1>1. TypesInv' /\ Used' = Used /\ klass' = klass /\ Objects' = Objects
    BY TablesStay
<1>2. s \in Used /\ s[2] = t
    BY StructuresAreNamed DEF StructuresNamed, TypesInv
<1>3. t \notin OurTypes
    <2> SUFFICES ASSUME t \in OurTypes PROVE FALSE
        OBVIOUS
    <2>1. PICK w \in Wrappers : w.does = "make" /\ t = w.gives
        BY DEF OurTypes
    <2>2. w.gives \notin BlockTypes
        BY <2>1, ObjectsAssumption
    <2> QED
        BY <2>1, <2>2
<1>4. PICK o \in Places : objects[o] = None /\ objects' = [objects EXCEPT ![o] = obj]
    <2>1. FirstPlace \in Places /\ objects[FirstPlace] = None
        BY FirstPlaceIsFree
    <2>2. objects' = [objects EXCEPT ![FirstPlace] = obj]
        BY DEF NewPointerObj, FirstPlace
    <2> QED
        BY <2>1, <2>2
<1>5. obj \in Objects /\ obj.type = s /\ obj.own = FALSE
    BY <1>2 DEF Objects
<1> HIDE DEF obj, s
<1>6. objects' \in [Places -> Objects \cup {None}] /\ objects'[o] = obj
      /\ \A p \in Places : p # o => objects'[p] = objects[p]
    BY <1>4, <1>5 DEF ObjectsTyped
<1>7. ObjectsTyped'
    BY <1>1, <1>6 DEF ObjectsTyped
<1>8. \A a \in 1 .. Len(cells) : Holders(a)' = Holders(a)
    <2> TAKE a \in 1 .. Len(cells)
    <2>1. ASSUME NEW p \in Places
          PROVE  objects'[p] # None /\ objects'[p].ptr = a /\ objects'[p].type[2] \notin BlockTypes
                     <=> objects[p] # None /\ objects[p].ptr = a
                         /\ objects[p].type[2] \notin BlockTypes
        <3>1. CASE p = o
            BY <1>2, <1>4, <1>5, <1>6, <3>1
        <3>2. CASE p # o
            BY <1>6, <3>2
        <3> QED
            BY <3>1, <3>2
    <2> QED
        BY <2>1 DEF Holders
<1>9. CellsHeld'
    <2>1. ASSUME NEW p \in Places, objects'[p] # None
          PROVE  IF objects'[p].type[2] \in BlockTypes THEN ~objects'[p].own
                 ELSE /\ objects'[p].own /\ objects'[p].ptr \in 1 .. Len(cells)
                      /\ cells[objects'[p].ptr].type = objects'[p].type[2]
                      /\ cells[objects'[p].ptr].deleted = 0
        <3>1. CASE p = o
            BY <1>2, <1>5, <1>6, <3>1
        <3>2. CASE p # o
            BY <1>6, <2>1, <3>2 DEF CellsHeld
        <3> QED
            BY <3>1, <3>2
    <2> QED
        BY <1>8, <2>1 DEF CellsHeld
<1>10. OursDestroyed'
    <2> SUFFICES ASSUME NEW p \in Places, objects'[p] # None, objects'[p].type[2] \in OurTypes
                 PROVE  klass[objects'[p].type] # None
        BY <1>1 DEF OursDestroyed
    <2>1. p # o
        BY <1>2, <1>3, <1>5, <1>6
    <2> QED
        BY <1>6, <2>1 DEF OursDestroyed
<1>11. UsesCounted'
    BY DEF UsesCounted, Sharing
<1> QED
    BY <1>1, <1>7, <1>9, <1>10, <1>11

\* The object of a call of a method holds a shared_ptr.
LEMMA BlockOfIs ==
    ASSUME ObjectsInv, NEW row \in Shapes, row.module \in Loaded, IsMethod(row),
           NEW args \in Arguments(row), Accepts(row, args)
    PROVE  BlockOf(args) \in 0 .. Len(uses)
<1> USE DEF ObjectsInv
<1>1. PICK w \in Wrappers : row = [module |-> w.module, takes |-> w.takes, does |-> w.does,
                                   gives |-> w.gives]
    BY DEF Shapes
<1>2. \A params \in row.takes :
          /\ 1 \in DOMAIN params /\ params[1].by \in {"pointer", "value"}
          /\ params[1].of \in Declared(row.module) /\ TakesNoBlock(params[1].of)
    BY <1>1, ObjectsAssumption DEF IsMethod
<1>3. PICK passed \in row.takes :
          /\ DOMAIN args = DOMAIN passed
          /\ \A i \in DOMAIN passed : args[i] \in Passed(row, passed[i], i)
    <2>1. PICK passed \in row.takes :
              args \in LET any == UNION {Passed(row, passed[i], i) : i \in DOMAIN passed}
                       IN  {as \in [DOMAIN passed -> any] :
                               \A i \in DOMAIN passed : as[i] \in Passed(row, passed[i], i)}
        BY DEF Arguments
    <2> QED
        BY <2>1
<1>4. 1 \in DOMAIN args /\ args[1] \in ObjectArgs
    <2>1. args[1] \in Passed(row, passed[1], 1) /\ 1 \in DOMAIN args
        BY <1>2, <1>3
    <2>2. passed[1].by \in {"pointer", "value"}
        BY <1>2
    <2> QED
        BY <2>1, <2>2 DEF Passed, IsMethod
<1>5. PICK o \in Places : args[1] = [is |-> "object", v |-> o] /\ objects[o] # None
    BY <1>4 DEF ObjectArgs
<1>6. PICK params \in row.takes : \A i \in DOMAIN args : Converts(row.module, args[i], params[i])
    BY DEF Accepts
<1>7. ConvertPtr(objects[o].type, TypeOf(row.module, params[1].of))
    <2>1. Converts(row.module, args[1], params[1])
        BY <1>4, <1>6
    <2>2. params[1].by \in {"pointer", "value"} /\ args[1].is = "object" /\ args[1].v = o
        BY <1>2, <1>5
    <2> QED
        BY <2>1, <2>2 DEF Converts
<1>8. objects[o].type[2] \notin BlockTypes
    BY <1>2, <1>7, ConvertedIsNoBlock
<1>9. objects[o].ptr \in 1 .. Len(cells)
    BY <1>5, <1>8 DEF CellsHeld
<1>10. \A a \in 1 .. Len(cells) : cells[a].block \in 0 .. Len(uses)
    <2> DEFINE S == [type : Range(NameOrder), block : 0 .. Len(uses), deleted : {0, 1}]
    <2>1. cells \in Seq(S)
        BY DEF ObjectsTyped
    <2> HIDE DEF S
    <2>2. \A a \in 1 .. Len(cells) : cells[a] \in S
        BY <2>1
    <2> QED
        BY <2>2 DEF S
<1> QED
    BY <1>5, <1>9, <1>10 DEF BlockOf

LEMMA CallKeeps ==
    ASSUME ObjectsInv, NEW row \in Shapes, row.module \in Loaded,
           NEW args \in Arguments(row), Call(row, args)
    PROVE  ObjectsInv'
<1>1. PICK w \in Wrappers : row = [module |-> w.module, takes |-> w.takes, does |-> w.does,
                                   gives |-> w.gives]
    BY DEF Shapes
<1>2. /\ row.does \in {"copy", "share", "new", "make", "deref"} =>
              /\ row.gives \in Declared(row.module)
              /\ row.gives \in OurTypes => row.gives \in Classes[row.module]
      /\ row.does \in {"copy", "share", "new", "make"} => row.gives \notin BlockTypes
      /\ row.does = "deref" => row.gives \in BlockTypes
    BY <1>1, ObjectsAssumption DEF BlockTypes
<1>3. Accepts(row, args) /\ UNCHANGED typeVars
    BY DEF Call
<1>4. Len(uses) \in Nat
    BY DEF ObjectsInv, ObjectsTyped
<1>5. CASE Copy(row, args)
    <2>1. row.does = "copy" /\ NewCell(row.module, row.gives, 0) /\ UNCHANGED <<uses, graph>>
        BY <1>5 DEF Copy
    <2>2. NewCellCounted(0)
        BY <1>4, <2>1 DEF NewCellCounted, Counted
    <2> QED
        BY <1>2, <1>3, <2>1, <2>2, NewCellKeeps
<1>6. CASE ToBasicBlock(row, args)
    <2>1. /\ row.does = "share" /\ NewCell(row.module, row.gives, BlockOf(args))
          /\ uses' = Counted(BlockOf(args), 1) /\ graph' = graph
        BY <1>6 DEF ToBasicBlock, Shared
    <2>2. NewCellCounted(BlockOf(args))
        <3>1. BlockOf(args) \in 0 .. Len(uses)
            BY <1>3, <2>1, BlockOfIs DEF IsMethod
        <3> QED
            BY <2>1, <3>1 DEF NewCellCounted
    <2> QED
        BY <1>2, <1>3, <2>1, <2>2, NewCellKeeps
<1>7. CASE Dereference(row, args)
    <2>1. /\ row.does = "deref" /\ FreePlaces # {}
          /\ NewPointerObj(row.module, row.gives, BlockOf(args), FALSE)
          /\ UNCHANGED <<cells, uses, graph>>
        BY <1>7 DEF Dereference
    <2>2. BlockOf(args) \in Nat
        BY <1>3, <1>4, <2>1, BlockOfIs DEF IsMethod
    <2> QED
        BY <1>2, <1>3, <2>1, <2>2, NewAddressKeeps
<1>8. CASE NewEmpty(row, args)
    <2>1. row.does = "new" /\ NewCell(row.module, row.gives, 0) /\ UNCHANGED <<uses, graph>>
        BY <1>8 DEF NewEmpty
    <2>2. NewCellCounted(0)
        BY <1>4, <2>1 DEF NewCellCounted, Counted
    <2> QED
        BY <1>2, <1>3, <2>1, <2>2, NewCellKeeps
<1>9. CASE Make(row, args)
    <2>1. /\ row.does = "make" /\ NewCell(row.module, row.gives, Len(uses) + 1)
          /\ uses' = Append(uses, 1) /\ graph' = graph
        BY <1>9 DEF Make
    <2>2. NewCellCounted(Len(uses) + 1)
        BY <2>1 DEF NewCellCounted
    <2> QED
        BY <1>2, <1>3, <2>1, <2>2, NewCellKeeps
<1> QED
    BY <1>5, <1>6, <1>7, <1>8, <1>9 DEF Call

LEMMA BlocksOfCells ==
    ASSUME ObjectsTyped
    PROVE  \A a \in 1 .. Len(cells) :
               /\ cells[a].block \in 0 .. Len(uses) /\ cells[a].deleted \in {0, 1}
               /\ cells[a].type \in Range(NameOrder)
               /\ cells[a] = [type |-> cells[a].type, block |-> cells[a].block,
                              deleted |-> cells[a].deleted]
<1> DEFINE S == [type : Range(NameOrder), block : 0 .. Len(uses), deleted : {0, 1}]
<1>1. cells \in Seq(S)
    BY DEF ObjectsTyped
<1> HIDE DEF S
<1>2. \A a \in 1 .. Len(cells) : cells[a] \in S
    BY <1>1
<1>3. \A r \in S : /\ r.block \in 0 .. Len(uses) /\ r.deleted \in {0, 1}
                   /\ r.type \in Range(NameOrder)
                   /\ r = [type |-> r.type, block |-> r.block, deleted |-> r.deleted]
    BY DEF S
<1> QED
    BY <1>2, <1>3

\* What one more, or one less, that points to a block does to its count.
LEMMA CountedIs ==
    ASSUME ObjectsTyped, UsesCounted, NEW b \in 0 .. Len(uses), NEW n \in Int, n >= 0 - 1,
           n < 0 /\ b # 0 => uses[b] >= 1, uses' = Counted(b, n)
    PROVE  /\ uses' \in Seq(Nat) /\ Len(uses') = Len(uses)
           /\ \A c \in 1 .. Len(uses) :
                  uses'[c] = Cardinality(Sharing(c)) + (IF c \in graph THEN 1 ELSE 0)
                             + (IF c = b THEN n ELSE 0)
<1> DEFINE N == Len(uses)
<1>1. uses \in Seq(Nat) /\ N \in Nat /\ \A c \in 1 .. N : uses[c] \in Nat
    BY DEF ObjectsTyped
<1>2. /\ uses' \in Seq(Nat) /\ Len(uses') = N
      /\ \A c \in 1 .. N : uses'[c] = uses[c] + (IF c = b THEN n ELSE 0)
    <2>1. CASE b = 0
        BY <1>1, <2>1 DEF Counted
    <2>2. CASE b # 0
        <3>1. uses' = [uses EXCEPT ![b] = @ + n] /\ b \in 1 .. N
            BY <1>1, <2>2 DEF Counted
        <3>2. uses[b] + n \in Nat
            BY <1>1, <2>2, <3>1
        <3> QED
            BY <1>1, <3>1, <3>2
    <2> QED
        BY <2>1, <2>2
<1> QED
    BY <1>2 DEF UsesCounted

\* An object goes away without its cell.
LEMMA ForgetKeeps ==
    ASSUME ObjectsInv, NEW o \in Places, objects[o] # None,
           ~objects[o].own \/ klass[objects[o].type] = None,
           objects' = [objects EXCEPT ![o] = None],
           UNCHANGED <<typeVars, cells, uses, graph>>
    PROVE  ObjectsInv'
<1> USE DEF ObjectsInv
<1>1. TypesInv' /\ Used' = Used /\ klass' = klass /\ Objects' = Objects
    BY TablesStay
<1>2. objects' \in [Places -> Objects \cup {None}] /\ objects'[o] = None
      /\ \A p \in Places : p # o => objects'[p] = objects[p]
    BY DEF ObjectsTyped
<1>3. ObjectsTyped'
    BY <1>1, <1>2 DEF ObjectsTyped
<1>4. \A a \in 1 .. Len(cells) : Holders(a)' = Holders(a) \ {o}
    <2> TAKE a \in 1 .. Len(cells)
    <2>1. \A p \in Places :
              objects'[p] # None /\ objects'[p].ptr = a /\ objects'[p].type[2] \notin BlockTypes
                  <=> p # o /\ objects[p] # None /\ objects[p].ptr = a
                      /\ objects[p].type[2] \notin BlockTypes
        <3> TAKE p \in Places
        <3>1. CASE p = o
            BY <1>2, <3>1
        <3>2. CASE p # o
            BY <1>2, <3>2
        <3> QED
            BY <3>1, <3>2
    <2> QED
        BY <2>1 DEF Holders
<1>5. ASSUME NEW a \in 1 .. Len(cells), cells[a].type \in OurTypes, cells[a].deleted = 0
      PROVE  Holders(a) \ {o} # {}
    <2>1. o \notin Holders(a)
        <3> SUFFICES ASSUME o \in Holders(a) PROVE FALSE
            OBVIOUS
        <3>1. objects[o].ptr = a /\ objects[o].type[2] \notin BlockTypes
            BY DEF Holders
        <3>2. objects[o].own /\ objects[o].type[2] = cells[a].type
            BY <3>1 DEF CellsHeld
        <3>3. klass[objects[o].type] # None
            BY <1>5, <3>2 DEF OursDestroyed
        <3> QED
            BY <3>2, <3>3
    <2>2. Holders(a) # {}
        BY <1>5 DEF CellsHeld
    <2> QED
        BY <2>1, <2>2
<1>6. CellsHeld'
    <2>1. ASSUME NEW p \in Places, objects'[p] # None
          PROVE  IF objects'[p].type[2] \in BlockTypes THEN ~objects'[p].own
                 ELSE /\ objects'[p].own /\ objects'[p].ptr \in 1 .. Len(cells)
                      /\ cells[objects'[p].ptr].type = objects'[p].type[2]
                      /\ cells[objects'[p].ptr].deleted = 0
        <3>1. objects'[p] = objects[p]
            BY <1>2, <2>1
        <3> QED
            BY <2>1, <3>1 DEF CellsHeld
    <2>2. \A a \in 1 .. Len(cells) : \A p, q \in Holders(a)' : p = q
        BY <1>4 DEF CellsHeld
    <2>3. \A a \in 1 .. Len(cells) :
              cells[a].type \in OurTypes /\ cells[a].deleted = 0 => Holders(a)' # {}
        BY <1>4, <1>5
    <2> QED
        BY <2>1, <2>2, <2>3 DEF CellsHeld
<1>7. OursDestroyed'
    BY <1>1, <1>2 DEF OursDestroyed
<1>8. UsesCounted'
    BY DEF UsesCounted, Sharing
<1> QED
    BY <1>1, <1>3, <1>6, <1>7, <1>8

\* It goes away and deletes its cell.
LEMMA DeleteKeeps ==
    ASSUME ObjectsInv, NEW o \in Places, objects[o] # None, objects[o].own,
           objects' = [objects EXCEPT ![o] = None],
           cells' = [cells EXCEPT ![objects[o].ptr].deleted = @ + 1],
           uses' = Counted(cells[objects[o].ptr].block, -1), UNCHANGED <<typeVars, graph>>
    PROVE  ObjectsInv'
<1> USE DEF ObjectsInv
<1>1. TypesInv' /\ Used' = Used /\ klass' = klass /\ Objects' = Objects
    BY TablesStay
<1>2. objects' \in [Places -> Objects \cup {None}] /\ objects'[o] = None
      /\ \A p \in Places : p # o => objects'[p] = objects[p]
    BY DEF ObjectsTyped
<1>3. PICK d : d = objects[o].ptr
    OBVIOUS
<1>4. /\ objects[o].type[2] \notin BlockTypes /\ d \in 1 .. Len(cells)
      /\ cells[d].deleted = 0 /\ o \in Holders(d)
    BY <1>3 DEF CellsHeld, Holders
<1>5. PICK b : b = cells[d].block
    OBVIOUS
<1>6. b \in 0 .. Len(uses) /\ Len(uses) \in Nat /\ Len(cells) \in Nat
    <2>1. cells[d].block \in 0 .. Len(uses)
        BY <1>4, BlocksOfCells
    <2> QED
        BY <1>5, <2>1 DEF ObjectsTyped
<1>7. /\ Len(cells') = Len(cells) /\ cells'[d].deleted = 1 /\ cells'[d].type = cells[d].type
      /\ cells'[d].block = b /\ \A a \in 1 .. Len(cells) : a # d => cells'[a] = cells[a]
      /\ cells' \in Seq([type : Range(NameOrder), block : 0 .. Len(uses), deleted : {0, 1}])
    <2> DEFINE S == [type : Range(NameOrder), block : 0 .. Len(uses), deleted : {0, 1}]
               new == [cells[d] EXCEPT !.deleted = @ + 1]
    <2>1. new = [type |-> cells[d].type, block |-> b, deleted |-> 1]
        <3>1. cells[d] = [type |-> cells[d].type, block |-> cells[d].block,
                          deleted |-> cells[d].deleted]
            BY <1>4, BlocksOfCells
        <3>2. cells[d].deleted + 1 = 1
            BY <1>4
        <3> QED
            BY <1>5, <3>1, <3>2
    <2>2. new \in S
        <3>1. cells[d].type \in Range(NameOrder)
            BY <1>4, BlocksOfCells
        <3> QED
            BY <1>6, <2>1, <3>1
    <2>3. cells' = [cells EXCEPT ![d] = new] /\ cells \in Seq(S)
        BY <1>3 DEF ObjectsTyped
    <2>4. new.deleted = 1 /\ new.type = cells[d].type /\ new.block = b
        BY <2>1
    <2> HIDE DEF S, new
    <2>5. /\ cells' \in Seq(S) /\ Len(cells') = Len(cells) /\ cells'[d] = new
          /\ \A a \in 1 .. Len(cells) : a # d => cells'[a] = cells[a]
        <3>1. d \in 1 .. Len(cells)
            BY <1>4
        <3>2. LET t == [cells EXCEPT ![d] = new]
              IN  /\ t \in Seq(S) /\ Len(t) = Len(cells) /\ t[d] = new
                  /\ \A a \in 1 .. Len(cells) : a # d => t[a] = cells[a]
            BY <2>2, <2>3, <3>1, ReplacedElement
        <3> QED
            BY <2>3, <3>2
    <2> QED
        BY <2>4, <2>5 DEF S
<1>8. \A c : Sharing(c)' = IF c = b THEN Sharing(c) \ {d} ELSE Sharing(c)
    <2> TAKE c
    <2>1. \A a \in 1 .. Len(cells) :
              cells'[a].block = c /\ cells'[a].deleted = 0
                  <=> a # d /\ cells[a].block = c /\ cells[a].deleted = 0
        <3> TAKE a \in 1 .. Len(cells)
        <3>1. CASE a = d
            BY <1>7, <3>1
        <3>2. CASE a # d
            BY <1>7, <3>2
        <3> QED
            BY <3>1, <3>2
    <2>2. c # b => d \notin Sharing(c)
        BY <1>5 DEF Sharing
    <2>3. Sharing(c)' = Sharing(c) \ {d}
        BY <1>7, <2>1 DEF Sharing
    <2> QED
        BY <2>2, <2>3
<1>9. d \in Sharing(b)
    BY <1>4, <1>5 DEF Sharing
<1>10. \A c : /\ Cardinality(Sharing(c)) \in Nat
              /\ Cardinality(Sharing(c)') = Cardinality(Sharing(c)) - (IF c = b THEN 1 ELSE 0)
              /\ Cardinality(Sharing(c)') \in Nat
    <2> TAKE c
    <2>1. IsFiniteSet(Sharing(c)) /\ Cardinality(Sharing(c)) \in Nat
        BY SharingIsFinite
    <2>2. CASE c = b
        <3>1. Sharing(c)' = Sharing(c) \ {d}
            BY <1>8, <2>2
        <3>2. /\ IsFiniteSet(Sharing(c) \ {d})
              /\ Cardinality(Sharing(c) \ {d}) = Cardinality(Sharing(c)) - 1
            BY <1>9, <2>1, <2>2, FS_RemoveElement
        <3>3. Cardinality(Sharing(c) \ {d}) \in Nat
            BY <3>2, FS_CardinalityType
        <3> QED
            BY <2>1, <2>2, <3>1, <3>2, <3>3
    <2>3. CASE c # b
        BY <1>8, <2>1, <2>3
    <2> QED
        BY <2>2, <2>3
<1>11. /\ uses' \in Seq(Nat) /\ Len(uses') = Len(uses)
       /\ \A c \in 1 .. Len(uses) :
              uses'[c] = Cardinality(Sharing(c)) + (IF c \in graph THEN 1 ELSE 0)
                         + (IF c = b THEN -1 ELSE 0)
    <2>1. b # 0 => uses[b] >= 1
        <3> HAVE b # 0
        <3>1. b \in 1 .. Len(uses)
            BY <1>6
        <3>2. uses[b] = Cardinality(Sharing(b)) + (IF b \in graph THEN 1 ELSE 0)
            BY <3>1 DEF UsesCounted
        <3>3. Cardinality(Sharing(b)) \in Nat /\ Cardinality(Sharing(b)) - 1 \in Nat
            BY <1>10
        <3>4. PICK k : k = Cardinality(Sharing(b))
            OBVIOUS
        <3>5. k \in Nat /\ k - 1 \in Nat
            BY <3>3, <3>4
        <3>6. uses[b] = k + (IF b \in graph THEN 1 ELSE 0)
            BY <3>2, <3>4
        <3> QED
            BY <3>5, <3>6
    <2>2. uses' = Counted(b, -1)
        BY <1>3, <1>5
    <2> QED
        BY <1>6, <2>1, <2>2, CountedIs
<1>12. UsesCounted'
    <2>1. ASSUME NEW c \in 1 .. Len(uses)
          PROVE  uses'[c] = Cardinality(Sharing(c)') + (IF c \in graph THEN 1 ELSE 0)
        BY <1>10, <1>11
    <2> QED
        BY <1>11, <2>1 DEF UsesCounted
<1>13. ObjectsTyped'
    BY <1>1, <1>2, <1>7, <1>11 DEF ObjectsTyped
<1>14. \A p \in Places : p # o /\ objects[p] # None /\ objects[p].type[2] \notin BlockTypes
                             => objects[p].ptr # d
    <2> SUFFICES ASSUME NEW p \in Places, p # o, objects[p] # None,
                        objects[p].type[2] \notin BlockTypes, objects[p].ptr = d
                 PROVE  FALSE
        OBVIOUS
    <2>1. p \in Holders(d)
        BY DEF Holders
    <2> QED
        BY <1>4, <2>1 DEF CellsHeld
<1>15. \A a \in 1 .. Len(cells) : Holders(a)' \subseteq Holders(a)
                                  /\ (a # d => Holders(a)' = Holders(a))
    <2> TAKE a \in 1 .. Len(cells)
    <2>1. \A p \in Places :
              objects'[p] # None /\ objects'[p].ptr = a /\ objects'[p].type[2] \notin BlockTypes
                  <=> p # o /\ objects[p] # None /\ objects[p].ptr = a
                      /\ objects[p].type[2] \notin BlockTypes
        <3> TAKE p \in Places
        <3>1. CASE p = o
            BY <1>2, <3>1
        <3>2. CASE p # o
            BY <1>2, <3>2
        <3> QED
            BY <3>1, <3>2
    <2>2. Holders(a)' = Holders(a) \ {o}
        BY <2>1 DEF Holders
    <2>3. a # d => o \notin Holders(a)
        BY <1>3 DEF Holders
    <2> QED
        BY <2>2, <2>3
<1>16. CellsHeld'
    <2>1. ASSUME NEW p \in Places, objects'[p] # None
          PROVE  IF objects'[p].type[2] \in BlockTypes THEN ~objects'[p].own
                 ELSE /\ objects'[p].own /\ objects'[p].ptr \in 1 .. Len(cells')
                      /\ cells'[objects'[p].ptr].type = objects'[p].type[2]
                      /\ cells'[objects'[p].ptr].deleted = 0
        <3>1. objects'[p] = objects[p] /\ p # o
            BY <1>2, <2>1
        <3>2. CASE objects[p].type[2] \in BlockTypes
            BY <2>1, <3>1, <3>2 DEF CellsHeld
        <3>3. CASE objects[p].type[2] \notin BlockTypes
            <4>1. /\ objects[p].own /\ objects[p].ptr \in 1 .. Len(cells)
                  /\ cells[objects[p].ptr].type = objects[p].type[2]
                  /\ cells[objects[p].ptr].deleted = 0
                BY <2>1, <3>1, <3>3 DEF CellsHeld
            <4>2. objects[p].ptr # d
                BY <1>14, <2>1, <3>1, <3>3
            <4>3. cells'[objects[p].ptr] = cells[objects[p].ptr] /\ Len(cells') = Len(cells)
                BY <1>7, <4>1, <4>2
            <4> QED
                BY <3>1, <3>3, <4>1, <4>3
        <3> QED
            BY <3>2, <3>3
    <2>2. ASSUME NEW a \in 1 .. Len(cells') PROVE \A p, q \in Holders(a)' : p = q
        <3>1. a \in 1 .. Len(cells)
            BY <1>7
        <3>2. Holders(a)' \subseteq Holders(a)
            BY <1>15, <3>1
        <3> QED
            BY <3>1, <3>2 DEF CellsHeld
    <2>3. ASSUME NEW a \in 1 .. Len(cells'), cells'[a].type \in OurTypes, cells'[a].deleted = 0
          PROVE  Holders(a)' # {}
        <3>1. a # d /\ a \in 1 .. Len(cells)
            BY <1>7, <2>3
        <3>2. cells'[a] = cells[a]
            BY <1>7, <3>1
        <3> QED
            BY <1>15, <2>3, <3>1, <3>2 DEF CellsHeld
    <2> QED
        BY <2>1, <2>2, <2>3 DEF CellsHeld
<1>17. OursDestroyed'
    BY <1>1, <1>2 DEF OursDestroyed
<1> QED
    BY <1>1, <1>12, <1>13, <1>16, <1>17

LEMMA DeallocKeeps ==
    ASSUME ObjectsInv, NEW o \in Places, Dealloc(o)
    PROVE  ObjectsInv'
<1> DEFINE obj == objects[o]
           n == Deletions(obj)
<1>1. /\ objects[o] # None /\ objects' = [objects EXCEPT ![o] = None]
      /\ UNCHANGED <<typeVars, graph>>
      /\ IF n = 0 THEN UNCHANGED <<cells, uses>>
         ELSE /\ cells' = [cells EXCEPT ![obj.ptr].deleted = @ + n]
              /\ uses' = Counted(cells[obj.ptr].block, -n)
    BY DEF Dealloc
<1>2. n = IF obj.own /\ klass[obj.type] # None THEN 1 ELSE 0
    <2>1. obj \in Objects
        BY <1>1 DEF ObjectsInv, ObjectsTyped
    <2> HIDE DEF obj
    <2> QED
        BY <2>1, DeletionsAre DEF ObjectsInv
<1> HIDE DEF n
<1>3. CASE obj.own /\ klass[obj.type] # None
    <2>1. n = 1
        BY <1>2, <1>3
    <2>2. /\ cells' = [cells EXCEPT ![obj.ptr].deleted = @ + 1]
          /\ uses' = Counted(cells[obj.ptr].block, -1)
        BY <1>1, <2>1
    <2> QED
        BY <1>1, <1>3, <2>2, DeleteKeeps
<1>4. CASE ~obj.own \/ klass[obj.type] = None
    <2>1. n = 0
        BY <1>2, <1>4
    <2>2. UNCHANGED <<cells, uses>>
        BY <1>1, <2>1
    <2> QED
        BY <1>1, <1>4, <2>2, ForgetKeeps
<1> QED
    BY <1>3, <1>4

\* A flow graph takes a shared_ptr to a block, or drops the one it has.
LEMMA GraphKeeps ==
    ASSUME ObjectsInv, NEW b \in 1 .. Len(uses), NEW n \in {1, 0 - 1},
           n = 1 => b \notin graph /\ graph' = graph \cup {b},
           n # 1 => b \in graph /\ graph' = graph \ {b},
           uses' = Counted(b, n), UNCHANGED <<typeVars, objects, cells>>
    PROVE  ObjectsInv'
<1> USE DEF ObjectsInv
<1>1. TypesInv' /\ Used' = Used /\ klass' = klass /\ Objects' = Objects
    BY TablesStay
<1>2. \A c : Sharing(c)' = Sharing(c) /\ Holders(c)' = Holders(c)
    BY DEF Sharing, Holders
<1>3. Len(uses) \in Nat /\ Cardinality(Sharing(b)) \in Nat
    BY SharingIsFinite DEF ObjectsTyped
<1>4. n < 0 => uses[b] >= 1
    BY <1>3 DEF UsesCounted
<1>5. /\ uses' \in Seq(Nat) /\ Len(uses') = Len(uses)
      /\ \A c \in 1 .. Len(uses) :
             uses'[c] = Cardinality(Sharing(c)) + (IF c \in graph THEN 1 ELSE 0)
                        + (IF c = b THEN n ELSE 0)
    <2>1. b \in 0 .. Len(uses) /\ n \in Int /\ n >= 0 - 1
        BY <1>3
    <2> QED
        BY <1>4, <2>1, CountedIs
<1>6. ObjectsTyped'
    BY <1>1, <1>5 DEF ObjectsTyped
<1>7. UsesCounted'
    <2>1. ASSUME NEW c \in 1 .. Len(uses)
          PROVE  uses'[c] = Cardinality(Sharing(c)) + (IF c \in graph' THEN 1 ELSE 0)
        <3>1. Cardinality(Sharing(c)) \in Nat
            BY SharingIsFinite
        <3>2. CASE c = b
            BY <1>5, <3>1, <3>2
        <3>3. CASE c # b
            BY <1>5, <3>1, <3>3
        <3> QED
            BY <3>2, <3>3
    <2> QED
        BY <1>2, <1>5, <2>1 DEF UsesCounted
<1>8. CellsHeld'
    BY <1>2 DEF CellsHeld
<1>9. OursDestroyed'
    BY <1>1 DEF OursDestroyed
<1> QED
    BY <1>1, <1>6, <1>7, <1>8, <1>9

LEMMA ConnectKeeps ==
    ASSUME ObjectsInv, NEW o \in Places, Connect(o)
    PROVE  ObjectsInv'
<1>1. PICK b : b = cells[objects[o].ptr].block
    OBVIOUS
<1>2. /\ Core \in Loaded /\ objects[o] # None
      /\ ConvertPtr(objects[o].type, TypeOf(Core, "gr_basic_block_sptr"))
      /\ b \notin graph \cup {0} /\ graph' = graph \cup {b} /\ uses' = Counted(b, 1)
      /\ UNCHANGED <<typeVars, objects, cells>>
    BY <1>1 DEF Connect
<1>3. Core \in Modules
    BY <1>2 DEF ObjectsInv, TypesInv, StructuresKept, Loaded, Range
<1>4. objects[o].type[2] \notin BlockTypes
    BY <1>2, <1>3, ConvertedIsNoBlock, ObjectsAssumption DEF ObjectsInv
<1>5. objects[o].ptr \in 1 .. Len(cells)
    BY <1>2, <1>4 DEF ObjectsInv, CellsHeld
<1>6. b \in 0 .. Len(uses) /\ Len(uses) \in Nat
    <2>1. ObjectsTyped
        BY DEF ObjectsInv
    <2>2. cells[objects[o].ptr].block \in 0 .. Len(uses)
        BY <1>5, <2>1, BlocksOfCells
    <2> QED
        BY <1>1, <2>1, <2>2 DEF ObjectsTyped
<1>7. b \in 1 .. Len(uses)
    BY <1>2, <1>6
<1> QED
    BY <1>2, <1>7, GraphKeeps

LEMMA DisconnectKeeps ==
    ASSUME ObjectsInv, NEW b \in graph, Disconnect(b)
    PROVE  ObjectsInv'
<1>1. b \in 1 .. Len(uses)
    BY DEF ObjectsInv, ObjectsTyped
<1>2. /\ graph' = graph \ {b} /\ uses' = Counted(b, 0 - 1)
      /\ UNCHANGED <<typeVars, objects, cells>>
    BY DEF Disconnect
<1> QED
    BY <1>1, <1>2, GraphKeeps

LEMMA MsgQueueKeeps ==
    ASSUME ObjectsInv, MsgQueue
    PROVE  ObjectsInv'
<1> DEFINE t == "gr_msg_queue_sptr"
<1>1. Core \in Loaded /\ NewCell(Core, t, 0) /\ UNCHANGED <<typeVars, uses, graph>>
    BY DEF MsgQueue
<1>2. Core \in Modules
    BY <1>1 DEF ObjectsInv, TypesInv, StructuresKept, Loaded, Range
<1>3. t \in Declared(Core) /\ t \notin BlockTypes /\ t \notin OurTypes
    BY <1>2, ObjectsAssumption
<1>4. NewCellCounted(0)
    BY <1>1 DEF NewCellCounted, Counted, ObjectsInv, ObjectsTyped
<1> QED
    BY <1>1, <1>3, <1>4, NewCellKeeps

\* Nothing is left, and nothing was there at first.
LEMMA NothingKeeps ==
    ASSUME objects = [o \in Places |-> None], cells = <<>>, uses = <<>>, graph = {}
    PROVE  ObjectsTyped /\ CellsHeld /\ OursDestroyed /\ UsesCounted
<1>1. Len(cells) = 0 /\ Len(uses) = 0 /\ 1 .. Len(cells) = {} /\ 1 .. Len(uses) = {}
    OBVIOUS
<1>2. \A o \in Places : objects[o] = None
    OBVIOUS
<1>3. ObjectsTyped
    <2>1. objects \in [Places -> Objects \cup {None}]
        OBVIOUS
    <2>2. \A S : cells \in Seq(S) /\ uses \in Seq(S)
        OBVIOUS
    <2> QED
        BY <2>1, <2>2 DEF ObjectsTyped
<1> QED
    BY <1>1, <1>2, <1>3 DEF CellsHeld, OursDestroyed, UsesCounted

LEMMA AbortKeeps ==
    ASSUME ObjectsInv, NEW rows, Abort(rows)
    PROVE  ObjectsInv'
<1>1. /\ UNCHANGED typeVars /\ objects' = [o \in Places |-> None]
      /\ cells' = <<>> /\ uses' = <<>> /\ graph' = {}
    BY DEF Abort
<1>2. TypesInv'
    BY <1>1, TablesStay DEF ObjectsInv
<1>3. (ObjectsTyped /\ CellsHeld /\ OursDestroyed /\ UsesCounted)'
    <2>1. 1 .. Len(cells') = {} /\ 1 .. Len(uses') = {} /\ Len(uses') = 0
        BY <1>1
    <2>2. \A o \in Places : objects'[o] = None
        BY <1>1
    <2>3. objects' \in [Places -> Objects' \cup {None}]
        BY <1>1
    <2>4. \A S : cells' \in Seq(S) /\ uses' \in Seq(S)
        BY <1>1
    <2>5. ObjectsTyped'
        BY <1>1, <2>3, <2>4 DEF ObjectsTyped
    <2> QED
        BY <2>1, <2>2, <2>5 DEF CellsHeld, OursDestroyed, UsesCounted
<1> QED
    BY <1>2, <1>3 DEF ObjectsInv

LEMMA StutterKeeps ==
    ASSUME ObjectsInv, UNCHANGED vars
    PROVE  ObjectsInv'
<1>1. UNCHANGED typeVars /\ UNCHANGED <<objects, cells, uses, graph>>
    BY DEF vars, objectVars
<1>2. TypesInv' /\ Used' = Used /\ klass' = klass /\ Objects' = Objects
    BY <1>1, TablesStay DEF ObjectsInv
<1>3. \A c : Sharing(c)' = Sharing(c) /\ Holders(c)' = Holders(c)
    BY <1>1 DEF Sharing, Holders
<1>4. ObjectsTyped'
    BY <1>1, <1>2 DEF ObjectsInv, ObjectsTyped
<1>5. CellsHeld'
    BY <1>1, <1>3 DEF ObjectsInv, CellsHeld
<1>6. OursDestroyed'
    BY <1>1, <1>2 DEF ObjectsInv, OursDestroyed
<1>7. UsesCounted'
    BY <1>1, <1>3 DEF ObjectsInv, UsesCounted
<1> QED
    BY <1>2, <1>4, <1>5, <1>6, <1>7 DEF ObjectsInv

LEMMA ObjectsStart ==
    ASSUME Init
    PROVE  ObjectsInv
<1>1. TypesInv
    BY TypesStart DEF Init
<1> QED
    BY <1>1, NothingKeeps DEF Init, ObjectsInit, ObjectsInv

LEMMA ObjectsStep ==
    ASSUME ObjectsInv, [Next]_vars
    PROVE  ObjectsInv'
<1> DEFINE rows == {s \in Shapes : s.module \in Loaded}
<1>1. CASE TypesNext /\ UNCHANGED objectVars
    BY <1>1, TablesKeepObjects
<1>2. ASSUME NEW row \in rows, NEW args \in Arguments(row), Call(row, args)
      PROVE  ObjectsInv'
    BY <1>2, CallKeeps
<1>3. CASE Abort(rows)
    BY <1>3, AbortKeeps
<1>4. CASE Use(rows) \/ Raise \/ UNCHANGED vars
    BY <1>4, StutterKeeps DEF Use, Raise
<1>5. ASSUME NEW o \in Places, Dealloc(o)
      PROVE  ObjectsInv'
    BY <1>5, DeallocKeeps
<1>6. ASSUME NEW o \in Places, Connect(o)
      PROVE  ObjectsInv'
    BY <1>6, ConnectKeeps
<1>7. ASSUME NEW b \in graph, Disconnect(b)
      PROVE  ObjectsInv'
    BY <1>7, DisconnectKeeps
<1>8. CASE MsgQueue
    BY <1>8, MsgQueueKeeps
<1> QED
    BY <1>1, <1>2, <1>3, <1>4, <1>5, <1>6, <1>7, <1>8 DEF Next, ObjectsNext

\* The invariant of the tables and of the objects, for any modules and any program.
THEOREM ObjectsStay == Spec => []ObjectsInv
<1>1. Init => ObjectsInv
    BY ObjectsStart
<1>2. ObjectsInv /\ [Next]_vars => ObjectsInv'
    BY ObjectsStep
<1> QED
    BY <1>1, <1>2, PTL DEF Spec

LEMMA HeldCellsAreOwned ==
    ASSUME ObjectsInv
    PROVE  OwnedOnce
<1> SUFFICES ASSUME NEW a \in DOMAIN cells
             PROVE  /\ cells[a].deleted + Cardinality(Holders(a)) <= 1
                    /\ cells[a].type \in OurTypes =>
                           cells[a].deleted + Cardinality(Holders(a)) = 1
    BY DEF OwnedOnce
<1>1. ObjectsTyped /\ CellsHeld
    BY DEF ObjectsInv
<1>2. a \in 1 .. Len(cells)
    BY <1>1 DEF ObjectsTyped
<1>3. cells[a].deleted \in {0, 1}
    BY <1>1, <1>2, BlocksOfCells
<1>4. CASE Holders(a) = {}
    <2>1. Cardinality(Holders(a)) = 0
        BY <1>4, FS_EmptySet
    <2>2. cells[a].type \in OurTypes => cells[a].deleted = 1
        BY <1>1, <1>2, <1>3, <1>4 DEF CellsHeld
    <2> QED
        BY <1>3, <2>1, <2>2
<1>5. CASE Holders(a) # {}
    <2>1. PICK o : o \in Holders(a)
        BY <1>5
    <2>2. Holders(a) = {o}
        BY <1>1, <1>2, <2>1 DEF CellsHeld
    <2>3. Cardinality(Holders(a)) = 1
        BY <2>2, FS_Singleton
    <2>4. cells[a].deleted = 0
        BY <1>1, <2>1 DEF CellsHeld, Holders
    <2> QED
        BY <2>3, <2>4
<1> QED
    BY <1>4, <1>5

LEMMA CountedBlocksLive ==
    ASSUME ObjectsInv
    PROVE  HeldBlocksLive
<1> SUFFICES ASSUME NEW b \in DOMAIN uses
             PROVE  uses[b] > 0 <=> b \in graph \/ Sharing(b) # {}
    <2>1. DOMAIN cells = 1 .. Len(cells)
        BY DEF ObjectsInv, ObjectsTyped
    <2> QED
        BY <2>1 DEF HeldBlocksLive, Sharing
<1>1. b \in 1 .. Len(uses)
    BY DEF ObjectsInv, ObjectsTyped
<1>2. uses[b] = Cardinality(Sharing(b)) + (IF b \in graph THEN 1 ELSE 0)
    BY <1>1 DEF ObjectsInv, UsesCounted
<1>3. IsFiniteSet(Sharing(b)) /\ Cardinality(Sharing(b)) \in Nat
    BY SharingIsFinite DEF ObjectsInv
<1>4. Cardinality(Sharing(b)) = 0 <=> Sharing(b) = {}
    BY <1>3, FS_EmptySet
<1> QED
    BY <1>2, <1>3, <1>4

\* Each shared_ptr has at most one owner and is deleted at most once; none leaks that a
\* factory made.
THEOREM OwnersAreOne == Spec => []OwnedOnce
<1>1. ObjectsInv => OwnedOnce
    BY HeldCellsAreOwned
<1> QED
    BY <1>1, ObjectsStay, PTL

\* A block lives exactly as long as a shared_ptr of Python or of a graph points to it.
THEOREM BlocksStayLive == Spec => []HeldBlocksLive
<1>1. ObjectsInv => HeldBlocksLive
    BY CountedBlocksLive
<1> QED
    BY <1>1, ObjectsStay, PTL

\* An object is accepted by the name of its type, whichever module made it, and whatever
\* was imported and looked up before.
THEOREM AcceptanceIsByName == Spec => []AcceptedByName
<1>1. ObjectsInv => AcceptedByName
    BY ObjectsAreAccepted DEF ObjectsInv
<1> QED
    BY <1>1, ObjectsStay, PTL
=============================================================================
