------------------------- MODULE TransmitPathProofs -------------------------
(***************************************************************************)
(* Proofs about TransmitPath, for every value of its constants: any        *)
(* packets, any limit of the queue, any number of messages, any buffer.    *)
(***************************************************************************)
EXTENDS TransmitPath, SequenceLemmas
-----------------------------------------------------------------------------
(***************************************************************************)
(* The chip mapper, SymbolsToChips, for every table, any packets, any size *)
(* of the circular buffer and any room in the output buffer.               *)
(***************************************************************************)
Symbol == DOMAIN d_symbol_table
Cell   == Symbol \cup {0}
Word   == {d_symbol_table[s] : s \in Cell}

BufferTypes ==
    /\ buffer \in [0 .. Size - 1 -> Cell]
    /\ symbols \in Seq(Symbol) /\ written = Len(symbols)
    /\ consumed \in 0 .. written /\ written - consumed <= Size
    /\ output \in Seq(Word) /\ tight \in BOOLEAN

\* The symbols not consumed yet are in their cells.
WaitingInCells ==
    \A j \in consumed .. written - 1 : buffer[j % Size] = symbols[j + 1]

BufferInv == BufferTypes /\ WaitingInCells

\* The packets cut the symbols at ends; a call of work() stops at one of these.
Cut(ends) ==
    /\ ends \in [0 .. Len(queued) -> Nat] /\ ends[0] = 0 /\ ends[Len(queued)] = written
    /\ \A k \in 1 .. Len(queued) :
          /\ ends[k] = ends[k - 1] + Len(queued[k]) /\ ends[k] <= written
          /\ ends[k] <= consumed \/ consumed <= ends[k - 1]
          /\ \A j \in 1 .. Len(queued[k]) : symbols[ends[k - 1] + j] = queued[k][j]

\* A packet has its words in the output from position p on.
IsCopy(words, p, pkt) ==
    /\ p \in 1 .. Len(words) - Len(pkt) + 1
    /\ \A j \in 1 .. Len(pkt) : words[p - 1 + j] = d_symbol_table[pkt[j]]

\* Those that are consumed stand in the output one behind the other, up to the positions at.
Placed(ends, at) ==
    /\ at \in [0 .. Len(queued) -> Nat] /\ at[0] = 1
    /\ \A k \in 1 .. Len(queued) :
          ends[k] <= consumed => /\ at[k - 1] + Len(queued[k]) <= at[k]
                                 /\ IsCopy(output, at[k] - Len(queued[k]), queued[k])

WholePackets ==
    /\ queued \in Seq(Packets)
    /\ ~tight => \E ends, at : Cut(ends) /\ Placed(ends, at)
-----------------------------------------------------------------------------
\* How far the cell of a symbol is behind the write pointer, around the buffer.
LEMMA CellsBehind ==
    ASSUME NEW n \in Nat \ {0}, NEW j \in Nat, NEW w \in Nat
    PROVE  /\ j - w \in 0 .. n - 1 => ((j % n) - w) % n = j - w
           /\ w - j \in 1 .. n => ((j % n) - w) % n = j - w + n
<1> DEFINE a == j \div n
           c == j % n
<1>1. a \in Int /\ c \in 0 .. n - 1 /\ j = a * n + c
    BY Division
<1> HIDE DEF a, c
<1>2. c - w = (-a) * n + (j - w) /\ c - w = (-a - 1) * n + (j - w + n)
    BY <1>1
<1>3. ASSUME j - w \in 0 .. n - 1
      PROVE  (c - w) % n = j - w
    <2>1. -a \in Int /\ j - w \in 0 .. n - 1
        BY <1>1, <1>3
    <2>2. ((-a) * n + (j - w)) % n = j - w
        BY <2>1, OneRemainder
    <2> QED
        BY <1>2, <2>2
<1>4. ASSUME w - j \in 1 .. n
      PROVE  (c - w) % n = j - w + n
    <2>1. -a - 1 \in Int /\ j - w + n \in 0 .. n - 1
        BY <1>1, <1>4
    <2>2. ((-a - 1) * n + (j - w + n)) % n = j - w + n
        BY <2>1, OneRemainder
    <2> QED
        BY <1>2, <2>2
<1> QED
    BY <1>3, <1>4 DEF c

\* A call consumes no more than is waiting, and no more than there is room for.
LEMMA LessOfTwo ==
    ASSUME NEW a \in Int, NEW b \in Int
    PROVE  Min({a, b}) \in {a, b} /\ Min({a, b}) <= a /\ Min({a, b}) <= b
BY DEF Min
-----------------------------------------------------------------------------
\* The buffer is empty at first.
LEMMA InitBuffer == Init => BufferInv
BY BufferAssumption DEF Init, BufferInv, BufferTypes, WaitingInCells, Cell

\* A packet is written behind what waits, over none of it.
LEMMA WriteKeeps ==
    ASSUME BufferInv, NEW pkt \in Packets, Write(pkt)
    PROVE  BufferInv'
<1> USE DEF BufferInv
<1>1. /\ Size \in Nat \ {0} /\ pkt \in Seq(Symbol) /\ Len(pkt) \in Nat
      /\ written \in Nat /\ consumed \in Nat
    BY BufferAssumption DEF BufferTypes, Symbol
<1>2. /\ symbols' \in Seq(Symbol) /\ written' = Len(symbols')
      /\ \A k \in 1 .. written : symbols'[k] = symbols[k]
      /\ \A k \in 1 .. Len(pkt) : symbols'[written + k] = pkt[k]
    BY <1>1 DEF Write, BufferTypes
<1>3. BufferTypes'
    <2>1. buffer' \in [0 .. Size - 1 -> Cell]
        <3>1. ASSUME NEW a \in 0 .. Size - 1
              PROVE  buffer'[a] \in Cell
            <4> DEFINE k == (a - written) % Size
            <4>1. k \in Nat
                BY <1>1, Division
            <4>2. buffer'[a] = IF k < Len(pkt) THEN pkt[k + 1] ELSE buffer[a]
                BY DEF Write
            <4> HIDE DEF k
            <4> QED
                BY <1>1, <4>1, <4>2 DEF BufferTypes, Cell
        <3>2. buffer' = [a \in 0 .. Size - 1 |-> buffer'[a]]
            BY DEF Write
        <3> QED
            BY <3>1, <3>2, Zenon
    <2>2. consumed' \in 0 .. written' /\ written' - consumed' <= Size
        BY <1>1 DEF Write, BufferTypes
    <2> QED
        BY <1>2, <2>1, <2>2 DEF Write, BufferTypes
<1>4. WaitingInCells'
    <2> SUFFICES ASSUME NEW j \in consumed' .. written' - 1
                 PROVE  buffer'[j % Size] = symbols'[j + 1]
        BY DEF WaitingInCells
    <2> DEFINE cell == j % Size
               k    == (cell - written) % Size
    <2>1. /\ consumed' = consumed /\ written' = written + Len(pkt)
          /\ written - consumed + Len(pkt) <= Size
        BY DEF Write
    <2>2. j \in Nat /\ cell \in 0 .. Size - 1
        <3>1. j \in Nat
            BY <1>1, <2>1
        <3> QED
            BY <1>1, <3>1, Division
    <2>3. buffer'[cell] = IF k < Len(pkt) THEN pkt[k + 1] ELSE buffer[cell]
        BY <2>2 DEF Write
    <2>4. CASE j >= written
        <3>1. j - written \in 0 .. Size - 1 /\ j - written < Len(pkt)
            BY <1>1, <2>1, <2>2, <2>4 DEF BufferTypes
        <3>2. k = j - written
            BY <1>1, <2>2, <3>1, CellsBehind
        <3> HIDE DEF k, cell
        <3>3. buffer'[cell] = pkt[k + 1]
            <4>1. k < Len(pkt)
                BY <3>1, <3>2, Zenon
            <4> QED
                BY <2>3, <4>1, Zenon
        <3>4. symbols'[written + (j - written + 1)] = pkt[j - written + 1]
            <4>1. j - written + 1 \in 1 .. Len(pkt)
                BY <1>1, <2>2, <3>1
            <4> QED
                BY <1>2, <4>1, Zenon
        <3>5. written + (j - written + 1) = j + 1
            BY <1>1, <2>2
        <3> QED
            BY <3>2, <3>3, <3>4, <3>5, Zenon DEF cell
    <2>5. CASE j < written
        <3>1. written - j \in 1 .. Size /\ j \in consumed .. written - 1
            BY <1>1, <2>1, <2>2, <2>5 DEF BufferTypes
        <3>2. k = j - written + Size
            BY <1>1, <2>2, <3>1, CellsBehind
        <3>3. ~(k < Len(pkt))
            <4> HIDE DEF k
            <4> QED
                BY <1>1, <2>1, <2>2, <3>1, <3>2
        <3>4. buffer'[cell] = buffer[cell]
            BY <2>3, <3>3, Zenon
        <3>5. buffer[cell] = symbols[j + 1]
            BY <3>1 DEF WaitingInCells
        <3>6. j + 1 \in 1 .. written
            BY <1>1, <2>2, <3>1
        <3> QED
            BY <1>2, <3>4, <3>5, <3>6
    <2> QED
        BY <1>1, <2>2, <2>4, <2>5
<1> QED
    BY <1>3, <1>4

\* What a call takes, and where it leaves what it makes.
LEMMA WorkDoes ==
    ASSUME BufferInv, NEW room \in Room, Work(room)
    PROVE  \E n \in Nat \ {0}, words \in Seq(Word) :
              /\ n <= written - consumed /\ consumed' = consumed + n
              /\ output' = output \o words /\ n <= Len(words)
              /\ \A k \in 1 .. n : words[k] = d_symbol_table[symbols[consumed + k]]
<1> USE DEF BufferInv
<1> DEFINE n     == Min({written - consumed, room})
           words == [k \in 1 .. Interpolation * n |-> d_symbol_table[In(k - 1)]]
<1>1. /\ Size \in Nat \ {0} /\ written \in Nat /\ consumed \in Nat /\ room \in Int
    BY BufferAssumption DEF BufferTypes, Room
<1>2. /\ n \in Int /\ n > 0 /\ n <= written - consumed
      /\ consumed' = consumed + n /\ output' = output \o words
    <2>1. n > 0 /\ consumed' = consumed + n /\ output' = output \o words
        BY DEF Work
    <2>2. written - consumed \in Int /\ room \in Int
        BY <1>1
    <2>3. n \in {written - consumed, room} /\ n <= written - consumed
        BY <2>2, LessOfTwo
    <2> HIDE DEF n, words
    <2> QED
        BY <2>1, <2>2, <2>3
<1> HIDE DEF n
<1>3. Interpolation * n \in Nat /\ n <= Interpolation * n
    BY <1>2 DEF Interpolation
<1>4. words \in Seq(Word) /\ Len(words) = Interpolation * n
    <2>1. ASSUME NEW k \in 1 .. Interpolation * n
          PROVE  d_symbol_table[In(k - 1)] \in Word
        <3>1. (consumed + (k - 1)) % Size \in 0 .. Size - 1
            <4>1. consumed + (k - 1) \in Int /\ Size \in Nat \ {0}
                BY <1>1, <1>3
            <4> QED
                BY <4>1, Division, Zenon
        <3> QED
            BY <3>1 DEF In, BufferTypes, Word
    <2>2. words \in [1 .. Interpolation * n -> Word]
        BY <2>1
    <2> HIDE DEF words
    <2> QED
        BY <1>3, <2>2, FunctionIsSeq
<1>5. ASSUME NEW k \in 1 .. n
      PROVE  words[k] = d_symbol_table[symbols[consumed + k]]
    <2>1. /\ k \in 1 .. Interpolation * n /\ consumed + (k - 1) \in consumed .. written - 1
          /\ (consumed + (k - 1)) + 1 = consumed + k
        BY <1>1, <1>2, <1>3
    <2>2. In(k - 1) = symbols[consumed + k]
        BY <2>1 DEF In, WaitingInCells
    <2> QED
        BY <2>1, <2>2
<1> HIDE DEF words
<1>6. n \in Nat \ {0} /\ n <= Len(words)
    BY <1>2, <1>3, <1>4
<1> QED
    BY <1>2, <1>4, <1>5, <1>6

\* A call leaves in their cells what it did not consume.
LEMMA WorkKeeps ==
    ASSUME BufferInv, NEW room \in Room, Work(room)
    PROVE  BufferInv'
<1> USE DEF BufferInv
<1>1. PICK n \in Nat \ {0}, words \in Seq(Word) :
          n <= written - consumed /\ consumed' = consumed + n /\ output' = output \o words
    BY WorkDoes
<1>2. UNCHANGED <<buffer, written, symbols, tight>>
    BY DEF Work
<1>3. BufferTypes'
    <2>1. output' \in Seq(Word)
        BY <1>1 DEF BufferTypes
    <2>2. consumed' \in 0 .. written' /\ written' - consumed' <= Size
        <3>1. /\ written \in Nat /\ consumed \in Nat /\ Size \in Nat
              /\ written - consumed <= Size
            BY BufferAssumption DEF BufferTypes
        <3>2. written' = written
            BY <1>2
        <3> QED
            BY <1>1, <3>1, <3>2
    <2>3. /\ buffer' \in [0 .. Size - 1 -> Cell] /\ tight' \in BOOLEAN
          /\ symbols' \in Seq(Symbol) /\ written' = Len(symbols')
        BY <1>2, Zenon DEF BufferTypes
    <2> QED
        BY <2>1, <2>2, <2>3, Zenon DEF BufferTypes
<1>4. WaitingInCells'
    BY <1>1, <1>2 DEF BufferTypes, WaitingInCells
<1> QED
    BY <1>3, <1>4

\* The words of the symbols consumed are the first of those a call makes.
LEMMA WorkPutsThemFirst ==
    ASSUME BufferInv, NEW room \in Room, Work(room)
    PROVE  LET n   == consumed' - consumed
               new == SubSeq(output', Len(output) + 1, Len(output'))
           IN  SubSeq(new, 1, n) = Mapped(SubSeq(symbols, consumed + 1, consumed'))
<1>1. PICK n \in Nat \ {0}, words \in Seq(Word) :
          /\ n <= written - consumed /\ consumed' = consumed + n
          /\ output' = output \o words /\ n <= Len(words)
          /\ \A k \in 1 .. n : words[k] = d_symbol_table[symbols[consumed + k]]
    BY WorkDoes
<1> DEFINE new  == SubSeq(output', Len(output) + 1, Len(output'))
           eaten == SubSeq(symbols, consumed + 1, consumed')
<1>2. /\ output \in Seq(Word) /\ symbols \in Seq(Symbol)
      /\ consumed \in Nat /\ written = Len(symbols)
    BY DEF BufferInv, BufferTypes
<1>3. new \in Seq(Word) /\ Len(new) = Len(words) /\ \A k \in 1 .. Len(words) : new[k] = words[k]
    BY <1>1, <1>2
<1>4. Len(eaten) = n /\ \A k \in 1 .. n : eaten[k] = symbols[consumed + k]
    BY <1>1, <1>2
<1> HIDE DEF new, eaten
<1>5. SubSeq(new, 1, n) = [k \in 1 .. n |-> words[k]]
    BY <1>1, <1>3
<1>6. Mapped(eaten) = [k \in 1 .. n |-> words[k]]
    BY <1>1, <1>4 DEF Mapped
<1>7. consumed' - consumed = n
    BY <1>1, <1>2
<1> QED
    BY <1>5, <1>6, <1>7 DEF new, eaten

\* Every step of the block and of what feeds it keeps the invariant.
LEMMA NextBuffer == BufferInv /\ [Next]_vars => BufferInv'
<1> SUFFICES ASSUME BufferInv, [Next]_vars
             PROVE  BufferInv'
    OBVIOUS
<1>1. ASSUME NEW pkt \in Packets, Write(pkt)
      PROVE  BufferInv'
    BY <1>1, WriteKeeps
<1>2. ASSUME NEW room \in Room, Work(room)
      PROVE  BufferInv'
    BY <1>2, WorkKeeps
<1>3. CASE UNCHANGED vars
    BY <1>3 DEF vars, BufferInv, BufferTypes, WaitingInCells
<1> QED
    BY <1>1, <1>2, <1>3 DEF Next

\* The words of the symbols consumed come first, whoever else takes steps: only
\* a call of work() consumes.
LEMMA StepPutsThemFirst ==
    ASSUME BufferInv, [Next]_vars, consumed' > consumed
    PROVE  LET n   == consumed' - consumed
               new == SubSeq(output', Len(output) + 1, Len(output'))
           IN  SubSeq(new, 1, n) = Mapped(SubSeq(symbols, consumed + 1, consumed'))
<1>1. consumed' # consumed
    BY DEF BufferInv, BufferTypes
<1>2. \E room \in Room : Work(room)
    BY <1>1 DEF Next, Write, vars
<1> QED
    BY <1>2, WorkPutsThemFirst
-----------------------------------------------------------------------------
\* The circular buffer never loses, repeats or overwrites a symbol that waits,
\* although work() reads beyond its input (l.67-88): in every step the words of the
\* symbols consumed come first and in order.
THEOREM SymbolsConsumedInOrder == Spec => ConsumedComeFirst
<1>1. BufferInv /\ [Next]_vars =>
          [consumed' > consumed =>
              LET n   == consumed' - consumed
                  new == SubSeq(output', Len(output) + 1, Len(output'))
              IN  SubSeq(new, 1, n) = Mapped(SubSeq(symbols, consumed + 1, consumed'))]_vars
    BY StepPutsThemFirst
<1> QED
    BY InitBuffer, NextBuffer, <1>1, PTL DEF Spec, ConsumedComeFirst
-----------------------------------------------------------------------------
\* A packet is a sequence of symbols.
LEMMA PacketIsSeq ==
    ASSUME NEW pkt \in Packets
    PROVE  pkt \in Seq(Symbol) /\ Len(pkt) \in Nat
BY BufferAssumption DEF Symbol

\* There is no packet at first.
LEMMA InitWhole == Init => WholePackets
<1> SUFFICES ASSUME Init
             PROVE  WholePackets
    OBVIOUS
<1> DEFINE ends == [k \in 0 .. 0 |-> 0]
           at   == [k \in 0 .. 0 |-> 1]
<1>1. queued = <<>> /\ Len(queued) = 0 /\ written = 0 /\ consumed = 0
    BY DEF Init
<1>2. Cut(ends) /\ Placed(ends, at)
    BY <1>1 DEF Cut, Placed
<1> QED
    BY <1>1, <1>2 DEF WholePackets

\* A packet that is written comes behind the others.
LEMMA WriteWhole ==
    ASSUME BufferInv, WholePackets, NEW pkt \in Packets, Write(pkt)
    PROVE  WholePackets'
<1> DEFINE m == Len(queued)
           l == Len(pkt)
<1>1. /\ m \in Nat /\ l \in Nat /\ queued \in Seq(Packets)
      /\ written \in Nat /\ consumed \in Nat /\ consumed <= written
      /\ symbols \in Seq(Symbol) /\ Len(symbols) = written /\ pkt \in Seq(Symbol)
    BY PacketIsSeq DEF WholePackets, BufferInv, BufferTypes
<1>2. /\ queued' = Append(queued, pkt) /\ symbols' = symbols \o pkt
      /\ written' = written + l /\ UNCHANGED <<consumed, output, tight>>
    BY DEF Write
<1>3. /\ queued' \in Seq(Packets) /\ Len(queued') = m + 1 /\ queued'[m + 1] = pkt
      /\ \A k \in 1 .. m : queued'[k] = queued[k]
    BY <1>1, <1>2
<1>4. /\ \A k \in 1 .. written : symbols'[k] = symbols[k]
      /\ \A j \in 1 .. l : symbols'[written + j] = pkt[j]
    BY <1>1, <1>2, SMTT(30)
<1>5. ASSUME ~tight
      PROVE  \E ends, at : Cut(ends)' /\ Placed(ends, at)'
    <2>1. PICK ends, at : Cut(ends) /\ Placed(ends, at)
        BY <1>5 DEF WholePackets
    <2>3. PICK ends2, at2 :
              /\ ends2 = [k \in 0 .. m + 1 |-> IF k = m + 1 THEN written + l ELSE ends[k]]
              /\ at2   = [k \in 0 .. m + 1 |-> IF k = m + 1 THEN at[m] ELSE at[k]]
        OBVIOUS
    <2>2. /\ ends \in [0 .. m -> Nat] /\ ends[0] = 0 /\ ends[m] = written
          /\ at \in [0 .. m -> Nat] /\ at[0] = 1
        BY <2>1 DEF Cut, Placed
    <2> HIDE DEF m, l
    <2>4. \A k \in 0 .. m : ends2[k] = ends[k] /\ at2[k] = at[k]
        BY <1>1, <2>3
    <2>5. at2[m + 1] = at[m] /\ ends2[m + 1] = written + l
        BY <1>1, <2>3
    <2>6. /\ ends2 \in [0 .. m + 1 -> Nat] /\ ends2[0] = 0 /\ ends2[m + 1] = written'
          /\ at2 \in [0 .. m + 1 -> Nat] /\ at2[0] = 1
        <3>1. ends2 \in [0 .. m + 1 -> Nat]
            BY <1>1, <2>2, <2>3
        <3>2. at2 \in [0 .. m + 1 -> Nat]
            BY <1>1, <2>2, <2>3
        <3> QED
            BY <1>1, <1>2, <2>2, <2>4, <2>5, <3>1, <3>2, SMTT(30)
    <2> USE DEF l
    <2>7. ASSUME NEW k \in 1 .. m + 1
          PROVE  /\ ends2[k] = ends2[k - 1] + Len(queued'[k]) /\ ends2[k] <= written'
                 /\ ends2[k] <= consumed' \/ consumed' <= ends2[k - 1]
                 /\ \A j \in 1 .. Len(queued'[k]) : symbols'[ends2[k - 1] + j] = queued'[k][j]
        <3>1. CASE k \in 1 .. m
            <4>1. /\ ends[k] = ends[k - 1] + Len(queued[k]) /\ ends[k] <= written
                  /\ ends[k] <= consumed \/ consumed <= ends[k - 1]
                  /\ \A j \in 1 .. Len(queued[k]) : symbols[ends[k - 1] + j] = queued[k][j]
                BY <2>1, <3>1 DEF Cut, m
            <4>2. /\ ends2[k] = ends[k] /\ ends2[k - 1] = ends[k - 1]
                  /\ queued'[k] = queued[k] /\ ends[k - 1] \in Nat
                BY <1>1, <1>3, <2>2, <2>4, <3>1, SMTT(30)
            <4>3. Len(queued[k]) \in Nat
                BY <1>1, <3>1, PacketIsSeq DEF m
            <4>4. ASSUME NEW j \in 1 .. Len(queued[k])
                  PROVE  ends[k - 1] + j \in 1 .. written
                BY <1>1, <4>1, <4>2, <4>3, SMTT(30)
            <4>5. ASSUME NEW j \in 1 .. Len(queued[k])
                  PROVE  symbols'[ends[k - 1] + j] = queued[k][j]
                BY <1>4, <4>1, <4>4
            <4>6. ends2[k] <= written'
                BY <1>1, <1>2, <4>1, <4>2, <4>3
            <4> QED
                BY <1>2, <4>1, <4>2, <4>5, <4>6
        <3>2. CASE k = m + 1
            <4>1. ends2[k] = written + l /\ ends2[k - 1] = written /\ queued'[k] = pkt
                BY <1>1, <1>3, <2>2, <2>4, <2>5, <3>2
            <4> QED
                BY <1>1, <1>2, <1>4, <4>1
        <3> QED
            BY <1>1, <3>1, <3>2
    <2>8. ASSUME NEW k \in 1 .. m + 1, ends2[k] <= consumed'
          PROVE  /\ at2[k - 1] + Len(queued'[k]) <= at2[k]
                 /\ IsCopy(output', at2[k] - Len(queued'[k]), queued'[k])
        <3>1. CASE k \in 1 .. m
            <4>1. /\ ends2[k] = ends[k] /\ at2[k] = at[k] /\ at2[k - 1] = at[k - 1]
                  /\ queued'[k] = queued[k]
                BY <1>1, <1>3, <2>4, <3>1
            <4>2. /\ at[k - 1] + Len(queued[k]) <= at[k]
                  /\ IsCopy(output, at[k] - Len(queued[k]), queued[k])
                BY <1>2, <2>1, <2>8, <3>1, <4>1 DEF Placed, m
            <4> QED
                BY <1>2, <4>1, <4>2, Zenon
        <3>2. CASE k = m + 1
            <4>1. /\ l = 0 /\ consumed = written /\ queued'[k] = pkt
                  /\ at2[k] = at[m] /\ at2[k - 1] = at[m] /\ at[m] \in Nat
                BY <1>1, <1>2, <1>3, <2>2, <2>4, <2>5, <2>8, <3>2
            <4>2. at[m] \in 1 .. Len(output) + 1
                <5>1. Len(output) \in Nat
                    BY DEF BufferInv, BufferTypes
                <5>2. CASE m = 0
                    BY <2>2, <5>1, <5>2
                <5>3. CASE m \in 1 .. m
                    <6>1. IsCopy(output, at[m] - Len(queued[m]), queued[m])
                        BY <1>1, <2>1, <2>2, <4>1, <5>3 DEF Placed, m
                    <6>2. Len(queued[m]) \in Nat
                        BY <1>1, <5>3, PacketIsSeq DEF m
                    <6>3. at[m] - Len(queued[m]) \in 1 .. Len(output) - Len(queued[m]) + 1
                        BY <6>1 DEF IsCopy
                    <6>4. \A a, b, c \in Nat : a - b \in 1 .. c - b + 1 => a \in 1 .. c + 1
                        OBVIOUS
                    <6> QED
                        BY <4>1, <5>1, <6>2, <6>3, <6>4, Zenon
                <5> QED
                    BY <1>1, <5>2, <5>3
            <4>3. at2[k] - Len(queued'[k]) = at[m] /\ Len(queued'[k]) = 0 /\ Len(output) \in Nat
                BY <4>1 DEF BufferInv, BufferTypes
            <4>4. IsCopy(output, at[m], pkt)
                BY <4>1, <4>2, <4>3 DEF IsCopy
            <4> QED
                BY <1>2, <4>1, <4>3, <4>4
        <3> QED
            BY <1>1, <3>1, <3>2
    <2>9. Cut(ends2)'
        BY <1>3, <2>6, <2>7 DEF Cut
    <2>10. Placed(ends2, at2)'
        BY <1>3, <2>6, <2>8 DEF Placed
    <2> QED
        BY <2>9, <2>10
<1> QED
    BY <1>2, <1>3, <1>5 DEF WholePackets

\* Work(room) takes all that waits when there is room for it.
LEMMA WorkTakesAll ==
    ASSUME BufferInv, NEW room \in Room, Work(room), ~tight
    PROVE  consumed' = written
<1>1. /\ written \in Nat /\ consumed \in Nat /\ written - consumed <= Size /\ Size \in Nat
      /\ room = Size
    BY BufferAssumption DEF BufferInv, BufferTypes, Room
<1>2. consumed' = consumed + Min({written - consumed, room})
    BY DEF Work
<1>3. PICK w, n : w = written - consumed /\ n = Min({w, room})
    OBVIOUS
<1>4. w \in Int /\ room \in Int
    BY <1>1, <1>3
<1>5. n \in {w, room} /\ n <= w /\ n <= room
    BY <1>3, <1>4, LessOfTwo, Zenon
<1>6. n = w
    BY <1>1, <1>3, <1>5
<1> QED
    BY <1>1, <1>2, <1>3, <1>6

\* What waits when work() is called goes out in front of what it reads beyond.
LEMMA WorkWhole ==
    ASSUME BufferInv, WholePackets, NEW room \in Room, Work(room)
    PROVE  WholePackets'
<1> DEFINE m == Len(queued)
           t == Len(output)
<1>1. /\ m \in Nat /\ t \in Nat /\ written \in Nat /\ consumed \in Nat
      /\ output \in Seq(Word) /\ queued \in Seq(Packets)
    BY DEF WholePackets, BufferInv, BufferTypes
<1>2. UNCHANGED <<queued, symbols, written, tight>>
    BY DEF Work
<1>3. ASSUME ~tight
      PROVE  \E ends, at : Cut(ends)' /\ Placed(ends, at)'
    <2>1. PICK ends, at : Cut(ends) /\ Placed(ends, at)
        BY <1>3 DEF WholePackets
    <2>2. PICK n \in Nat \ {0}, words \in Seq(Word) :
              /\ n <= written - consumed /\ consumed' = consumed + n
              /\ output' = output \o words /\ n <= Len(words)
              /\ \A k \in 1 .. n : words[k] = d_symbol_table[symbols[consumed + k]]
        BY WorkDoes
    <2>3. consumed' = written /\ consumed + n = written
        BY <1>1, <1>3, <2>2, WorkTakesAll
    <2>4. PICK at2 :
              at2 = [k \in 0 .. m |-> IF ends[k] <= consumed THEN at[k]
                                      ELSE t + 1 + (ends[k] - consumed)]
        OBVIOUS
    <2>5. /\ ends \in [0 .. m -> Nat] /\ ends[0] = 0 /\ ends[m] = written
          /\ at \in [0 .. m -> Nat] /\ at[0] = 1
        BY <2>1 DEF Cut, Placed
    <2>6. /\ Len(output') = t + Len(words) /\ Len(words) \in Nat
          /\ \A k \in 1 .. t : output'[k] = output[k]
          /\ \A k \in 1 .. Len(words) : output'[t + k] = words[k]
        BY <1>1, <2>2
    <2> HIDE DEF m, t
    <2>7. /\ at2 \in [0 .. m -> Nat]
          /\ \A k \in 0 .. m : IF ends[k] <= consumed THEN at2[k] = at[k]
                                ELSE at2[k] = t + 1 + (ends[k] - consumed)
        BY <1>1, <2>4, <2>5, SMTT(30)
    <2>8. ASSUME NEW k \in 0 .. m, ends[k] <= consumed
          PROVE  at[k] <= t + 1 /\ at2[k] = at[k]
        <3>1. CASE k = 0
            BY <1>1, <2>5, <2>7, <2>8, <3>1
        <3>2. CASE k \in 1 .. m
            <4>1. IsCopy(output, at[k] - Len(queued[k]), queued[k])
                BY <2>1, <2>8, <3>2 DEF Placed, m
            <4>2. at[k] - Len(queued[k]) \in 1 .. t - Len(queued[k]) + 1
                <5>1. at[k] - Len(queued[k]) \in 1 .. Len(output) - Len(queued[k]) + 1
                    BY <4>1 DEF IsCopy
                <5>2. Len(output) = t
                    BY DEF t
                <5> QED
                    BY <5>1, <5>2, Zenon
            <4>3. Len(queued[k]) \in Nat /\ at[k] \in Nat
                <5>1. queued[k] \in Packets
                    BY <1>1, <3>2 DEF m
                <5> QED
                    BY <2>5, <5>1, PacketIsSeq
            <4>4. \A a, b, c \in Nat : a - b \in 1 .. c - b + 1 => a <= c + 1
                OBVIOUS
            <4>5. at[k] <= t + 1
                BY <1>1, <4>2, <4>3, <4>4, Zenon
            <4> QED
                BY <2>7, <2>8, <4>5
        <3> QED
            BY <1>1, <3>1, <3>2
    <2>9. ASSUME NEW k \in 1 .. m
          PROVE  /\ at2[k - 1] + Len(queued[k]) <= at2[k]
                 /\ IsCopy(output', at2[k] - Len(queued[k]), queued[k])
        <3> DEFINE l == Len(queued[k])
        <3>1. /\ k - 1 \in 0 .. m /\ k \in 0 .. m
              /\ ends[k] \in Nat /\ ends[k - 1] \in Nat /\ at[k] \in Nat /\ at[k - 1] \in Nat
            BY <1>1, <2>5
        <3>2. l \in Nat /\ queued[k] \in Seq(Symbol)
            BY <1>1, PacketIsSeq DEF m
        <3>3. /\ ends[k] = ends[k - 1] + l /\ ends[k] <= written
              /\ ends[k] <= consumed \/ consumed <= ends[k - 1]
              /\ \A j \in 1 .. l : symbols[ends[k - 1] + j] = queued[k][j]
            BY <2>1 DEF Cut, m
        <3> HIDE DEF l
        <3>4. CASE ends[k] <= consumed
            <4>1. /\ at[k - 1] + l <= at[k]
                  /\ IsCopy(output, at[k] - l, queued[k])
                BY <2>1, <3>4 DEF Placed, m, l
            <4>2. ends[k - 1] <= consumed
                BY <1>1, <3>1, <3>2, <3>3, <3>4
            <4>3. at2[k] = at[k] /\ at2[k - 1] = at[k - 1]
                BY <2>8, <3>1, <3>4, <4>2
            <4>4. /\ at[k] - l \in 1 .. t - l + 1
                  /\ \A j \in 1 .. l : output[at[k] - l - 1 + j] = d_symbol_table[queued[k][j]]
                BY <4>1 DEF IsCopy, l, t
            <4>5. at[k] - l \in 1 .. Len(output') - l + 1
                BY <1>1, <2>6, <3>1, <3>2, <4>4
            <4>6. ASSUME NEW j \in 1 .. l
                  PROVE  output'[at[k] - l - 1 + j] = d_symbol_table[queued[k][j]]
                <5>1. \A a, b, c \in Nat : \A d \in 1 .. b :
                          a - b \in 1 .. c - b + 1 => a - b - 1 + d \in 1 .. c
                    OBVIOUS
                <5>2. at[k] - l - 1 + j \in 1 .. t
                    BY <1>1, <3>1, <3>2, <4>4, <5>1, Zenon
                <5> QED
                    BY <2>6, <4>4, <5>2
            <4> QED
                BY <4>1, <4>3, <4>5, <4>6 DEF IsCopy, l
        <3>5. CASE ~(ends[k] <= consumed)
            <4>1. PICK e, d, a, b : e = ends[k] /\ d = ends[k - 1] /\ a = at2[k] /\ b = at2[k - 1]
                OBVIOUS
            <4>2. /\ e \in Nat /\ d \in Nat /\ a \in Nat /\ b \in Nat
                  /\ e = d + l /\ e <= written /\ ~(e <= consumed) /\ consumed <= d
                BY <2>7, <3>1, <3>3, <3>5, <4>1
            <4>3. a = t + 1 + (e - consumed)
                BY <2>7, <3>1, <4>1, <4>2
            <4>4. b <= t + 1 + (d - consumed)
                <5>1. CASE d <= consumed
                    <6>1. b <= t + 1
                        BY <2>8, <3>1, <4>1, <5>1
                    <6> QED
                        BY <1>1, <4>2, <6>1
                <5>2. CASE ~(d <= consumed)
                    <6>1. b = t + 1 + (d - consumed)
                        BY <2>7, <3>1, <4>1, <5>2
                    <6> QED
                        BY <1>1, <4>2, <6>1
                <5> QED
                    BY <5>1, <5>2
            <4>5. b + l <= a /\ a - l = t + 1 + (d - consumed)
                BY <1>1, <3>2, <4>2, <4>3, <4>4
            <4>6. a - l \in 1 .. Len(output') - l + 1
                BY <1>1, <2>2, <2>3, <2>6, <3>2, <4>2, <4>5
            <4>7. ASSUME NEW j \in 1 .. l
                  PROVE  output'[a - l - 1 + j] = d_symbol_table[queued[k][j]]
                <5>1. PICK p : p = d - consumed + j
                    OBVIOUS
                <5>2. p \in 1 .. n /\ a - l - 1 + j = t + p /\ consumed + p = d + j
                    BY <1>1, <2>3, <3>2, <4>2, <4>5, <5>1
                <5>3. p \in 1 .. Len(words)
                    BY <2>2, <2>6, <5>2
                <5>4. output'[t + p] = d_symbol_table[symbols[consumed + p]]
                    BY <2>2, <2>6, <5>2, <5>3
                <5> QED
                    BY <3>3, <4>1, <5>2, <5>4
            <4> QED
                BY <4>1, <4>5, <4>6, <4>7 DEF IsCopy, l
        <3> QED
            BY <3>4, <3>5
    <2>10. Cut(ends)'
        <3>1. ASSUME NEW k \in 1 .. m
              PROVE  ends[k] <= consumed'
            BY <2>1, <2>3 DEF Cut, m
        <3> QED
            BY <1>2, <2>1, <3>1 DEF Cut, m
    <2>11. Placed(ends, at2)'
        <3>1. at2[0] = 1
            BY <1>1, <2>5, <2>7
        <3> QED
            BY <1>2, <2>7, <2>9, <3>1 DEF Placed, m
    <2> QED
        BY <2>10, <2>11
<1> QED
    BY <1>1, <1>2, <1>3 DEF WholePackets

\* A packet stays whole, whatever the block and its scheduler do.
LEMMA NextWhole == BufferInv /\ WholePackets /\ [Next]_vars => WholePackets'
<1> SUFFICES ASSUME BufferInv, WholePackets, [Next]_vars
             PROVE  WholePackets'
    OBVIOUS
<1>1. ASSUME NEW pkt \in Packets, Write(pkt)
      PROVE  WholePackets'
    BY <1>1, WriteWhole
<1>2. ASSUME NEW room \in Room, Work(room)
      PROVE  WholePackets'
    BY <1>2, WorkWhole
<1>3. CASE UNCHANGED vars
    BY <1>3 DEF vars, WholePackets, Cut, Placed
<1> QED
    BY <1>1, <1>2, <1>3 DEF Next

\* The search finds a packet no later than where it stands.
LEMMA BehindFinds ==
    ASSUME BufferInv, NEW from \in Nat, NEW pkt \in Packets
    PROVE  /\ Behind(from, pkt) \in Nat
           /\ \A p \in Nat : from > 0 /\ from <= p /\ IsCopy(output, p, pkt) =>
                  /\ Behind(from, pkt) > 0
                  /\ Behind(from, pkt) <= p + Len(pkt)
<1> DEFINE copies == {p \in from .. Len(output) - Len(pkt) + 1 :
                         SubSeq(output, p, p + Len(pkt) - 1) = Mapped(pkt)}
<1>1. /\ pkt \in Seq(Symbol) /\ Len(pkt) \in Nat
      /\ output \in Seq(Word) /\ Len(output) \in Nat
    BY PacketIsSeq DEF BufferInv, BufferTypes
<1>2. Behind(from, pkt) = IF from = 0 \/ copies = {} THEN 0 ELSE Min(copies) + Len(pkt)
    BY DEF Behind
<1>3. copies \subseteq Nat /\ \A p \in copies : from <= p
    BY <1>1
<1>4. ASSUME NEW p \in Nat, from > 0, from <= p, IsCopy(output, p, pkt)
      PROVE  p \in copies
    <2>1. /\ p \in 1 .. Len(output) - Len(pkt) + 1
          /\ \A j \in 1 .. Len(pkt) : output[p - 1 + j] = d_symbol_table[pkt[j]]
        BY <1>4 DEF IsCopy
    <2>2. SubSeq(output, p, p + Len(pkt) - 1) = [j \in 1 .. Len(pkt) |-> output[p - 1 + j]]
        BY <1>1, <2>1
    <2>3. [j \in 1 .. Len(pkt) |-> output[p - 1 + j]] = Mapped(pkt)
        BY <2>1 DEF Mapped
    <2>4. p \in from .. Len(output) - Len(pkt) + 1
        BY <1>1, <1>4, <2>1
    <2> QED
        BY <2>2, <2>3, <2>4
<1> HIDE DEF copies
<1>5. PICK least : least = Min(copies)
    OBVIOUS
<1>6. ASSUME copies # {}
      PROVE  least \in copies /\ \A p \in copies : least <= p
    <2>1. \E x \in copies : \A y \in copies : x <= y
        BY <1>3, <1>6, LeastNumber, Zenon
    <2> QED
        BY <1>5, <2>1, Zenon DEF Min
<1>7. Behind(from, pkt) = IF from = 0 \/ copies = {} THEN 0 ELSE least + Len(pkt)
    BY <1>2, <1>5
<1>8. Behind(from, pkt) \in Nat
    <2>1. copies # {} => least \in Nat
        BY <1>3, <1>6
    <2> QED
        BY <1>1, <1>7, <2>1
<1>9. ASSUME NEW p \in Nat, from > 0, from <= p, IsCopy(output, p, pkt)
      PROVE  Behind(from, pkt) > 0 /\ Behind(from, pkt) <= p + Len(pkt)
    <2>1. p \in copies
        BY <1>4, <1>9
    <2>2. least \in Nat /\ from <= least /\ least <= p
        BY <1>3, <1>6, <2>1
    <2> QED
        BY <1>1, <1>7, <1>9, <2>1, <2>2
<1> QED
    BY <1>8, <1>9

\* So that it finds all of them, one behind the other.
Search(f) == f = [n \in 0 .. Len(queued) |-> IF n = 0 THEN 1 ELSE Behind(f[n - 1], queued[n])]
LEMMA SearchExists ==
    ASSUME BufferInv, WholePackets
    PROVE  \E f : Search(f)
<1> DEFINE m == Len(queued)
           Step == [k \in 1 .. m |-> [x \in Nat |-> Behind(x, queued[k])]]
<1>1. m \in Nat /\ \A k \in 1 .. m : queued[k] \in Packets
    BY DEF WholePackets
<1>2. \A k \in 1 .. m : \A x \in Nat : Behind(x, queued[k]) \in Nat
    BY <1>1, BehindFinds
<1> HIDE DEF m
<1>3. IsRecursion(m, Nat, 1, Step)
    BY <1>1, <1>2 DEF IsRecursion
<1>4. \A k \in 1 .. m : \A x \in Nat : Step[k][x] = Behind(x, queued[k])
    OBVIOUS
<1> HIDE DEF Step
<1>5. PICK f : Solves(f, m, Nat, 1, Step)
    BY <1>3, RecursionExists
<1>6. ASSUME NEW k \in 1 .. m
      PROVE  f[k] = Behind(f[k - 1], queued[k])
    <2>1. f[k - 1] \in Nat /\ f[k] = Step[k][f[k - 1]]
        BY <1>1, <1>5 DEF Solves
    <2> QED
        BY <1>4, <2>1
<1>7. Search(f)
    BY <1>1, <1>5, <1>6 DEF Solves, Search, m
<1> QED
    BY <1>7

LEMMA AllFound ==
    ASSUME BufferInv, WholePackets, ~tight, consumed = written
    PROVE  PacketsInOnePiece
<1> DEFINE m == Len(queued)
           behind == CHOOSE f : Search(f)
<1>1. m \in Nat /\ \A k \in 1 .. m : queued[k] \in Packets
    BY DEF WholePackets
<1>2. Search(behind)
    BY SearchExists
<1> HIDE DEF behind
<1>3. behind[0] = 1 /\ \A k \in 1 .. m : behind[k] = Behind(behind[k - 1], queued[k])
    BY <1>1, <1>2 DEF Search
<1>4. PICK ends, at : Cut(ends) /\ Placed(ends, at)
    BY DEF WholePackets
<1>5. at \in [0 .. m -> Nat] /\ at[0] = 1
    BY <1>4 DEF Placed
<1>6. ASSUME NEW k \in 1 .. m
      PROVE  /\ at[k - 1] + Len(queued[k]) <= at[k]
             /\ IsCopy(output, at[k] - Len(queued[k]), queued[k])
    <2>1. ends[k] <= consumed
        BY <1>4 DEF Cut
    <2> QED
        BY <1>4, <2>1 DEF Placed
<1> HIDE DEF m
<1> DEFINE A == {k \in 0 .. m : behind[k] \in Nat /\ behind[k] > 0 /\ behind[k] <= at[k]}
<1>7. 0 \in A
    BY <1>1, <1>3, <1>5
<1>8. ASSUME NEW k \in 1 .. m, k - 1 \in A
      PROVE  k \in A
    <2>1. PICK a, b, c, l, p :
              /\ a = at[k] /\ b = behind[k - 1] /\ c = at[k - 1]
              /\ l = Len(queued[k]) /\ p = a - l
        OBVIOUS
    <2>2. b \in Nat /\ b > 0 /\ b <= c
        BY <1>8, <2>1
    <2>3. l \in Nat /\ c \in Nat /\ a \in Nat /\ c + l <= a
        BY <1>1, <1>5, <1>6, <2>1, PacketIsSeq
    <2>4. p \in Nat /\ b <= p /\ p + l = a
        <3>1. p = a - l
            BY <2>1
        <3> QED
            BY <2>2, <2>3, <3>1
    <2>5. IsCopy(output, p, queued[k])
        BY <1>6, <2>1
    <2>6. queued[k] \in Packets /\ behind[k] = Behind(b, queued[k])
        BY <1>1, <1>3, <2>1
    <2>7. /\ Behind(b, queued[k]) \in Nat /\ Behind(b, queued[k]) > 0
          /\ Behind(b, queued[k]) <= p + Len(queued[k])
        BY <2>2, <2>4, <2>5, <2>6, BehindFinds, Zenon
    <2> QED
        BY <2>1, <2>4, <2>6, <2>7
<1>9. \A k \in 0 .. m : k \in A
    <2> HIDE DEF A
    <2> QED
        BY <1>1, <1>7, <1>8, BoundedInduction
<1>10. behind[m] > 0
    BY <1>1, <1>9
<1> QED
    BY <1>10 DEF PacketsInOnePiece, Search, behind, m

(***************************************************************************)
(* Though work() reads beyond its input, a packet goes out in one piece,   *)
(* and the packets in order, as long as there is room for what waits       *)
(* (l.66-106).                                                             *)
(***************************************************************************)
THEOREM PacketsStayWhole == Spec => []PacketsInOnePiece
<1>1. Init => BufferInv /\ WholePackets
    BY InitBuffer, InitWhole
<1>2. BufferInv /\ WholePackets /\ [Next]_vars => (BufferInv /\ WholePackets)'
    BY NextBuffer, NextWhole
<1>3. BufferInv /\ WholePackets => PacketsInOnePiece
    BY AllFound DEF PacketsInOnePiece
<1> QED
    BY <1>1, <1>2, <1>3, PTL DEF Spec
-----------------------------------------------------------------------------
(***************************************************************************)
(* The transmitter program, TransmitPath.                                  *)
(***************************************************************************)
Item == Packets \cup {Eof}

TxTypes ==
    /\ TxTypeOK
    /\ msgq \in Seq(Item) /\ handed \in Seq(Packets) /\ queued \in Seq(Packets)

\* The end of the stream is queued once, behind everything, by a thread that then waits;
\* the source that has met it has left nothing in the queue.
EofLast ==
    /\ \A k \in 1 .. Len(msgq) : msgq[k] = Eof => k = Len(msgq) /\ main = "wait"
    /\ source = "done" => msgq = <<>> /\ main \in {"wait", "done"}

DoneStays == main = "done" => GraphDone

\* Symbols are counted up to what was written, and no further.
Counted == written \in Nat /\ consumed \in 0 .. written

IInv == TxTypes /\ EofLast /\ DoneStays /\ Counted /\ SentInOrder

\* A packet is not the end of the stream.
LEMMA PacketIsNotEof == ASSUME NEW pkt \in Packets PROVE pkt # Eof
BY TransmitAssumption DEF Eof

\* As long as the main thread does not wait, packets are all there is in the queue.
LEMMA OnlyPackets ==
    ASSUME TxTypes, EofLast, main # "wait"
    PROVE  msgq \in Seq(Packets) /\ Waiting = msgq
<1>1. msgq \in Seq(Item)
    BY DEF TxTypes
<1>2. \A k \in 1 .. Len(msgq) : msgq[k] \in Packets
    BY <1>1 DEF EofLast, Item
<1>3. Len(msgq) \in Nat /\ msgq \in [1 .. Len(msgq) -> Packets]
    BY <1>1, <1>2
<1>4. msgq \in Seq(Packets)
    BY <1>3, FunctionIsSeq
<1>5. msgq # <<>> => Len(msgq) \in 1 .. Len(msgq)
    BY <1>1
<1>6. Waiting = msgq
    BY <1>5, PacketIsNotEof, <1>2 DEF Waiting
<1> QED
    BY <1>4, <1>6

\* Taking a packet off the queue takes it off the packets that wait.
LEMMA WaitingAfterTake ==
    ASSUME TxTypes, EofLast, msgq # <<>>, Head(msgq) # Eof, msgq' = Tail(msgq)
    PROVE  /\ Waiting \in Seq(Item) /\ Waiting # <<>>
           /\ Head(Waiting) = Head(msgq) /\ Waiting' = Tail(Waiting)
<1>1. msgq \in Seq(Item) /\ Head(msgq) = msgq[1] /\ Len(msgq) \in Nat \ {0}
      /\ Len(Tail(msgq)) = Len(msgq) - 1 /\ Tail(msgq) \in Seq(Item)
    BY DEF TxTypes
<1>2. CASE Len(msgq) = 1
    <2>1. Tail(msgq) = <<>>
        BY <1>1, <1>2
    <2> QED
        BY <1>1, <1>2, <2>1 DEF Waiting
<1>3. CASE Len(msgq) > 1
    <2>1. Tail(msgq)[Len(Tail(msgq))] = msgq[Len(msgq)] /\ Tail(msgq) # <<>>
        BY <1>1, <1>3, LastOfTail
    <2>2. CASE msgq[Len(msgq)] = Eof
        <3>1. /\ Waiting = SubSeq(msgq, 1, Len(msgq) - 1)
              /\ Waiting' = SubSeq(Tail(msgq), 1, Len(Tail(msgq)) - 1)
            BY <2>1, <2>2 DEF Waiting
        <3>2. SubSeq(msgq, 1, Len(msgq) - 1) \in Seq(Item)
            BY <1>1
        <3> QED
            BY <1>1, <1>3, <3>1, <3>2, FrontOfTail
    <2>3. CASE msgq[Len(msgq)] # Eof
        <3>1. Waiting = msgq /\ Waiting' = Tail(msgq)
            BY <2>1, <2>3 DEF Waiting
        <3> QED
            BY <1>1, <3>1
    <2> QED
        BY <2>2, <2>3
<1> QED
    BY <1>1, <1>2, <1>3

\* The invariant holds in the initial state.
LEMMA InitIInv == TxInit => IInv
<1> SUFFICES ASSUME TxInit PROVE IInv
    OBVIOUS
<1> USE DEF TxInit, Init
<1>1. TxTypes
    BY TransmitAssumption DEF TxTypes, TxTypeOK
<1>2. EofLast /\ DoneStays /\ Counted
    BY DEF EofLast, DoneStays, Counted
<1>3. SentInOrder
    BY DEF SentInOrder, Waiting
<1> QED
    BY <1>1, <1>2, <1>3 DEF IInv

(***************************************************************************)
(* The invariant, part by part.                                            *)
(***************************************************************************)
LEMMA TypesStep == TxTypes /\ EofLast /\ [TxNext]_txVars => TxTypes'
<1> SUFFICES ASSUME TxTypes, EofLast, [TxNext]_txVars PROVE TxTypes'
    OBVIOUS
<1>1. /\ msgq \in Seq(Item) /\ handed \in Seq(Packets) /\ queued \in Seq(Packets)
      /\ Len(msgq) \in Nat /\ i \in Nat
    BY TransmitAssumption DEF TxTypes, TxTypeOK
<1> USE DEF TxTypes, TxTypeOK
<1>2. ASSUME NEW pkt \in Packets, SendPacket(pkt)
      PROVE  TxTypes'
    <2>1. /\ Append(msgq, pkt) \in Seq(Item) /\ Len(Append(msgq, pkt)) = Len(msgq) + 1
          /\ Append(handed, pkt) \in Seq(Packets) /\ Len(Append(handed, pkt)) = Len(handed) + 1
        BY <1>1 DEF Item
    <2> QED
        BY <1>1, <1>2, <2>1, TransmitAssumption DEF SendPacket, insert_tail, vars
<1>3. CASE Wake \/ Wait \/ Return
    BY <1>3 DEF Wake, Wait, Return, vars
<1>4. CASE SendEof
    <2>1. Append(msgq, Eof) \in Seq(Item) /\ Len(Append(msgq, Eof)) = Len(msgq) + 1
        BY <1>1 DEF Item
    <2> QED
        BY <1>1, <1>4, <2>1, TransmitAssumption, SMTT(30) DEF SendEof, insert_tail, vars
<1>5. CASE SourceWrites
    <2>1. /\ Head(msgq) \in Packets /\ Tail(msgq) \in Seq(Item)
          /\ Len(Tail(msgq)) = Len(msgq) - 1
        BY <1>1, <1>5 DEF SourceWrites, Item
    <2>2. Append(queued, Head(msgq)) \in Seq(Packets)
        BY <1>1, <2>1
    <2> QED
        BY <1>1, <1>5, <2>1, <2>2, TransmitAssumption DEF SourceWrites, Write
<1>6. CASE SourceStops
    <2>1. Tail(msgq) \in Seq(Item) /\ Len(Tail(msgq)) = Len(msgq) - 1
        BY <1>1, <1>6 DEF SourceStops
    <2> QED
        BY <1>1, <1>6, <2>1, TransmitAssumption DEF SourceStops, vars
<1>7. CASE MapSymbols
    BY <1>7 DEF MapSymbols, Work
<1>8. CASE UNCHANGED txVars
    BY <1>8 DEF txVars, vars
<1> QED
    BY <1>2, <1>3, <1>4, <1>5, <1>6, <1>7, <1>8 DEF TxNext, MainStep, SourceStep

\* The end of the stream stays last.
LEMMA EofLastStep == TxTypes /\ EofLast /\ [TxNext]_txVars => EofLast'
<1> SUFFICES ASSUME TxTypes, EofLast, [TxNext]_txVars PROVE EofLast'
    OBVIOUS
<1>1. msgq \in Seq(Item) /\ Len(msgq) \in Nat
    BY DEF TxTypes
<1>2. ASSUME NEW pkt \in Packets, SendPacket(pkt)
      PROVE  EofLast'
    <2>1. /\ Len(Append(msgq, pkt)) = Len(msgq) + 1
          /\ \A k \in 1 .. Len(msgq) : Append(msgq, pkt)[k] = msgq[k]
          /\ Append(msgq, pkt)[Len(msgq) + 1] = pkt
        BY <1>1 DEF Item
    <2> QED
        BY <1>1, <1>2, <2>1, PacketIsNotEof DEF EofLast, SendPacket, insert_tail
<1>3. CASE Wake \/ Wait \/ Return
    BY <1>1, <1>3 DEF EofLast, Wake, Wait, Return, GraphDone
<1>4. CASE SendEof
    <2>1. /\ Len(Append(msgq, Eof)) = Len(msgq) + 1
          /\ \A k \in 1 .. Len(msgq) : Append(msgq, Eof)[k] = msgq[k]
          /\ Append(msgq, Eof)[Len(msgq) + 1] = Eof
        BY <1>1 DEF Item
    <2> QED
        BY <1>1, <1>4, <2>1 DEF EofLast, SendEof, insert_tail
<1>5. ASSUME msgq # <<>>, msgq' = Tail(msgq), main' = main
      PROVE  \A k \in 1 .. Len(msgq') : msgq'[k] = Eof => k = Len(msgq') /\ main' = "wait"
    <2>1. /\ Len(Tail(msgq)) = Len(msgq) - 1
          /\ \A k \in 1 .. Len(msgq) - 1 : Tail(msgq)[k] = msgq[k + 1]
        BY <1>1, <1>5
    <2>2. SUFFICES ASSUME NEW k \in 1 .. Len(Tail(msgq)), Tail(msgq)[k] = Eof
                   PROVE  k = Len(Tail(msgq)) /\ main = "wait"
        BY <1>5
    <2>3. k + 1 \in 1 .. Len(msgq) /\ msgq[k + 1] = Eof
        BY <1>1, <2>1, <2>2
    <2> QED
        BY <1>1, <2>1, <2>3 DEF EofLast
<1>6. CASE SourceWrites
    BY <1>5, <1>6 DEF EofLast, SourceWrites
<1>7. CASE SourceStops
    <2>1. Head(msgq) = msgq[1] /\ 1 \in 1 .. Len(msgq)
        BY <1>1, <1>7 DEF SourceStops
    <2>2. Len(msgq) = 1 /\ main = "wait"
        BY <1>7, <2>1 DEF SourceStops, EofLast
    <2>3. Tail(msgq) = <<>>
        BY <1>1, <2>2, OneElement
    <2> QED
        BY <1>5, <1>7, <2>2, <2>3 DEF EofLast, SourceStops
<1>8. CASE MapSymbols
    BY <1>8 DEF EofLast, MapSymbols
<1>9. CASE UNCHANGED txVars
    BY <1>9 DEF EofLast, txVars
<1> QED
    BY <1>2, <1>3, <1>4, <1>6, <1>7, <1>8, <1>9 DEF TxNext, MainStep, SourceStep

\* No step loses, doubles or reorders a packet.
LEMMA SentInOrderStep == TxTypes /\ EofLast /\ SentInOrder /\ [TxNext]_txVars => SentInOrder'
<1> SUFFICES ASSUME TxTypes, EofLast, SentInOrder, [TxNext]_txVars PROVE SentInOrder'
    OBVIOUS
<1>1. /\ msgq \in Seq(Item) /\ handed \in Seq(Packets) /\ queued \in Seq(Packets)
      /\ Len(msgq) \in Nat
    BY DEF TxTypes
<1>2. ASSUME NEW pkt \in Packets, SendPacket(pkt)
      PROVE  SentInOrder'
    <2>1. msgq \in Seq(Packets) /\ Waiting = msgq
        BY <1>2, OnlyPackets DEF SendPacket
    <2>2. msgq' = Append(msgq, pkt) /\ queued' = queued /\ handed' = Append(handed, pkt)
        BY <1>2 DEF SendPacket, insert_tail, vars
    <2>3. Waiting' = Append(msgq, pkt)
        BY <2>1, <2>2, LastOfAppend, PacketIsNotEof DEF Waiting
    <2>4. queued \o Append(msgq, pkt) = Append(queued \o msgq, pkt)
        BY <1>1, <2>1, AppendBehind
    <2> QED
        BY <2>1, <2>2, <2>3, <2>4 DEF SentInOrder
<1>3. CASE Wake \/ Wait \/ Return
    BY <1>3 DEF SentInOrder, Waiting, Wake, Wait, Return, vars
<1>4. CASE SendEof
    <2>1. CASE UNCHANGED msgq
        BY <1>4, <2>1 DEF SentInOrder, Waiting, SendEof, vars
    <2>2. CASE msgq' = Append(msgq, Eof)
        <3>1. Waiting = msgq
            BY <1>4, OnlyPackets DEF SendEof
        <3>2. Eof \in Item
            BY DEF Item
        <3>3. Waiting' = SubSeq(Append(msgq, Eof), 1, Len(Append(msgq, Eof)) - 1)
            BY <1>1, <2>2, <3>2, LastOfAppend DEF Waiting
        <3>4. Waiting' = msgq
            BY <1>1, <3>2, <3>3, FrontOfAppend
        <3> QED
            BY <1>4, <3>1, <3>4 DEF SentInOrder, SendEof, vars
    <2> QED
        BY <1>4, <2>1, <2>2 DEF SendEof, insert_tail
<1>5. CASE SourceWrites
    <2>1. /\ msgq # <<>> /\ Head(msgq) # Eof /\ msgq' = Tail(msgq)
          /\ queued' = Append(queued, Head(msgq)) /\ handed' = handed
        BY <1>5 DEF SourceWrites, Write
    <2>2. /\ Waiting \in Seq(Item) /\ Waiting # <<>>
          /\ Head(Waiting) = Head(msgq) /\ Waiting' = Tail(Waiting)
        BY <2>1, WaitingAfterTake
    <2>3. queued \in Seq(Item) /\ Head(Waiting) \in Item /\ Tail(Waiting) \in Seq(Item)
        BY <1>1, <2>2 DEF Item
    <2>4. Append(queued, Head(Waiting)) \o Tail(Waiting) = queued \o (<<Head(Waiting)>> \o Tail(Waiting))
        BY <2>3, BetweenTwo
    <2>5. <<Head(Waiting)>> \o Tail(Waiting) = Waiting
        BY <2>2, HeadInFront
    <2> QED
        BY <2>1, <2>2, <2>4, <2>5 DEF SentInOrder
<1>6. CASE SourceStops
    <2>1. Head(msgq) = msgq[1] /\ 1 \in 1 .. Len(msgq)
        BY <1>1, <1>6 DEF SourceStops
    <2>2. Len(msgq) = 1 /\ msgq[Len(msgq)] = Eof
        BY <1>6, <2>1 DEF SourceStops, EofLast
    <2>3. Tail(msgq) = <<>> /\ SubSeq(msgq, 1, Len(msgq) - 1) = <<>>
        BY <1>1, <2>2, OneElement
    <2> QED
        BY <1>6, <2>2, <2>3 DEF SentInOrder, Waiting, SourceStops, vars
<1>7. CASE MapSymbols
    BY <1>7 DEF SentInOrder, Waiting, MapSymbols, Work
<1>8. CASE UNCHANGED txVars
    BY <1>8 DEF SentInOrder, Waiting, txVars, vars
<1> QED
    BY <1>2, <1>3, <1>4, <1>5, <1>6, <1>7, <1>8 DEF TxNext, MainStep, SourceStep

\* Nothing is waiting to be consumed, and work() is not called.
LEMMA NothingToMap == ASSUME NEW room \in Room, consumed = written, written \in Int
                      PROVE  ~Work(room)
<1> DEFINE S == {written - consumed, room}
<1>1. room \in Nat
    BY BufferAssumption DEF Room
<1>2. written - consumed = 0 /\ \A n \in S : 0 <= n
    BY <1>1
<1>3. 0 \in S
    BY <1>2
<1>4. Min(S) = 0
    BY <1>1, <1>2, <1>3 DEF Min
<1>5. ~(Min(S) > 0)
    BY <1>4
<1> QED
    BY <1>5 DEF Work

\* A flow graph that is done stays so.
LEMMA DoneStaysStep ==
    TxTypes /\ EofLast /\ DoneStays /\ Counted /\ [TxNext]_txVars => DoneStays'
<1> SUFFICES ASSUME TxTypes, EofLast, DoneStays, Counted, [TxNext]_txVars, main' = "done"
             PROVE  GraphDone'
    BY DEF DoneStays
<1>1. CASE UNCHANGED <<vars, source>>
    <2>1. main = "done" => GraphDone
        BY DEF DoneStays
    <2>2. GraphDone
        BY <1>1, <2>1
        DEF TxNext, MainStep, SendPacket, Wake, Wait, Return, SendEof, SourceStep,
            SourceWrites, SourceStops, MapSymbols, txVars
    <2> QED
        BY <1>1, <2>2 DEF GraphDone, vars
<1>2. CASE SourceStep
    BY <1>2 DEF SourceStep, SourceWrites, SourceStops, DoneStays, GraphDone
<1>3. CASE MapSymbols
    BY <1>3, NothingToMap DEF MapSymbols, DoneStays, GraphDone, Counted
<1> QED
    BY <1>1, <1>2, <1>3
    DEF TxNext, MainStep, SendPacket, Wake, Wait, Return, SendEof, txVars

\* work() consumes no more than was written.
LEMMA CountedStep == Counted /\ TxTypes /\ [TxNext]_txVars => Counted'
<1> SUFFICES ASSUME Counted, TxTypes, [TxNext]_txVars PROVE Counted'
    OBVIOUS
<1>1. CASE UNCHANGED vars
    BY <1>1 DEF Counted, vars
<1>2. CASE SourceWrites
    <2>1. Head(msgq) \in Packets
        BY <1>2 DEF SourceWrites, TxTypes, Item
    <2>2. Len(Head(msgq)) \in Nat
        BY <2>1, BufferAssumption
    <2> QED
        BY <1>2, <2>2 DEF SourceWrites, Write, Counted
<1>3. ASSUME NEW room \in Room, Work(room)
      PROVE  Counted'
    <2> DEFINE n == Min({written - consumed, room})
    <2>1. room \in Nat /\ written - consumed \in Nat
        BY BufferAssumption DEF Room, Counted
    <2>2. n \in Nat /\ n <= written - consumed
        BY <2>1 DEF Min
    <2>3. consumed' = consumed + n /\ written' = written
        BY <1>3 DEF Work
    <2> HIDE DEF n
    <2> QED
        BY <2>2, <2>3 DEF Counted
<1> QED
    BY <1>1, <1>2, <1>3
    DEF TxNext, MainStep, SendPacket, Wake, Wait, Return, SendEof, SourceStep, SourceStops,
        MapSymbols, txVars

\* Every step preserves the invariant.
LEMMA NextIInv == IInv /\ [TxNext]_txVars => IInv'
BY TypesStep, EofLastStep, DoneStaysStep, CountedStep, SentInOrderStep DEF IInv

(***************************************************************************)
(* However main thread, source and scheduler interleave, however full the  *)
(* queue is and whether or not the program ends its stream, the invariant  *)
(* holds.                                                                  *)
(***************************************************************************)
THEOREM TransmitInvariant == TxSpec => []IInv
BY InitIInv, NextIInv, PTL DEF TxSpec

\* The queue keeps its limit, and every variable of the program its type.
THEOREM TransmitTypeCorrect == TxSpec => []TxTypeOK
<1>1. IInv => TxTypeOK
    BY DEF IInv, TxTypes
<1> QED
    BY <1>1, TransmitInvariant, PTL

\* No packet is lost, doubled or overtaken between send_pkt and the flow graph, and
\* nothing follows the end of the stream.
THEOREM PacketsSentInOrder == TxSpec => []SentInOrder
BY TransmitInvariant, PTL DEF IInv

\* When tb.wait() returns (transmitter.py:119), every packet handed to send_pkt has been
\* read and turned into words.
THEOREM DoneIsDone == TxSpec => []DoneMeansSent
<1>1. IInv => DoneMeansSent
    <2> SUFFICES ASSUME IInv, main = "done" PROVE queued = handed /\ consumed = written
        BY DEF DoneMeansSent
    <2>1. source = "done" /\ consumed = written
        BY DEF IInv, DoneStays, GraphDone
    <2>2. msgq = <<>>
        BY <2>1 DEF IInv, EofLast
    <2>3. Waiting = <<>>
        BY <2>2 DEF Waiting
    <2>4. queued \in Seq(Packets) /\ queued \o <<>> = handed
        BY <2>3 DEF IInv, TxTypes, SentInOrder
    <2> QED
        BY <2>1, <2>4
<1> QED
    BY <1>1, TransmitInvariant, PTL

\* A step of the program is one of the queue, or none.
LEMMA FifoStep == IInv /\ [TxNext]_txVars => [Fifo!Next]_(Fifo!vars)
<1> SUFFICES ASSUME IInv, [TxNext]_txVars PROVE [Fifo!Next]_(Fifo!vars)
    OBVIOUS
<1>0. TxTypes /\ EofLast /\ SentInOrder
    BY DEF IInv
<1>1. msgq \in Seq(Item) /\ handed \in Seq(Packets) /\ queued \in Seq(Packets)
    BY <1>0 DEF TxTypes
<1>2. ASSUME NEW pkt \in Packets, SendPacket(pkt)
      PROVE  Fifo!Put
    <2>1. handed' # <<>> /\ handed'[Len(handed')] = pkt
        BY <1>1, <1>2, LastOfAppend DEF SendPacket
    <2> QED
        BY <1>2, <2>1 DEF SendPacket, vars, Fifo!Put
<1>3. CASE SourceWrites
    <2>1. /\ msgq # <<>> /\ Head(msgq) # Eof /\ msgq' = Tail(msgq)
          /\ queued' = Append(queued, Head(msgq)) /\ handed' = handed
        BY <1>3 DEF SourceWrites, Write
    <2>2. Waiting \in Seq(Item) /\ Waiting # <<>> /\ Head(Waiting) = Head(msgq)
        BY <1>0, <2>1, WaitingAfterTake
    <2>3. queued \in Seq(Item)
        BY <1>1 DEF Item
    <2>4. /\ Len(queued \o Waiting) > Len(queued)
          /\ (queued \o Waiting)[Len(queued) + 1] = Head(Waiting)
        BY <2>2, <2>3
    <2>5. Len(queued) < Len(handed) /\ handed[Len(queued) + 1] = Head(msgq)
        BY <1>0, <2>2, <2>4 DEF SentInOrder
    <2>6. Fifo!Get
        BY <2>1, <2>5 DEF Fifo!Get
    <2> QED
        BY <2>6 DEF Fifo!Next
<1>4. CASE UNCHANGED <<queued, handed>>
    BY <1>4 DEF Fifo!vars
<1> QED
    BY <1>2, <1>3, <1>4
    DEF TxNext, MainStep, Wake, Wait, Return, SendEof, SourceStep, SourceStops, MapSymbols,
        Work, vars, txVars, Fifo!Next

(***************************************************************************)
(* send_pkt, the bounded queue and the message source together are a       *)
(* queue of packets.                                                       *)
(***************************************************************************)
THEOREM SenderIsFifo == TxSpec => Fifo!Spec
<1>1. TxInit => Fifo!Init
    BY DEF TxInit, Init, Fifo!Init
<1> QED
    BY <1>1, FifoStep, TransmitInvariant, PTL DEF TxSpec, Fifo!Spec

\* What the program does to the block is what anyone who feeds it packets may do.
LEMMA BlockStep == IInv /\ [TxNext]_txVars => [Next]_vars
<1> SUFFICES ASSUME IInv, [TxNext]_txVars
             PROVE  [Next]_vars
    OBVIOUS
<1>1. CASE UNCHANGED vars
    BY <1>1
<1>2. CASE SourceWrites
    <2>1. Head(msgq) \in Packets /\ Write(Head(msgq))
        BY <1>2 DEF SourceWrites, IInv, TxTypes, Item
    <2> QED
        BY <2>1 DEF Next
<1>3. ASSUME NEW room \in Room, Work(room)
      PROVE  Next
    BY <1>3 DEF Next
<1> QED
    BY <1>1, <1>2, <1>3
    DEF TxNext, MainStep, SendPacket, Wake, Wait, Return, SendEof, SourceStep, SourceStops,
        MapSymbols, vars, txVars

\* And so what holds of the block whoever feeds it holds of it in the program.
LEMMA ProgramRunsBlock == TxSpec => Spec
<1>1. TxInit => Init
    BY DEF TxInit
<1> QED
    BY <1>1, BlockStep, TransmitInvariant, PTL DEF TxSpec, Spec

(***************************************************************************)
(* In the transmitter program, too, each call of work() puts the words of  *)
(* the symbols it consumes first and in order, ahead of what it reads      *)
(* beyond its input (lib/ieee_symbols_to_chips_bs.cc:66-106).              *)
(***************************************************************************)
THEOREM TransmitterMapsInOrder == TxSpec => ConsumedComeFirst
BY ProgramRunsBlock, SymbolsConsumedInOrder

(***************************************************************************)
(* And where there is room for what waits it sends each packet in one      *)
(* piece, and the packets in order.                                        *)
(***************************************************************************)
THEOREM TransmitterSendsWhole == TxSpec => []PacketsInOnePiece
BY ProgramRunsBlock, PacketsStayWhole
=============================================================================
