-------------------------- MODULE PacketSinkProofs --------------------------
(***************************************************************************)
(* Proofs about PacketSink, for every value of its constants.              *)
(***************************************************************************)
EXTENDS PacketSink, SequenceLemmas

\* A shift stays in the register: the multiplication wraps.
LEMMA ShiftType ==
    ASSUME NEW reg \in Reg, NEW c \in Chips
    PROVE  Shift(reg, c) \in Reg
BY CodeAssumption DEF Shift, Reg, Chips

\* A register is recognised as a symbol or as none.
LEMMA HeardType ==
    ASSUME NEW c \in Chips, Heard(c) # NoSymbol
    PROVE  Heard(c) \in Symbols
BY DEF Heard, Symbol, Symbols

\* Zero, to which the counters are reset, lies in each of their ranges.
LEMMA Ranges ==
    /\ 0 \in Reg
    /\ 0 \in 0 .. ChipsPerSymbol - 1
    /\ 0 \in 0 .. PreambleBits - 1
    /\ 0 \in 0 .. ByteBits - 1
    /\ 0 \in Cells
BY CodeAssumption, SinkAssumption DEF Reg, Cells

\* The message made of n stored cells is a sequence of n bytes.
LEMMA MessageType ==
    ASSUME NEW S, NEW n \in Nat, NEW packet,
           \A i \in 0 .. n - 1 : packet[i] \in S
    PROVE  /\ Message(packet, n) \in Seq(S)
           /\ Len(Message(packet, n)) = n
           /\ DOMAIN Message(packet, n) = 1 .. n
<1> DEFINE m == [i \in 1 .. n |-> packet[i - 1]]
<1>1. \A i \in 1 .. n : m[i] \in S
    <2> TAKE i \in 1 .. n
    <2>1. i - 1 \in 0 .. n - 1
        OBVIOUS
    <2> QED
        BY <2>1
<1>2. m \in [1 .. n -> S]
    BY <1>1
<1> HIDE DEF m
<1>3. m \in Seq(S) /\ Len(m) = n /\ DOMAIN m = 1 .. n
    BY <1>2
<1> QED
    BY <1>3 DEF Message, m

\* The constructor establishes the invariant, whatever its garbage.
LEMMA InitIInv == Init => IInv
<1> SUFFICES ASSUME Init PROVE IInv
    OBVIOUS
<1> USE SinkAssumption DEF Init, States, STATE_SYNC_SEARCH, STATE_HAVE_SYNC,
        STATE_HAVE_HEADER
<1>1. TypeOK
    <2>1. d_packet \in [Cells -> Byte \cup Garbage]
        OBVIOUS
    <2>2. d_target_queue \in Seq(Seq(Byte))
        OBVIOUS
    <2> QED
        BY <2>1, <2>2, Ranges DEF TypeOK
<1>2. MessagesWellFormed
    BY DEF MessagesWellFormed
<1> QED
    BY <1>1, <1>2 DEF IInv, BodyInBounds, NothingUninitialised, LoopMatchesState, SearchCoherent

\* A chip preserves it, one step for each action.
LEMMA ChipIInv ==
    ASSUME IInv, NEW c \in Chips, NEW last \in BOOLEAN, ChipStep(c, last)
    PROVE  IInv'
<1> USE SinkAssumption, Ranges
    DEF States, STATE_SYNC_SEARCH, STATE_HAVE_SYNC, STATE_HAVE_HEADER, searchVars, phrVars,
        bodyVars, IInv, PushBit, FieldLost, FrameComplete
<1>a. Shift(d_shift_reg, c) \in Reg
    BY ShiftType DEF TypeOK
<1>b. Heard(c) # NoSymbol => Heard(c) \in {0, 1}
    BY HeardType DEF Symbols
<1>1. CASE SearchChip(c, last)
    <2> USE <1>1 DEF SearchChip, NoBreak
    <2>1. TypeOK'
        BY <1>a, <1>b DEF TypeOK
    <2>2. BodyInBounds'
        BY <1>a, <1>b DEF BodyInBounds, TypeOK, LoopMatchesState
    <2>3. NothingUninitialised'
        BY <1>a, <1>b DEF NothingUninitialised, TypeOK, LoopMatchesState
    <2>4. LoopMatchesState'
        BY <1>a, <1>b DEF LoopMatchesState
    <2>5. SearchCoherent'
        BY <1>a, <1>b DEF SearchCoherent, TypeOK
    <2>6. MessagesWellFormed'
        BY <1>a, <1>b DEF MessagesWellFormed
    <2> QED
        BY <2>1, <2>2, <2>3, <2>4, <2>5, <2>6
<1>2. CASE PreambleZero(c, last)
    <2> USE <1>2 DEF PreambleZero, NoBreak
    <2>1. TypeOK'
        <3>1. CASE bit_breamble + 1 = PreambleBits
            BY <1>a, <3>1 DEF TypeOK
        <3>2. CASE bit_breamble + 1 # PreambleBits
            <4>1. bit_breamble' \in 0 .. PreambleBits - 1
                BY <3>2 DEF TypeOK
            <4> QED
                BY <1>a, <3>2, <4>1 DEF TypeOK
        <3> QED
            BY <3>1, <3>2
    <2>2. BodyInBounds'
        BY <1>a, <1>b DEF BodyInBounds, TypeOK, LoopMatchesState
    <2>3. NothingUninitialised'
        BY <1>a, <1>b DEF NothingUninitialised, TypeOK, LoopMatchesState
    <2>4. LoopMatchesState'
        BY <1>a, <1>b DEF LoopMatchesState
    <2>5. SearchCoherent'
        BY <1>a, <1>b DEF SearchCoherent, TypeOK
    <2>6. MessagesWellFormed'
        BY <1>a, <1>b DEF MessagesWellFormed
    <2> QED
        BY <2>1, <2>2, <2>3, <2>4, <2>5, <2>6
<1>3. CASE PreambleBroken(c)
    <2> USE <1>3 DEF PreambleBroken, enter_search, Break
    <2>1. TypeOK'
        BY <1>a, <1>b DEF TypeOK
    <2>2. BodyInBounds'
        BY <1>a, <1>b DEF BodyInBounds, TypeOK, LoopMatchesState
    <2>3. NothingUninitialised'
        BY <1>a, <1>b DEF NothingUninitialised, TypeOK, LoopMatchesState
    <2>4. LoopMatchesState'
        BY <1>a, <1>b DEF LoopMatchesState
    <2>5. SearchCoherent'
        BY <1>a, <1>b DEF SearchCoherent, TypeOK
    <2>6. MessagesWellFormed'
        BY <1>a, <1>b DEF MessagesWellFormed
    <2> QED
        BY <2>1, <2>2, <2>3, <2>4, <2>5, <2>6
<1>4. CASE SkipZero(c, last)
    <2> USE <1>4 DEF SkipZero, NoBreak
    <2>1. TypeOK'
        BY <1>a, <1>b DEF TypeOK
    <2>2. BodyInBounds'
        BY <1>a, <1>b DEF BodyInBounds, TypeOK, LoopMatchesState
    <2>3. NothingUninitialised'
        BY <1>a, <1>b DEF NothingUninitialised, TypeOK, LoopMatchesState
    <2>4. LoopMatchesState'
        BY <1>a, <1>b DEF LoopMatchesState
    <2>5. SearchCoherent'
        BY <1>a, <1>b DEF SearchCoherent, TypeOK
    <2>6. MessagesWellFormed'
        BY <1>a, <1>b DEF MessagesWellFormed
    <2> QED
        BY <2>1, <2>2, <2>3, <2>4, <2>5, <2>6
<1>5. CASE SfdBit(c, last)
    <2> USE <1>5 DEF SfdBit, SfdSymbol, SfdStarts, NoBreak
    <2>1. TypeOK'
        BY <1>a, <1>b DEF TypeOK
    <2>2. BodyInBounds'
        BY <1>a, <1>b DEF BodyInBounds, TypeOK, LoopMatchesState
    <2>3. NothingUninitialised'
        BY <1>a, <1>b DEF NothingUninitialised, TypeOK, LoopMatchesState
    <2>4. LoopMatchesState'
        BY <1>a, <1>b DEF LoopMatchesState
    <2>5. SearchCoherent'
        BY <1>a, <1>b DEF SearchCoherent, TypeOK
    <2>6. MessagesWellFormed'
        BY <1>a, <1>b DEF MessagesWellFormed
    <2> QED
        BY <2>1, <2>2, <2>3, <2>4, <2>5, <2>6
<1>6. CASE SfdFound(c)
    <2> USE <1>6 DEF SfdFound, SfdSymbol, SfdStarts, enter_have_sync, Break
    <2>1. TypeOK'
        BY <1>a, <1>b DEF TypeOK
    <2>2. BodyInBounds'
        BY <1>a, <1>b DEF BodyInBounds, TypeOK, LoopMatchesState
    <2>3. NothingUninitialised'
        BY <1>a, <1>b DEF NothingUninitialised, TypeOK, LoopMatchesState
    <2>4. LoopMatchesState'
        BY <1>a, <1>b DEF LoopMatchesState
    <2>5. SearchCoherent'
        BY <1>a, <1>b DEF SearchCoherent, TypeOK
    <2>6. MessagesWellFormed'
        BY <1>a, <1>b DEF MessagesWellFormed
    <2> QED
        BY <2>1, <2>2, <2>3, <2>4, <2>5, <2>6
<1>7. CASE SfdWrong(c)
    <2> USE <1>7 DEF SfdWrong, SfdSymbol, SfdStarts, enter_search, Break
    <2>1. TypeOK'
        BY <1>a, <1>b DEF TypeOK
    <2>2. BodyInBounds'
        BY <1>a, <1>b DEF BodyInBounds, TypeOK, LoopMatchesState
    <2>3. NothingUninitialised'
        BY <1>a, <1>b DEF NothingUninitialised, TypeOK, LoopMatchesState
    <2>4. LoopMatchesState'
        BY <1>a, <1>b DEF LoopMatchesState
    <2>5. SearchCoherent'
        BY <1>a, <1>b DEF SearchCoherent, TypeOK
    <2>6. MessagesWellFormed'
        BY <1>a, <1>b DEF MessagesWellFormed
    <2> QED
        BY <2>1, <2>2, <2>3, <2>4, <2>5, <2>6
<1>8. CASE FieldChip(c, last)
    <2> USE <1>8 DEF FieldChip, NoBreak
    <2>1. TypeOK'
        BY <1>a, <1>b DEF TypeOK
    <2>2. BodyInBounds'
        BY <1>a, <1>b DEF BodyInBounds, TypeOK, LoopMatchesState
    <2>3. NothingUninitialised'
        BY <1>a, <1>b DEF NothingUninitialised, TypeOK, LoopMatchesState
    <2>4. LoopMatchesState'
        BY <1>a, <1>b DEF LoopMatchesState
    <2>5. SearchCoherent'
        BY <1>a, <1>b DEF SearchCoherent, TypeOK
    <2>6. MessagesWellFormed'
        BY <1>a, <1>b DEF MessagesWellFormed
    <2> QED
        BY <2>1, <2>2, <2>3, <2>4, <2>5, <2>6
<1>9. CASE FieldAbort(c, last)
    <2> USE <1>9 DEF FieldAbort, enter_search, NoBreak
    <2>1. TypeOK'
        BY <1>a, <1>b DEF TypeOK
    <2>2. BodyInBounds'
        BY <1>a, <1>b DEF BodyInBounds, TypeOK, LoopMatchesState
    <2>3. NothingUninitialised'
        BY <1>a, <1>b DEF NothingUninitialised, TypeOK, LoopMatchesState
    <2>4. LoopMatchesState'
        BY <1>a, <1>b DEF LoopMatchesState
    <2>5. SearchCoherent'
        BY <1>a, <1>b DEF SearchCoherent, TypeOK
    <2>6. MessagesWellFormed'
        BY <1>a, <1>b DEF MessagesWellFormed
    <2> QED
        BY <2>1, <2>2, <2>3, <2>4, <2>5, <2>6
<1>10. CASE PhrBit(c, last)
    <2> USE <1>10 DEF PhrBit, FieldSymbol, NoBreak
    <2>1. TypeOK'
        BY <1>a, <1>b DEF TypeOK
    <2>2. BodyInBounds'
        BY <1>a, <1>b DEF BodyInBounds, TypeOK, LoopMatchesState
    <2>3. NothingUninitialised'
        BY <1>a, <1>b DEF NothingUninitialised, TypeOK, LoopMatchesState
    <2>4. LoopMatchesState'
        BY <1>a, <1>b DEF LoopMatchesState
    <2>5. SearchCoherent'
        BY <1>a, <1>b DEF SearchCoherent, TypeOK
    <2>6. MessagesWellFormed'
        BY <1>a, <1>b DEF MessagesWellFormed
    <2> QED
        BY <2>1, <2>2, <2>3, <2>4, <2>5, <2>6
<1>11. CASE PhrAccepted(c)
    <2> USE <1>11 DEF PhrAccepted, FieldSymbol, enter_have_header, Break
    <2>1. TypeOK'
        BY <1>a, <1>b DEF TypeOK
    <2>2. BodyInBounds'
        BY <1>a, <1>b DEF NothingUninitialised, TypeOK
    <2>3. NothingUninitialised'
        BY <1>a, <1>b DEF NothingUninitialised, TypeOK, LoopMatchesState
    <2>4. LoopMatchesState'
        BY <1>a, <1>b DEF LoopMatchesState
    <2>5. SearchCoherent'
        BY <1>a, <1>b DEF SearchCoherent, TypeOK
    <2>6. MessagesWellFormed'
        BY <1>a, <1>b DEF MessagesWellFormed
    <2> QED
        BY <2>1, <2>2, <2>3, <2>4, <2>5, <2>6
<1>12. CASE PhrRejected(c)
    <2> USE <1>12 DEF PhrRejected, FieldSymbol, enter_search, Break
    <2>1. TypeOK'
        <3>1. (/\ loop \in States /\ d_state \in States /\ d_shift_reg \in Reg
               /\ d_chip_cnt \in 0 .. ChipsPerSymbol - 1)'
            BY DEF TypeOK
        <3>2. (/\ bit_breamble \in 0 .. PreambleBits - 1
               /\ find_preamble \in BOOLEAN /\ search_sfd \in BOOLEAN
               /\ first_found \in BOOLEAN
               /\ bit_sfd \in Nat /\ nbr_bit_sfd \in 0 .. ByteBits - 1)'
            BY DEF TypeOK
        <3>3. (/\ nbr_bits \in Int /\ byte \in Int /\ d_byte \in Int
               /\ d_packetlen \in Int /\ d_packetlen_cnt \in Int /\ d_payload_cnt \in Int)'
            BY <1>b DEF TypeOK
        <3>4. (/\ d_packet \in [Cells -> Byte \cup Garbage]
               /\ d_target_queue \in Seq(Seq(Byte)))'
            BY DEF TypeOK
        <3> QED
            BY <3>1, <3>2, <3>3, <3>4 DEF TypeOK
    <2>2. BodyInBounds'
        BY <1>a, <1>b DEF BodyInBounds, TypeOK, LoopMatchesState
    <2>3. NothingUninitialised'
        BY <1>a, <1>b DEF NothingUninitialised, TypeOK, LoopMatchesState
    <2>4. LoopMatchesState'
        BY <1>a, <1>b DEF LoopMatchesState
    <2>5. SearchCoherent'
        BY <1>a, <1>b DEF SearchCoherent, TypeOK
    <2>6. MessagesWellFormed'
        BY <1>a, <1>b DEF MessagesWellFormed
    <2> QED
        BY <2>1, <2>2, <2>3, <2>4, <2>5, <2>6
<1>13. CASE PayloadBit(c, last)
    <2> USE <1>13 DEF PayloadBit, FieldSymbol, NoBreak
    <2>1. TypeOK'
        BY <1>a, <1>b DEF TypeOK
    <2>2. BodyInBounds'
        BY <1>a, <1>b DEF BodyInBounds, TypeOK, LoopMatchesState
    <2>3. NothingUninitialised'
        BY <1>a, <1>b DEF NothingUninitialised, TypeOK, LoopMatchesState
    <2>4. LoopMatchesState'
        BY <1>a, <1>b DEF LoopMatchesState
    <2>5. SearchCoherent'
        BY <1>a, <1>b DEF SearchCoherent, TypeOK
    <2>6. MessagesWellFormed'
        BY <1>a, <1>b DEF MessagesWellFormed
    <2> QED
        BY <2>1, <2>2, <2>3, <2>4, <2>5, <2>6
<1>14. CASE PayloadByte(c, last)
    <2> USE <1>14 DEF PayloadByte, StoreByte, FieldSymbol, NoBreak
    <2>a. PushBit(d_byte, Heard(c)) % ByteSize \in Byte
        BY <1>b DEF Byte, NothingUninitialised
    <2>b. /\ d_packetlen_cnt \in Cells
          /\ d_packet' \in [Cells -> Byte \cup Garbage]
          /\ d_packet'[d_packetlen_cnt] \in Byte
        BY <2>a DEF BodyInBounds, TypeOK
    <2>c. \A i \in 0 .. d_packetlen_cnt : d_packet'[i] \in Byte
        BY <2>a, <2>b DEF NothingUninitialised, TypeOK, Cells
    <2>1. TypeOK'
        BY <1>a, <2>b DEF TypeOK
    <2>2. BodyInBounds'
        BY <2>b DEF BodyInBounds, LoopMatchesState, Cells
    <2>3. NothingUninitialised'
        BY <2>b, <2>c DEF NothingUninitialised, LoopMatchesState, Cells
    <2>4. LoopMatchesState'
        BY <1>a, <1>b DEF LoopMatchesState
    <2>5. SearchCoherent'
        BY <1>a, <1>b DEF SearchCoherent, TypeOK
    <2>6. MessagesWellFormed'
        BY <1>a, <1>b DEF MessagesWellFormed
    <2> QED
        BY <2>1, <2>2, <2>3, <2>4, <2>5, <2>6
<1>15. CASE PayloadDone(c)
    <2> USE <1>15 DEF PayloadDone, StoreByte, FieldSymbol, enter_search, Break
    <2>a. PushBit(d_byte, Heard(c)) % ByteSize \in Byte
        BY <1>b, SMTT(30) DEF Byte, NothingUninitialised
    <2>b. /\ d_packetlen_cnt \in Cells
          /\ d_packet' \in [Cells -> Byte \cup Garbage]
          /\ d_packet'[d_packetlen_cnt] \in Byte
        BY <2>a DEF BodyInBounds, TypeOK
    <2>c. \A i \in 0 .. d_packetlen_cnt : d_packet'[i] \in Byte
        BY <2>a, <2>b DEF NothingUninitialised, TypeOK, Cells
    <2>d. d_packetlen_cnt' \in 1 .. MAX_PKT_LEN
        BY <2>b DEF Cells
    <2>e. /\ Message(d_packet', d_packetlen_cnt') \in Seq(Byte)
          /\ Len(Message(d_packet', d_packetlen_cnt')) = d_packetlen_cnt'
        <3>1. d_packetlen_cnt' \in Nat /\ d_packetlen_cnt' - 1 = d_packetlen_cnt
            BY <2>b, <2>d DEF Cells
        <3> QED
            BY <2>c, <3>1, MessageType
    <2>1. TypeOK'
        <3>1. (/\ loop \in States /\ d_state \in States /\ d_shift_reg \in Reg
               /\ d_chip_cnt \in 0 .. ChipsPerSymbol - 1)'
            BY DEF TypeOK
        <3>2. (/\ bit_breamble \in 0 .. PreambleBits - 1
               /\ find_preamble \in BOOLEAN /\ search_sfd \in BOOLEAN
               /\ first_found \in BOOLEAN
               /\ bit_sfd \in Nat /\ nbr_bit_sfd \in 0 .. ByteBits - 1)'
            BY DEF TypeOK
        <3>3. (/\ nbr_bits \in Int /\ byte \in Int /\ d_byte \in Int
               /\ d_packetlen \in Int /\ d_packetlen_cnt \in Int /\ d_payload_cnt \in Int)'
            BY <2>b, <2>e DEF TypeOK
        <3>4. (/\ d_packet \in [Cells -> Byte \cup Garbage]
               /\ d_target_queue \in Seq(Seq(Byte)))'
            BY <2>b, <2>e DEF TypeOK
        <3> QED
            BY <3>1, <3>2, <3>3, <3>4 DEF TypeOK
    <2>2. BodyInBounds'
        BY <1>a, <1>b DEF BodyInBounds, TypeOK, LoopMatchesState
    <2>3. NothingUninitialised'
        BY <1>a, <1>b DEF NothingUninitialised, TypeOK, LoopMatchesState
    <2>4. LoopMatchesState'
        BY <1>a, <1>b DEF LoopMatchesState
    <2>5. SearchCoherent'
        BY <1>a, <1>b DEF SearchCoherent, TypeOK
    <2>6. MessagesWellFormed'
        BY <2>d, <2>e DEF MessagesWellFormed, TypeOK
    <2> QED
        BY <2>1, <2>2, <2>3, <2>4, <2>5, <2>6
<1> QED
    BY <1>1, <1>2, <1>3, <1>4, <1>5, <1>6, <1>7, <1>8, <1>9, <1>10, <1>11, <1>12, <1>13, <1>14, <1>15 DEF ChipStep

\* Taking a message preserves it.
LEMMA HeadIInv == IInv /\ delete_head => IInv'
<1> SUFFICES ASSUME IInv, delete_head PROVE IInv'
    OBVIOUS
<1> USE DEF IInv, delete_head, sinkVars, searchVars, phrVars, bodyVars
<1>1. /\ d_target_queue' \in Seq(Seq(Byte))
      /\ Len(d_target_queue') = Len(d_target_queue) - 1
      /\ \A i \in 1 .. Len(d_target_queue') : d_target_queue'[i] = d_target_queue[i + 1]
    BY DEF TypeOK
<1>2. TypeOK'
    BY <1>1 DEF TypeOK
<1>3. MessagesWellFormed'
    BY <1>1 DEF MessagesWellFormed, TypeOK
<1>4. (BodyInBounds /\ NothingUninitialised /\ LoopMatchesState /\ SearchCoherent)'
    BY DEF BodyInBounds, NothingUninitialised, LoopMatchesState, SearchCoherent
<1> QED
    BY <1>2, <1>3, <1>4

\* So does a step that changes nothing.
LEMMA StutterIInv == IInv /\ UNCHANGED vars => IInv'
BY DEF IInv, vars, sinkVars, searchVars, phrVars, bodyVars, TypeOK, BodyInBounds,
       NothingUninitialised, LoopMatchesState, SearchCoherent, MessagesWellFormed

\* Every step preserves the invariant.
LEMMA NextIInv == IInv /\ [Next]_vars => IInv'
BY ChipIInv, HeadIInv, StutterIInv DEF Next, Work

(***************************************************************************)
(* Whatever chips arrive, however work() is cut into calls and whatever    *)
(* the uninitialised fields hold, the invariant holds: fields keep their   *)
(* types, d_packet is never written outside its bounds, no uninitialised   *)
(* field is read, the search stays coherent and messages fit a frame.      *)
(***************************************************************************)
THEOREM SinkInvariant == Spec => []IInv
BY InitIInv, NextIInv, PTL DEF Spec

\* Every field of the sink has its type in every reachable state.
THEOREM TypeCorrect == Spec => []TypeOK
BY SinkInvariant, PTL DEF IInv

\* The store d_packet[d_packetlen_cnt++] = d_byte (l.428) is always in bounds,
\* and the two counters of the body agree with each other and with the PHR.
THEOREM StoreInBounds == Spec => []BodyInBounds
BY SinkInvariant, PTL DEF IInv

\* No loop of work() reads a field that the constructor left uninitialised and
\* no entry function has set since.
THEOREM NoUninitialisedRead == Spec => []NothingUninitialised
BY SinkInvariant, PTL DEF IInv

\* Every message in the queue has 1 to MAX_PKT_LEN bytes.
THEOREM MessagesFit == Spec => []MessagesWellFormed
BY SinkInvariant, PTL DEF IInv

\* The loop of work() that runs is that of d_state, or of a field that was given
\* up by enter_search without a break.
THEOREM LoopIsStateOrAbandoned == Spec => []LoopMatchesState
BY SinkInvariant, PTL DEF IInv

\* The search cannot wedge: its flags, its counters and its word of the SFD agree
\* in every state the next switch will search in.
THEOREM SearchStaysCoherent == Spec => []SearchCoherent
BY SinkInvariant, PTL DEF IInv
-----------------------------------------------------------------------------
(***************************************************************************)
(* What a step delivers, and the refinement of Framing.                    *)
(***************************************************************************)
LEMMA OnlyDoneDelivers ==
    ASSUME NEW c, NEW last, ChipStep(c, last)
    PROVE  PayloadDone(c) \/ UNCHANGED d_target_queue
BY DEF ChipStep, SearchChip, PreambleZero, PreambleBroken, SkipZero, SfdBit, SfdFound,
       SfdWrong, FieldChip, FieldAbort, PhrBit, PhrAccepted, PhrRejected, PayloadBit,
       PayloadByte

\* The byte that StoreByte stores, and what the store makes of the message.
LEMMA StoredByte ==
    ASSUME IInv, NEW c \in Chips, StoreByte(c)
    PROVE  \E b \in Byte :
              /\ d_packetlen_cnt \in Nat
              /\ Message(d_packet', d_packetlen_cnt')
                    = Append(Message(d_packet, d_packetlen_cnt), b)
              /\ Len(Message(d_packet, d_packetlen_cnt)) = d_packetlen_cnt
              /\ Len(Message(d_packet', d_packetlen_cnt')) = d_packetlen_cnt + 1
              /\ Message(d_packet', d_packetlen_cnt') \in Seq(Byte)
<1> DEFINE b == PushBit(d_byte, Heard(c)) % ByteSize
<1> USE DEF StoreByte, FieldSymbol
<1>1. b \in Byte
    BY HeardType, SinkAssumption DEF IInv, NothingUninitialised, Byte, Symbols, PushBit,
       STATE_HAVE_HEADER, STATE_SYNC_SEARCH, STATE_HAVE_SYNC
<1>2. /\ d_packetlen_cnt \in Cells /\ d_packetlen_cnt \in Nat
      /\ d_packetlen_cnt' = d_packetlen_cnt + 1
    BY SinkAssumption DEF IInv, BodyInBounds, Cells
<1>3. /\ d_packet'[d_packetlen_cnt] = b
      /\ \A i \in 0 .. d_packetlen_cnt - 1 : d_packet'[i] = d_packet[i]
    BY <1>2 DEF IInv, TypeOK, Cells
<1> DEFINE old == Message(d_packet, d_packetlen_cnt)
           new == Message(d_packet', d_packetlen_cnt')
<1>4. /\ old \in Seq(Byte) /\ Len(old) = d_packetlen_cnt
      /\ \A i \in 1 .. d_packetlen_cnt : old[i] = d_packet[i - 1]
    <2>1. \A i \in 0 .. d_packetlen_cnt - 1 : d_packet[i] \in Byte
        BY DEF IInv, NothingUninitialised
    <2> QED
        BY <1>2, <2>1, MessageType DEF Message
<1>5. /\ new \in Seq(Byte) /\ Len(new) = d_packetlen_cnt + 1
      /\ \A i \in 1 .. d_packetlen_cnt + 1 : new[i] = d_packet'[i - 1]
    <2>1. \A i \in 0 .. d_packetlen_cnt' - 1 : d_packet'[i] \in Byte
        BY <1>1, <1>2, <1>3 DEF IInv, NothingUninitialised
    <2> QED
        BY <1>2, <2>1, MessageType DEF Message
<1> HIDE DEF b, old, new
<1>6. new = Append(old, b)
    <2>1. \A i \in 1 .. d_packetlen_cnt : i - 1 \in 0 .. d_packetlen_cnt - 1
        BY <1>2
    <2>2. \A i \in 1 .. d_packetlen_cnt : new[i] = old[i]
        BY <1>2, <1>3, <1>4, <1>5, <2>1
    <2>3. new[d_packetlen_cnt + 1] = b
        BY <1>2, <1>3, <1>5
    <2> QED
        BY <1>1, <1>2, <1>4, <1>5, <2>2, <2>3
<1> QED
    BY <1>1, <1>2, <1>4, <1>5, <1>6 DEF old, new

\* The message of PayloadDone has the announced length.
LEMMA DoneHasDeclaredLength ==
    ASSUME IInv, NEW c \in Chips, PayloadDone(c)
    PROVE  /\ loop = STATE_HAVE_HEADER
           /\ d_target_queue' # <<>>
           /\ Len(d_target_queue'[Len(d_target_queue')])
                 = (IF d_packetlen = 0 THEN 1 ELSE d_packetlen)
           /\ d_state' = STATE_SYNC_SEARCH /\ loop' = STATE_SYNC_SEARCH
<1> DEFINE msg == Message(d_packet', d_packetlen_cnt')
<1>1. StoreByte(c) /\ d_target_queue' = Append(d_target_queue, msg)
    BY DEF PayloadDone
<1>2. loop = STATE_HAVE_HEADER /\ d_state' = STATE_SYNC_SEARCH /\ loop' = STATE_SYNC_SEARCH
    BY DEF PayloadDone, StoreByte, FieldSymbol, enter_search, Break
<1>3. d_target_queue \in Seq(Seq(Byte))
    BY DEF IInv, TypeOK
<1>4. Len(msg) = d_packetlen_cnt + 1 /\ d_packetlen_cnt \in Nat /\ msg \in Seq(Byte)
    BY <1>1, StoredByte
<1>5. d_packetlen_cnt + 1 = (IF d_packetlen = 0 THEN 1 ELSE d_packetlen)
    BY <1>2, <1>4, SinkAssumption
    DEF PayloadDone, StoreByte, FrameComplete, IInv, BodyInBounds, Cells
<1> HIDE DEF msg
<1>6. d_target_queue'[Len(d_target_queue')] = msg /\ d_target_queue' # <<>>
    BY <1>1, <1>3, <1>4, LastOfAppend
<1> QED
    BY <1>2, <1>4, <1>5, <1>6

(***************************************************************************)
(* Every message has the length its PHR announced, one byte for a PHR of 0,*)
(* however many fields were given up and buffers cut before it.            *)
(***************************************************************************)
THEOREM DeclaredLength == Spec => MessageHasDeclaredLength
<1> DEFINE Growing ==
        Len(d_target_queue') > Len(d_target_queue) =>
          /\ loop = STATE_HAVE_HEADER
          /\ Len(d_target_queue'[Len(d_target_queue')])
                = (IF d_packetlen = 0 THEN 1 ELSE d_packetlen)
          /\ d_state' = STATE_SYNC_SEARCH /\ loop' = STATE_SYNC_SEARCH
<1>1. IInv /\ [Next]_vars => [Growing]_vars
    <2> SUFFICES ASSUME IInv, Next PROVE Growing
        OBVIOUS
    <2>0. Len(d_target_queue) \in Nat
        BY DEF IInv, TypeOK
    <2>1. CASE delete_head
        BY <2>1 DEF delete_head, IInv, TypeOK
    <2>2. CASE Work
        <3>1. PICK c \in Chips, last \in BOOLEAN : ChipStep(c, last)
            BY <2>2 DEF Work
        <3>2. CASE PayloadDone(c)
            BY <3>2, DoneHasDeclaredLength
        <3>3. CASE UNCHANGED d_target_queue
            BY <2>0, <3>3
        <3> QED
            BY <3>1, <3>2, <3>3, OnlyDoneDelivers
    <2> QED
        BY <2>1, <2>2 DEF Next
<1> QED
    BY <1>1, SinkInvariant, PTL DEF Spec, MessageHasDeclaredLength

\* Before the first chip Framing hunts, with nothing in its hands.
LEMMA InitFraming == Init => LoopFraming!Init
BY DEF Init, LoopFraming!Init, Phase, Announced, Collected, STATE_SYNC_SEARCH,
       STATE_HAVE_SYNC, STATE_HAVE_HEADER

\* A step that leaves the loop, the announced length and the stored bytes alone
\* is a stutter of Framing; one that goes back to the search gives up a frame.
LEMMA SameLoop ==
    ASSUME loop' = loop, UNCHANGED <<d_packetlen, d_packet, d_packetlen_cnt, d_target_queue>>
    PROVE  UNCHANGED LoopFraming!vars
BY DEF LoopFraming!vars, Announced, Collected

\* A step of a field's loop that ends in the search gives the frame up.
LEMMA BackToSearch ==
    ASSUME IInv, loop # STATE_SYNC_SEARCH, loop' = STATE_SYNC_SEARCH, UNCHANGED d_target_queue
    PROVE  LoopFraming!GiveUp
BY DEF LoopFraming!GiveUp, Phase, Announced, Collected, IInv, TypeOK, States,
       STATE_SYNC_SEARCH, STATE_HAVE_SYNC, STATE_HAVE_HEADER

\* Every chip is a step of Framing, or a stutter.
LEMMA ChipFraming ==
    ASSUME IInv, IInv', NEW c \in Chips, NEW last \in BOOLEAN, ChipStep(c, last)
    PROVE  [LoopFraming!Next]_(LoopFraming!vars)
<1> USE DEF STATE_SYNC_SEARCH, STATE_HAVE_SYNC, STATE_HAVE_HEADER
<1> DEFINE Kept == UNCHANGED <<d_packetlen, d_packet, d_packetlen_cnt, d_target_queue>>
<1>a. ASSUME loop # STATE_SYNC_SEARCH, UNCHANGED d_target_queue, NoBreak(last),
             d_state' \in {d_state, STATE_SYNC_SEARCH}, loop' # loop
      PROVE  LoopFraming!Next
    <2>1. loop' = STATE_SYNC_SEARCH
        BY <1>a DEF NoBreak, IInv, LoopMatchesState, TypeOK, States
    <2> QED
        BY <1>a, <2>1, BackToSearch DEF LoopFraming!Next
<1>1. CASE loop = STATE_SYNC_SEARCH /\ ~SfdFound(c)
    <2>1. Kept
        BY <1>1 DEF ChipStep, SearchChip, PreambleZero, PreambleBroken, SkipZero, SfdBit,
           SfdWrong, SfdSymbol, FieldChip, FieldAbort, PhrBit, PhrAccepted, PhrRejected,
           PayloadBit, PayloadByte, PayloadDone, StoreByte, FieldSymbol, bodyVars
    <2>2. loop' = loop
        BY <1>1 DEF ChipStep, SearchChip, PreambleZero, PreambleBroken, SkipZero, SfdBit,
           SfdWrong, SfdSymbol, FieldChip, FieldAbort, PhrBit, PhrAccepted, PhrRejected,
           PayloadBit, PayloadByte, PayloadDone, StoreByte, FieldSymbol, enter_search,
           Break, NoBreak, IInv, LoopMatchesState
    <2> QED
        BY <2>1, <2>2, SameLoop
<1>2. CASE SfdFound(c)
    <2>1. LoopFraming!Synchronise
        BY <1>2 DEF SfdFound, SfdSymbol, enter_have_sync, Break, LoopFraming!Synchronise,
           Phase, Announced, Collected
    <2> QED
        BY <2>1 DEF LoopFraming!Next
<1>3. CASE FieldChip(c, last) \/ FieldAbort(c, last) \/ PhrBit(c, last) \/ PayloadBit(c, last)
    <2>1. /\ loop # STATE_SYNC_SEARCH /\ NoBreak(last)
          /\ UNCHANGED <<d_packetlen, d_packet, d_target_queue, d_packetlen_cnt>>
          /\ d_state' \in {d_state, STATE_SYNC_SEARCH}
        BY <1>3 DEF FieldChip, FieldAbort, PhrBit, PayloadBit, FieldSymbol, bodyVars,
           enter_search
    <2> QED
        BY <1>a, <2>1, SameLoop
<1>4. CASE PhrAccepted(c)
    <2>1. /\ loop = STATE_HAVE_SYNC /\ loop' = STATE_HAVE_HEADER
          /\ d_packetlen' = byte' /\ byte' <= MAX_PKT_LEN
          /\ d_packetlen_cnt' = 0 /\ UNCHANGED d_target_queue
        BY <1>4 DEF PhrAccepted, FieldSymbol, enter_have_header, Break, IInv,
           NothingUninitialised
    <2>2. d_packetlen' \in 0 .. MAX_PKT_LEN
        BY <2>1 DEF IInv, BodyInBounds
    <2>3. Message(d_packet', 0) = <<>>
        BY MessageType DEF Message
    <2>4. LoopFraming!TakeLength(d_packetlen')
        BY <2>1, <2>3 DEF LoopFraming!TakeLength, Phase, Announced, Collected
    <2> QED
        BY <2>2, <2>4 DEF LoopFraming!Next
<1>5. CASE PhrRejected(c)
    <2>1. /\ loop = STATE_HAVE_SYNC /\ loop' = STATE_SYNC_SEARCH
          /\ UNCHANGED d_target_queue
        BY <1>5 DEF PhrRejected, FieldSymbol, enter_search, Break
    <2> QED
        BY <2>1, BackToSearch DEF LoopFraming!Next
<1>6. CASE PayloadByte(c, last)
    <2>1. /\ StoreByte(c) /\ NoBreak(last) /\ loop = STATE_HAVE_HEADER
          /\ UNCHANGED <<d_target_queue, d_packetlen, d_state>>
          /\ d_payload_cnt + 1 < d_packetlen
        BY <1>6 DEF PayloadByte, StoreByte, FieldSymbol, FrameComplete, IInv, BodyInBounds, Cells
    <2>2. CASE loop' = loop
        <3>1. PICK b \in Byte :
                /\ Message(d_packet', d_packetlen_cnt')
                      = Append(Message(d_packet, d_packetlen_cnt), b)
                /\ Len(Message(d_packet, d_packetlen_cnt)) = d_packetlen_cnt
            BY <2>1, StoredByte
        <3>2. LoopFraming!TakeByte(b)
            BY <2>1, <2>2, <3>1 DEF LoopFraming!TakeByte, Phase, Announced, Collected,
               IInv, BodyInBounds
        <3> QED
            BY <3>2 DEF LoopFraming!Next
    <2> QED
        BY <1>a, <2>1, <2>2
<1>7. CASE PayloadDone(c)
    <2>1. /\ StoreByte(c) /\ loop = STATE_HAVE_HEADER /\ loop' = STATE_SYNC_SEARCH
          /\ d_payload_cnt + 1 >= d_packetlen
          /\ d_target_queue' = Append(d_target_queue, Message(d_packet', d_packetlen_cnt'))
        BY <1>7 DEF PayloadDone, StoreByte, FieldSymbol, FrameComplete, enter_search, Break
    <2>2. PICK b \in Byte :
            /\ Message(d_packet', d_packetlen_cnt')
                  = Append(Message(d_packet, d_packetlen_cnt), b)
            /\ Len(Message(d_packet, d_packetlen_cnt)) = d_packetlen_cnt
        BY <2>1, StoredByte
    <2>3. LoopFraming!Deliver(b)
        BY <2>1, <2>2 DEF LoopFraming!Deliver, Phase, Announced, Collected, IInv, BodyInBounds
    <2> QED
        BY <2>3 DEF LoopFraming!Next
<1> QED
    BY <1>1, <1>2, <1>3, <1>4, <1>5, <1>6, <1>7
    DEF ChipStep, SearchChip, PreambleZero, PreambleBroken, SkipZero, SfdBit, SfdSymbol,
        SfdWrong

\* So is every step of the sink.
LEMMA NextFraming == IInv /\ IInv' /\ [Next]_vars => [LoopFraming!Next]_(LoopFraming!vars)
<1> SUFFICES ASSUME IInv, IInv', [Next]_vars PROVE [LoopFraming!Next]_(LoopFraming!vars)
    OBVIOUS
<1>1. CASE Work
    BY <1>1, ChipFraming DEF Work
<1>2. CASE delete_head
    BY <1>2 DEF delete_head, sinkVars, bodyVars, LoopFraming!Next, LoopFraming!Take,
       Announced, Collected
<1>3. CASE UNCHANGED vars
    BY <1>3, SameLoop DEF vars, sinkVars, bodyVars
<1> QED
    BY <1>1, <1>2, <1>3 DEF Next

(***************************************************************************)
(* The sink implements Framing: its messages are the bytes of one frame,   *)
(* collected since a synchronisation, as many as announced, and a frame    *)
(* whose loop was left is never delivered.                                 *)
(***************************************************************************)
THEOREM SinkImplementsFraming == Spec => ImplementsFraming
<1>1. IInv /\ [Next]_vars => IInv'
    BY NextIInv
<1> QED
    BY <1>1, InitFraming, NextFraming, SinkInvariant, PTL
    DEF Spec, ImplementsFraming, LoopFraming!Spec
=============================================================================
