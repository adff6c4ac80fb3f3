----------------------------- MODULE PacketSink -----------------------------
(***************************************************************************)
(* The receiver's framing state machine,                                   *)
(* lib/ieee_ieee802_15_4_packet_sink.cc: chips in, messages out.           *)
(*                                                                         *)
(* work() is a loop over a buffer of chips around a switch on d_state; each*)
(* case is itself a loop that consumes chips until a "break" or until the  *)
(* buffer ends.  Variable loop is the case whose loop consumes the next    *)
(* chip.  It differs from d_state after a case changed d_state without     *)
(* leaving its loop.  A step consumes one chip; last says that the chip is *)
(* the last of the buffer handed to this call of work(), so that the next  *)
(* chip is read by a new call.  The scheduler cuts buffers as it likes,    *)
(* hence last is a free choice.                                            *)
(*                                                                         *)
(* Left out: the write-only fields inc, d_preamble_cnt, d_packet_byte,     *)
(* d_packet_byte_index, d_processed, and the increment of d_chip_cnt in    *)
(* the search loop (every loop that reads the counter is entered through a *)
(* reset).  bit_breamble is a word of ones, modelled by how many.          *)
(***************************************************************************)
EXTENDS ChipCode, Sequences, FiniteSets

CONSTANTS
    ChipsPerSymbol, \* chips after which a field without a symbol is abandoned (16)
    PreambleBits,   \* zeros that make a preamble: bit_breamble == 0xffffffff (32)
    SyncVector,     \* the start-of-frame delimiter (0xa7)
    ByteBits,       \* symbols in a byte (8)
    ByteSize,       \* values of an unsigned char (256)
    MAX_PKT_LEN,    \* length of d_packet (118)
    Garbage,        \* what a field the constructor leaves alone may hold
    QueueBound      \* bound of the model on messages waiting in the queue

Byte == 0 .. ByteSize - 1

ASSUME SinkAssumption ==
    /\ ChipsPerSymbol \in Nat \ {0}
    /\ PreambleBits \in Nat \ {0}
    /\ SyncVector \in Nat
    /\ ByteBits \in Nat \ {0, 1}
    /\ ByteSize \in Nat \ {0}
    /\ MAX_PKT_LEN \in Nat \ {0}
    /\ Garbage \subseteq Int
    /\ QueueBound \in Nat \ {0}

VARIABLES
    loop,            \* the case of work() that consumes the next chip
    d_state,         \* what the next switch will look at
    d_shift_reg,
    d_chip_cnt,      \* chips since the last symbol, in a field
    bit_breamble, find_preamble, search_sfd, first_found, bit_sfd, nbr_bit_sfd,
    nbr_bits, byte,  \* the PHR under assembly; nbr_bits serves the payload too
    d_byte, d_packet, d_packetlen, d_packetlen_cnt, d_payload_cnt,
    d_target_queue   \* gr_msg_queue shared with the watcher thread

searchVars == <<bit_breamble, find_preamble, search_sfd, first_found, bit_sfd,
                nbr_bit_sfd>>
phrVars    == <<nbr_bits, byte>>
bodyVars   == <<d_byte, d_packet, d_packetlen, d_packetlen_cnt, d_payload_cnt>>
sinkVars   == <<loop, d_state, d_shift_reg, d_chip_cnt, searchVars, phrVars, bodyVars>>
vars       == <<sinkVars, d_target_queue>>

STATE_SYNC_SEARCH == "SYNC_SEARCH"
STATE_HAVE_SYNC   == "HAVE_SYNC"
STATE_HAVE_HEADER == "HAVE_HEADER"
States == {STATE_SYNC_SEARCH, STATE_HAVE_SYNC, STATE_HAVE_HEADER}
Cells  == 0 .. MAX_PKT_LEN - 1

(***************************************************************************)
(* The constructor: enter_search, and nothing for the fields of the later  *)
(* states.                                                                 *)
(***************************************************************************)
Init ==
    /\ loop = STATE_SYNC_SEARCH /\ d_state = STATE_SYNC_SEARCH
    /\ d_shift_reg = 0 /\ d_chip_cnt = 0
    /\ bit_breamble = 0 /\ bit_sfd = 0 /\ nbr_bit_sfd = 0
    /\ find_preamble = FALSE /\ search_sfd = FALSE /\ first_found = FALSE
    /\ nbr_bits \in Garbage /\ byte \in Garbage /\ d_byte \in Garbage
    /\ d_packet \in [Cells -> Garbage]
    /\ d_packetlen \in Garbage /\ d_packetlen_cnt \in Garbage
    /\ d_payload_cnt \in Garbage
    /\ d_target_queue = <<>>

\* Mutant: the flag of the SFD's first one survives a restart.
enter_search_KeepsFirstFound ==
    /\ d_state' = STATE_SYNC_SEARCH
    /\ d_shift_reg' = 0 /\ d_chip_cnt' = 0
    /\ bit_breamble' = 0 /\ bit_sfd' = 0 /\ nbr_bit_sfd' = 0
    /\ find_preamble' = FALSE /\ search_sfd' = FALSE /\ UNCHANGED first_found

\* Mutant: the zeros counted so far survive a restart.
enter_search_KeepsZeros ==
    /\ d_state' = STATE_SYNC_SEARCH
    /\ d_shift_reg' = 0 /\ d_chip_cnt' = 0
    /\ UNCHANGED bit_breamble /\ bit_sfd' = 0 /\ nbr_bit_sfd' = 0
    /\ find_preamble' = FALSE /\ search_sfd' = FALSE /\ first_found' = FALSE

enter_search ==
    /\ d_state' = STATE_SYNC_SEARCH
    /\ d_shift_reg' = 0 /\ d_chip_cnt' = 0
    /\ bit_breamble' = 0 /\ bit_sfd' = 0 /\ nbr_bit_sfd' = 0
    /\ find_preamble' = FALSE /\ search_sfd' = FALSE /\ first_found' = FALSE

\* Mutant: the cell counter is not reset for a new frame.
enter_have_sync_KeepsCount ==
    /\ d_state' = STATE_HAVE_SYNC
    /\ d_shift_reg' = 0 /\ d_chip_cnt' = 0
    /\ nbr_bits' = 0 /\ byte' = 0
    /\ UNCHANGED d_packetlen_cnt

enter_have_sync ==
    /\ d_state' = STATE_HAVE_SYNC
    /\ d_shift_reg' = 0 /\ d_chip_cnt' = 0
    /\ nbr_bits' = 0 /\ byte' = 0
    /\ d_packetlen_cnt' = 0

\* Mutant: d_byte is not cleared.
enter_have_header_KeepsByte(payload_len) ==
    /\ d_state' = STATE_HAVE_HEADER
    /\ d_packetlen' = payload_len
    /\ d_payload_cnt' = 0
    /\ UNCHANGED d_byte /\ nbr_bits' = 0

\* Mutant: the PHR byte is counted as payload.
enter_have_header_CountsPhr(payload_len) ==
    /\ d_state' = STATE_HAVE_HEADER
    /\ d_packetlen' = payload_len
    /\ d_payload_cnt' = 1
    /\ d_byte' = 0 /\ nbr_bits' = 0

enter_have_header(payload_len) ==
    /\ d_state' = STATE_HAVE_HEADER
    /\ d_packetlen' = payload_len
    /\ d_payload_cnt' = 0
    /\ d_byte' = 0 /\ nbr_bits' = 0

(***************************************************************************)
(* After a chip: a break always returns to the switch; without one the     *)
(* loop goes on until the buffer ends.                                     *)
(***************************************************************************)
Break_Forgotten == loop' = loop  \* Mutant: the loop goes on.

Break          == loop' = d_state'
NoBreak(last)  == loop' = IF last THEN d_state' ELSE loop

Heard(c) == Symbol(Shift(d_shift_reg, c))

\* byte << 1 | bit, and a mutant that forgets the shift.
PushBit_NoShift(b, s) == b + s
PushBit(b, s)         == 2 * b + s
-----------------------------------------------------------------------------
(***************************************************************************)
(* case STATE_SYNC_SEARCH.  Chips between two symbols are not counted.     *)
(***************************************************************************)
SearchChip(c, last) ==
    /\ loop = STATE_SYNC_SEARCH /\ Heard(c) = NoSymbol
    /\ d_shift_reg' = Shift(d_shift_reg, c)
    /\ UNCHANGED <<d_state, d_chip_cnt, searchVars, phrVars, bodyVars, d_target_queue>>
    /\ NoBreak(last)

\* A zero of the preamble; the last one switches to the search of the SFD.
PreambleZero(c, last) ==
    /\ loop = STATE_SYNC_SEARCH /\ ~find_preamble /\ Heard(c) = 0
    /\ d_shift_reg' = 0
    /\ IF bit_breamble + 1 = PreambleBits
       THEN /\ find_preamble' = TRUE /\ search_sfd' = TRUE
            /\ bit_breamble' = 0 /\ bit_sfd' = 0
       ELSE /\ bit_breamble' = bit_breamble + 1 /\ search_sfd' = FALSE
            /\ UNCHANGED <<find_preamble, bit_sfd>>
    /\ UNCHANGED <<d_state, d_chip_cnt, first_found, nbr_bit_sfd, phrVars, bodyVars,
                   d_target_queue>>
    /\ NoBreak(last)

PreambleBroken(c) ==
    /\ loop = STATE_SYNC_SEARCH /\ ~find_preamble /\ Heard(c) = 1
    /\ enter_search
    /\ Break
    /\ UNCHANGED <<phrVars, bodyVars, d_target_queue>>

\* Zeros beyond the preamble are skipped until the first one of the SFD.
SfdStarts(s) == first_found \/ (s = 1 /\ nbr_bit_sfd = 0)

SkipZero(c, last) ==
    /\ loop = STATE_SYNC_SEARCH /\ find_preamble /\ Heard(c) # NoSymbol
    /\ ~(search_sfd /\ SfdStarts(Heard(c)))
    /\ d_shift_reg' = 0
    /\ UNCHANGED <<d_state, d_chip_cnt, searchVars, phrVars, bodyVars, d_target_queue>>
    /\ NoBreak(last)

SfdSymbol(c) ==
    /\ loop = STATE_SYNC_SEARCH /\ find_preamble /\ search_sfd
    /\ Heard(c) # NoSymbol /\ SfdStarts(Heard(c))

SfdBit(c, last) ==
    /\ SfdSymbol(c) /\ nbr_bit_sfd + 1 # ByteBits
    /\ d_shift_reg' = 0
    /\ first_found' = TRUE
    /\ bit_sfd' = 2 * bit_sfd + Heard(c)
    /\ nbr_bit_sfd' = nbr_bit_sfd + 1
    /\ UNCHANGED <<d_state, d_chip_cnt, bit_breamble, find_preamble, search_sfd, phrVars,
                   bodyVars, d_target_queue>>
    /\ NoBreak(last)

SfdFound(c) ==
    /\ SfdSymbol(c) /\ nbr_bit_sfd + 1 = ByteBits
    /\ 2 * bit_sfd + Heard(c) = SyncVector
    /\ enter_have_sync
    /\ first_found' = TRUE /\ bit_sfd' = SyncVector /\ nbr_bit_sfd' = 0
    /\ Break
    /\ UNCHANGED <<bit_breamble, find_preamble, search_sfd, d_byte, d_packet, d_packetlen,
                   d_payload_cnt, d_target_queue>>

SfdWrong(c) ==
    /\ SfdSymbol(c) /\ nbr_bit_sfd + 1 = ByteBits
    /\ 2 * bit_sfd + Heard(c) # SyncVector
    /\ enter_search
    /\ Break
    /\ UNCHANGED <<phrVars, bodyVars, d_target_queue>>
-----------------------------------------------------------------------------
(***************************************************************************)
(* case STATE_HAVE_SYNC and case STATE_HAVE_HEADER: a chip that completes  *)
(* no symbol.  The register is not cleared by a symbol here, the counter   *)
(* is.  After ChipsPerSymbol chips without a symbol the field is given up  *)
(* by enter_search, but without a break: the loop goes on with its field.  *)
(***************************************************************************)
FieldLost_Late == d_chip_cnt = ChipsPerSymbol  \* Mutant: tests before it counts.
FieldLost      == d_chip_cnt + 1 = ChipsPerSymbol

FieldChip(c, last) ==
    /\ loop # STATE_SYNC_SEARCH /\ Heard(c) = NoSymbol /\ ~FieldLost
    /\ d_shift_reg' = Shift(d_shift_reg, c)
    /\ d_chip_cnt' = d_chip_cnt + 1
    /\ UNCHANGED <<d_state, searchVars, phrVars, bodyVars, d_target_queue>>
    /\ NoBreak(last)

FieldAbort(c, last) ==
    /\ loop # STATE_SYNC_SEARCH /\ Heard(c) = NoSymbol /\ FieldLost
    /\ enter_search
    /\ UNCHANGED <<phrVars, bodyVars, d_target_queue>>
    /\ NoBreak(last)

\* What every symbol of the PHR or of the payload does first.
FieldSymbol(l, c) ==
    /\ loop = l /\ Heard(c) # NoSymbol
    /\ d_chip_cnt' = 0

PhrBit(c, last) ==
    /\ FieldSymbol(STATE_HAVE_SYNC, c) /\ nbr_bits + 1 # ByteBits
    /\ d_shift_reg' = Shift(d_shift_reg, c)
    /\ byte' = PushBit(byte, Heard(c))
    /\ nbr_bits' = nbr_bits + 1
    /\ UNCHANGED <<d_state, searchVars, bodyVars, d_target_queue>>
    /\ NoBreak(last)

PhrAccepted(c) ==
    /\ FieldSymbol(STATE_HAVE_SYNC, c) /\ nbr_bits + 1 = ByteBits
    /\ byte' = PushBit(byte, Heard(c))
    /\ byte' <= MAX_PKT_LEN
    /\ d_shift_reg' = Shift(d_shift_reg, c)
    /\ enter_have_header(byte')
    /\ Break
    /\ UNCHANGED <<searchVars, d_packet, d_packetlen_cnt, d_target_queue>>

PhrRejected(c) ==
    /\ FieldSymbol(STATE_HAVE_SYNC, c) /\ nbr_bits + 1 = ByteBits
    /\ byte' = PushBit(byte, Heard(c))
    /\ byte' > MAX_PKT_LEN
    /\ nbr_bits' = 0
    /\ enter_search
    /\ Break
    /\ UNCHANGED <<bodyVars, d_target_queue>>

PayloadBit(c, last) ==
    /\ FieldSymbol(STATE_HAVE_HEADER, c) /\ nbr_bits + 1 # ByteBits
    /\ d_shift_reg' = Shift(d_shift_reg, c)
    /\ d_byte' = PushBit(d_byte, Heard(c))
    /\ nbr_bits' = nbr_bits + 1
    /\ UNCHANGED <<d_state, searchVars, byte, d_packet, d_packetlen, d_packetlen_cnt,
                   d_payload_cnt, d_target_queue>>
    /\ NoBreak(last)

\* d_packet[d_packetlen_cnt++] = d_byte, and the counters that go with it.
StoreByte(c) ==
    /\ FieldSymbol(STATE_HAVE_HEADER, c) /\ nbr_bits + 1 = ByteBits
    /\ d_packet' = [d_packet EXCEPT ![d_packetlen_cnt] = PushBit(d_byte, Heard(c)) % ByteSize]
    /\ d_packetlen_cnt' = d_packetlen_cnt + 1
    /\ d_payload_cnt' = d_payload_cnt + 1
    /\ d_byte' = 0 /\ nbr_bits' = 0
    /\ UNCHANGED <<byte, d_packetlen>>

FrameComplete_OneMore == d_payload_cnt' > d_packetlen  \* Mutant: one byte too many.
FrameComplete         == d_payload_cnt' >= d_packetlen

PayloadByte(c, last) ==
    /\ StoreByte(c)
    /\ ~FrameComplete
    /\ d_shift_reg' = Shift(d_shift_reg, c)
    /\ UNCHANGED <<d_state, searchVars, d_target_queue>>
    /\ NoBreak(last)

\* The memcpy of d_packetlen_cnt bytes out of the packet buffer, and a mutant
\* that loses the last byte.
Message_Short(packet, n) == [i \in 1 .. n - 1 |-> packet[i - 1]]
Message(packet, n) == [i \in 1 .. n |-> packet[i - 1]]

PayloadDone(c) ==
    /\ StoreByte(c)
    /\ FrameComplete
    /\ d_target_queue' = Append(d_target_queue, Message(d_packet', d_packetlen_cnt'))
    /\ enter_search
    /\ Break
-----------------------------------------------------------------------------
\* The consumer of the queue (the watcher thread) takes the oldest message.
delete_head ==
    /\ d_target_queue # <<>>
    /\ d_target_queue' = Tail(d_target_queue)
    /\ UNCHANGED sinkVars

ChipStep(c, last) ==
    \/ SearchChip(c, last)
    \/ PreambleZero(c, last)
    \/ PreambleBroken(c)
    \/ SkipZero(c, last)
    \/ SfdBit(c, last)
    \/ SfdFound(c)
    \/ SfdWrong(c)
    \/ FieldChip(c, last)
    \/ FieldAbort(c, last)
    \/ PhrBit(c, last)
    \/ PhrAccepted(c)
    \/ PhrRejected(c)
    \/ PayloadBit(c, last)
    \/ PayloadByte(c, last)
    \/ PayloadDone(c)

\* The queue has no limit and the sink never looks at it; the model bounds it by
\* feeding chips only while fewer than QueueBound messages wait.
Work == /\ Len(d_target_queue) < QueueBound
        /\ \E c \in Chips, last \in BOOLEAN : ChipStep(c, last)

Next == Work \/ delete_head

Spec == Init /\ [][Next]_vars
-----------------------------------------------------------------------------
(***************************************************************************)
(* Properties.                                                             *)
(***************************************************************************)

\* Every field holds a value of its C++ type, or the garbage it was born with.
TypeOK ==
    /\ loop \in States /\ d_state \in States
    /\ d_shift_reg \in Reg
    /\ d_chip_cnt \in 0 .. ChipsPerSymbol - 1
    /\ bit_breamble \in 0 .. PreambleBits - 1
    /\ find_preamble \in BOOLEAN /\ search_sfd \in BOOLEAN /\ first_found \in BOOLEAN
    /\ bit_sfd \in Nat /\ nbr_bit_sfd \in 0 .. ByteBits - 1
    /\ nbr_bits \in Int /\ byte \in Int /\ d_byte \in Int
    /\ d_packet \in [Cells -> Byte \cup Garbage]
    /\ d_packetlen \in Int /\ d_packetlen_cnt \in Int /\ d_payload_cnt \in Int
    /\ d_target_queue \in Seq(Seq(Byte))

\* The two bytes counters and the announced length, in the loop that uses them
\* to index d_packet (l.428): the store stays inside the array, the counters
\* agree, and the message ends where the length says, whatever aborted fields,
\* cut buffers and earlier frames came before.
BodyInBounds ==
    loop = STATE_HAVE_HEADER =>
        /\ d_packetlen_cnt \in Cells
        /\ d_packetlen_cnt = d_payload_cnt
        /\ d_packetlen \in 0 .. MAX_PKT_LEN
        /\ d_payload_cnt = 0 \/ d_payload_cnt < d_packetlen

\* No loop assembles a byte out of a field the constructor left uninitialised,
\* nor delivers a cell of d_packet that was never stored: the fields a loop
\* reads were all set since that loop's frame was found.
NothingUninitialised ==
    /\ loop # STATE_SYNC_SEARCH => nbr_bits \in 0 .. ByteBits - 1
    /\ loop = STATE_HAVE_SYNC => byte \in Nat /\ d_packetlen_cnt = 0
    /\ loop = STATE_HAVE_HEADER =>
           /\ d_byte \in Nat
           /\ \A i \in 0 .. d_packetlen_cnt - 1 : d_packet[i] \in Byte

\* The loop that runs and the state the next switch will see differ in one way
\* only: a field was given up (enter_search) and its loop has not been left.
LoopMatchesState == d_state \in {loop, STATE_SYNC_SEARCH}

\* The search never wedges: a found preamble always has the SFD search on, the
\* SFD starts at its first one, and nothing of an SFD is kept without preamble.
SearchCoherent ==
    d_state = STATE_SYNC_SEARCH =>
        /\ find_preamble <=> search_sfd
        /\ find_preamble => bit_breamble = 0
        /\ ~find_preamble => ~first_found
        /\ first_found <=> nbr_bit_sfd > 0
        /\ first_found <=> bit_sfd > 0

\* Every message has between one and MAX_PKT_LEN bytes.
MessagesWellFormed ==
    \A i \in 1 .. Len(d_target_queue) : Len(d_target_queue[i]) \in 1 .. MAX_PKT_LEN

\* The same for the whole state: what BodyInBounds and MessagesWellFormed need
\* to be preserved by every step.
IInv ==
    /\ TypeOK
    /\ BodyInBounds
    /\ NothingUninitialised
    /\ LoopMatchesState
    /\ SearchCoherent
    /\ MessagesWellFormed

\* A message that enters the queue has the length its PHR announced (one byte
\* when that was zero), and entering it ends the frame.
MessageHasDeclaredLength ==
    [][Len(d_target_queue') > Len(d_target_queue) =>
          /\ loop = STATE_HAVE_HEADER
          /\ Len(d_target_queue'[Len(d_target_queue')])
                = (IF d_packetlen = 0 THEN 1 ELSE d_packetlen)
          /\ d_state' = STATE_SYNC_SEARCH /\ loop' = STATE_SYNC_SEARCH]_vars

\* The sink implements Framing, with the phase read off the loop that runs.
Phase(l) == CASE l = STATE_SYNC_SEARCH -> "hunt"
              [] l = STATE_HAVE_SYNC   -> "length"
              [] l = STATE_HAVE_HEADER -> "body"

Announced == IF loop = STATE_HAVE_HEADER THEN d_packetlen ELSE 0
Collected == IF loop = STATE_HAVE_HEADER THEN Message(d_packet, d_packetlen_cnt) ELSE <<>>

LoopFraming == INSTANCE Framing WITH
    MaxLen <- MAX_PKT_LEN, Bytes <- Byte, phase <- Phase(loop),
    len <- Announced, got <- Collected, queue <- d_target_queue

ImplementsFraming == LoopFraming!Spec

\* carrier_sensed() is documented as "return true if we detect carrier"
\* (packet_sink.h:117-121).  A message can then only come from a carrier: the
\* sink that hands one over is not a sink that sees none.
carrier_sensed == d_state # STATE_SYNC_SEARCH
DeliveredUnderCarrier ==
    [][Len(d_target_queue') > Len(d_target_queue) => carrier_sensed]_vars
=============================================================================
