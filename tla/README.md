# TLA+ development of the IEEE 802.15.4 868/915 MHz transceiver

The program is a software radio: a transmitter and a receiver for the BPSK
variant of IEEE 802.15.4 at 868 and 915 MHz, made of GNU Radio blocks. Two
blocks and the programs around them are its own; samples, filters, clock
recovery and the radio are GNU Radio's. This directory models what the program
adds: the framing state machine, the spreading block, the frame builders with
their checksums, the two programs that connect threads to flow graphs, and the
generated bindings by which these programs hold the blocks.

## 1. Inventory

    main() -> send_pkt -> builder -> msgq -> message_source
                                                 | bytes
                                  packed_to_unpacked_bb, map_bb
                                                 | symbols (bits)
                                       symbols_to_chips_bs
                                                 | 16-bit words
                              packed_to_unpacked_ss, BPSK, radio
                                                 : air
                              radio, demodulator, complex_to_real
                                                 | chips (floats)
                                    ieee802_15_4_packet_sink
                                                 | messages
                       _rcvd_pktq -> watcher thread -> rx_callback

| component | source | state it keeps | operations | interacts by |
|---|---|---|---|---|
| packet sink | `lib/ieee_ieee802_15_4_packet_sink.{cc,h}` | state, chip register, preamble and SFD search flags, byte under assembly, packet buffer and counters | `work`, `enter_search`, `enter_have_sync`, `enter_have_header`, `carrier_sensed` | chips from the scheduler, messages to a queue; nothing in the repository reaches `carrier_sensed` |
| symbols to chips | `lib/ieee_symbols_to_chips_bs.{cc,h}` | none of its own; reads the scheduler's buffer | `work` | circular buffers |
| frame builder | `examples/usrpN210/transmit_path.py`, `python/ieee802_15_4_pkt.py` | none | `make_FCF`, `make_ieee802_15_4_packet`, `_npadding_bytes` | called by `send_pkt` |
| CRC-16 | `python/crc16.py`, `tools/crc16.py` | one value | `crcbitbybit`, `CRC16` | builder and watcher |
| transmit path | `transmit_path.py`, `transmitter.py` | message queue (10), loop counter | `send_pkt`, `main` | main thread and flow graph share the queue |
| receive path | `ieee_pkt_receiver.py`, `receiver.py` | message queue (no limit), statistics | watcher `run`, `rx_callback`, `main` | three threads, one queue |
| modulator, demodulator | `bpsk_modulator.py`, `bpsk_demodulator.py` | GNU Radio blocks | wiring | flow graph |
| bit rates, PSK tables | `tools/pick_bitrate.py`, `tools/psk.py` | tables | pure functions | unused by usrpN210 |
| SOS over CC1K, CRC-8 | `python/cc1k*.py`, `python/crc8.py` | message queue | builder, watcher | a sink not in this repository |
| SWIG bindings | `swig/ieee_swig.cc`, `swig/howto_swig.cc` and their Python halves | type tables, cast lists, classes; Python objects, `shared_ptr`s, blocks | import and reload, the wrappers of each `shared_ptr`, deallocation | every call of a program to a block; other SWIG modules in the interpreter |

The `usrp1_gnu_radio_3-0` directory holds the same programs for an older radio.

What is hard here, and tests hardly reach (the C++ tests have empty bodies):

* the sink's `work` is a loop around a `switch` around loops. The scheduler cuts
  the chips wherever it likes, `break` leaves a loop in most places and is
  missing in two, and the constructor leaves fields uninitialised;
* the packet buffer is written without a bounds check at the store: it is safe
  because of what three other places do;
* the spreading block reads beyond the input it is given;
* sender and receiver agree on bit, chip and byte order only by convention;
* threads share queues, one bounded and blocking, one unbounded, and the end of
  each program depends on another thread;
* SWIG modules imported one after the other, in whatever order, merge their types
  into one web of structures, and a block lives as long as the last of several
  reference-counted owners, in Python and in flow graphs.

The two SWIG files are generated, but they are more than half of the C++ that is
compiled, they run between the programs and every block, and only their
tables come from this program. Of the runtime the model has what keeps state.

PROJECT.json lists these as hazards at their lines, with the properties that
would catch them going wrong. The correctness of each component:

* sink: memory stays in bounds, nothing uninitialised is used, it synchronises
  exactly when a preamble and an SFD were heard, and delivers what it heard, of
  the length announced;
* spreading block: a packet goes out unbroken and in order;
* builder and CRC: the frame can be taken apart by its length byte, the checksum
  is the standard's and tells damaged frames from whole ones;
* transmitter: packets handed over go out once, in order; the program ends;
* receiver: messages are reported once, in order, and counted right;
* all together: a packet heard whole is delivered once;
* bindings: modules agree on the structure of each type, the cast lists stay whole,
  each `shared_ptr` is deleted once, a block lives exactly as long as it is held.

## 2. Modules

| module | models |
|---|---|
| `ChipCode` | the two chip words, the shift register, recognition of a symbol |
| `Framing` | abstract: hunt, take a length, collect bytes, deliver or give up |
| `PacketSink` | `work()` chip by chip; implements `Framing` |
| `PacketSinkHistory` | `PacketSink` with the bits heard, and what the fields have to do with them |
| `SymbolsToChips` | the spreading block and the buffer it reads |
| `Crc16`, `Frame` | checksum and frame builder, as operators |
| `SosFrame`, `Crc8Table` | builder, table checksum and the watcher's reading of SOS packets, as operators; the table of the code |
| `FrameCalls` | one call of a builder, errors on its frame, what a receiver takes of it |
| `CrcPolynomials` | reference: remainders of polynomials, and that the checksums are such |
| `Link` | builder's packets, modulator, air, `PacketSink`, queue |
| `FreshLink` | `Link` as the programs set it up, until the mapper's buffer wraps around: what words, packets and buffer must be, and the invariant that says where in the air the receiver is |
| `PacketFifo` | abstract: packets come out as they went in |
| `TransmitPath` | `main()`, `send_pkt`, queue, source, over `SymbolsToChips`; implements `PacketFifo` |
| `ReceivePath` | `main()`, watcher, `rx_callback`, queue, over `Framing`; implements `PacketFifo` |
| `SwigTypes` | type tables of the SWIG modules, import, lookup of casts |
| `SwigWrappers` | the shapes of wrapper functions |
| `IeeeBindings`, `HowtoBindings` | types, casts, classes and wrappers of the two modules, as tables |
| `SwigObjects` | conversion of arguments, calls, deallocation, flow graphs, over `SwigTypes` |
| `SequenceLemmas` | lemmas about sequences, recursive functions and division that several proofs cite |
| `PacketSinkProofs`, `PacketSinkHistoryProofs`, `ReceivePathProofs`, `TransmitPathProofs`, `LinkProofs`, `FrameProofs`, `SwigProofs` | theorems about `PacketSink`, `PacketSinkHistory`, `ReceivePath`, `SymbolsToChips` and `TransmitPath`, `FreshLink`, `FrameCalls`, `SwigTypes` and `SwigObjects` |
| `MC*` | constants and history variables for TLC |

### PacketSink

A step consumes one chip. Each case of the `switch` contains a loop that eats
chips, so the position in the code matters: variable `loop` is the case whose
loop reads the next chip, `d_state` is the field. They differ when a case called
`enter_search` and did not leave its loop (`FieldAbort`; source lines 379-384 and
448-453). `Break` returns to the switch; `NoBreak(last)` stays in the loop unless
this chip was the last of the buffer, which is a free choice, since buffers are
the scheduler's. Names of variables are the names of the fields; the fields that
are only ever written are left out, and so is `decode_chips`, which nothing
calls. What the constructor leaves uninitialised starts with a value of
`Garbage`. The build has `VERBOSE2` set to 1; with 0 the statements that follow
each `if (VERBOSE2)` would not run.

| code | actions |
|---|---|
| SYNC_SEARCH, l.215-322 | `SearchChip`, `PreambleZero`, `PreambleBroken`, `SkipZero`, `SfdBit`, `SfdFound`, `SfdWrong` |
| HAVE_SYNC, l.324-387 | `FieldChip`, `FieldAbort`, `PhrBit`, `PhrAccepted`, `PhrRejected` |
| HAVE_HEADER, l.389-456 | `FieldChip`, `FieldAbort`, `PayloadBit`, `PayloadByte`, `PayloadDone` |

Abstractions: `bit_breamble`, a word of ones, is the number of its ones; floats
are the chips that `slice` makes of them; a symbol is recognised by equality with
its word, which is what a Hamming distance of 0 says.

### SymbolsToChips

`work()` writes as many words as it has output items, from `in[0]` on; as an
interpolator by 2 it consumes half as many. The other half it reads beyond its
input: symbols of the next packet, or older ones, or zeros nobody wrote. The
model has the circular buffer with its stale cells, a writer of whole packets and
a scheduler that calls `work` for what is waiting or what there is room for.
Whether the output buffer can ever be short of room is a choice of the program
(`tight`): with room for all that waits a packet goes out in one piece
(`PacketsInOnePiece`); without, words of unconsumed symbols go out between its
parts, and only the order within a call is left (`ConsumedComeFirst`).
Real buffers are thousands of items long and a packet is at most 136 bytes, so
the source is modelled as writing a packet whole.

### Link, TransmitPath, ReceivePath

`Link` replaces the radio by handing over the chips in order, up to `MaxFlips` of
them inverted, to a receiver that may have missed the first. Behind each packet
it sends as many symbols again, as the spreading block does: zeros as long as its
memory of `BufferBytes` is fresh, and what was written a lap before when it is
not (`Beyond`). `TransmitPath` extends `SymbolsToChips` with the main thread and
the message source; `Sender` says which of the two `send_pkt` is used and
`EofChoices` whether the program ends its stream. `ReceivePath` uses the actions
of `Framing` for the sink, which `PacketSink` is shown to implement, and adds the
watcher (take, drop, count, count right, report) and `main()` (build, make
statistics, run, close, exit at any time). rx_callback is three steps, since the
main thread may end the program between them. Two histories state what the
receiver does: `delivered`, what the sink has queued, and `handled`, each message
the watcher is done with, how (dropped, right, wrong) and with the counters at
that time.

Both programs implement `PacketFifo`: the sender with `put` the packets given to
`send_pkt` and `got` those that the source has written, including that each of
them comes out; the receiver with `put` the messages of the sink and `got` those
that were dealt with. For the receiver only safety holds: its program may end at
any time with messages in the queue.

### Frame, SosFrame

The builders are operators on sequences of bytes. The CRCs work bit by bit and by
table like the code, as recursive functions, the register of the second loop growing by
a bit a turn as it does there (`Grow`); the reference definition in
`CrcPolynomials`, the remainder of a division of polynomials as sets of exponents,
shares nothing with either. The table of `crc8.py` is a constant of `SosFrame`, so that the proofs say
what they need of it (`TableAssumption`); the runs give it the code's. SOS packets
have no state machine in this repository: what their watcher reads of a message is
`sos_run`, and the sink is taken to hand over a packet from its header to its
checksum. `FrameCalls` makes a call of either builder a behaviour: the builder
accepts and builds, or refuses; then the channel inverts bits of what a receiver
takes of it (`Hit`).

### SwigTypes, SwigObjects

| code (`swig/ieee_swig.cc`) | definitions |
|---|---|
| `SWIG_MangledTypeQueryModule`, binary search | `Search`, `Found`, `Query` |
| `SWIG_TypeCheck`, move to front | `Lookup`, `ToHead`, `Checked`, `Check` |
| `SWIG_InitializeModule`, `SWIG_TypeClientData`, `swigregister` | `InitializeModule`, `AddCast`, `Insert`, `Registered`, `Import` |
| `SWIG_Python_ConvertPtrAndOwn`, overloads | `ConvertPtr`, `Converts`, `Accepts` |
| `new_..._sptr`, `..._sptr___deref__`, getters, `to_basic_block`, factories | `NewEmpty`, `Dereference`, `Copy`, `ToBasicBlock`, `Make` |
| other methods; a failed conversion; a null `shared_ptr` | `Use`; `Raise`; `Abort` |
| `SwigPyObject_dealloc`, `delete_..._sptr` | `Dealloc`, `Temporary`, `Deletions` |

A structure is the pair of the module that declares it and its name, a node of a
cast list the pair of a module and the type cast from. Type names are shortened,
in their `strcmp` order. A wrapper is a row: what it takes, what it does, what
type it gives; wrappers of one shape share a row, so that some 200 functions of the
files are the tables of `IeeeBindings` and `HowtoBindings`. A `shared_ptr` on the
C++ heap is a cell, a block is a number with the count of the `shared_ptr`s to it,
and `graph` is the set of blocks that a flow graph holds. Each call is one step:
the interpreter's lock is held through a wrapper. `klass` is the module whose
class a type's objects get, and so whose delete wrapper is called.

GNU Radio's own SWIG module is not in the repository: `Core` names it, `MCSwig`
gives it the types of GNU Radio that the two modules name, and `Connect`, `Disconnect` and `MsgQueue`
are what the programs call in it; PROJECT.json marks them external. Left out are
calls that are undefined behaviour in C++: the delete wrapper called by a
program, a method called with None for its object, and `new_..._sptr` of the
block that `__deref__` gave. `clientdata` is nowhere set but by `swigregister`. Of
`SwigPyIterator` nothing makes an object, and the `SWIGPYTHON_BUILTIN` half of
the runtime is not compiled.

GNU Radio itself (scheduler, buffers, queues, message source, `wait`) is not in
this repository and is modelled from how it is used; PROJECT.json marks these
definitions external.

## 3. Runs

| run | what it shows |
|---|---|
| `sink` | types, bounds, initialisation, coherence of the search, lengths of messages, `Framing` implemented; synchronisation exactly on a preamble and SFD, messages equal to the bits heard |
| `sink_carrier` (violation) | an abandoned frame is still collected and delivered while `carrier_sensed()` is false |
| `frame` | frames can be taken apart; padding; FCF; CRC against polynomial division; one or two inverted bits are detected. The same for SOS packets, but for the group byte their checksum leaves out |
| `frame_sizes` (violation) | the builder accepts frames the sink rejects |
| `link` | with the real constants each packet heard whole is delivered once, in order, whichever of nine chosen chips is inverted; liveness |
| `link_stale` (violation) | over a buffer that wraps around, old packets go out behind new ones: one is heard twice and one is lost |
| `transmit` | roomy and tight: order (`PacketFifo`), wholeness, no deadlock on the full queue, end of the stream |
| `transmit_end` (violation) | `transmitter.py` waits forever: nothing ends the stream |
| `transmit_eof_raises` (violation) | the `send_pkt` of `transmit_path.py` cannot end it |
| `receive` | nothing lost, `PacketFifo`, counters agree, the watcher lives, every message is dealt with in its turn unless the program ends |
| `swig` | every order of imports, reloads, calls and deallocations: types shared, cast lists whole, ownership, lifetime of blocks, acceptance by name |
| `swig_casts` (violation) | a module imported second adds casts that name structures nobody uses |

Each property of a passing run has a mutant in PROJECT.json: a plausible bug in a
definition, under which the property fails.

### Bounds

* `sink`: words of 4 chips, `0100` and `0011`, which like the real ones begin
  with 0 and are otherwise complementary; 2 zeros of preamble, SFD `10`, 2-bit
  bytes, frames of up to 2 bytes, one message waiting. Lengths 0 to 3 occur, so
  does a rejected one (3), and every chip sequence and every cut. The theorems
  remove these bounds for every property of the run.
* `link`: 15-chip words in 16 bits, 32 zeros, SFD 0xa7, two packets, late starts
  and all cuts; one inverted chip at nine places of preamble, SFD, PHR, PSDU and
  behind. `link_stale`: 2-bit bytes and 6-chip words, four packets, a buffer of ten
  bytes: the third packet wraps around.
* `transmit`: a buffer of 5 cells and packets of 2 and 3 symbols wrap around it;
  four packets through a queue of two fill it; room for 1, 2 or all symbols.
* `frame`: address lengths 0, 1, 8 and payload lengths 0, 1, 2, 9 (both parities
  of the packet), the longest pair accepted and the first two refused, all FCF
  fields but for two pairs tied together; errors on PSDUs of up to 7 bytes
  (`HitCalls`), every one and every two bits. SOS payloads of the same lengths and
  of the two around its limit; errors on messages of 11 and 12 bytes, but not in the
  length byte, by which the external sink would cut the message. The theorems remove
  the bounds on lengths, and on errors within one byte. `frame_sizes`: every
  accepted pair of lengths.
* `receive`: up to three messages of 1 to 4 bytes, which includes the two lengths
  that are dropped, the shortest that is kept, and a wrong and a right checksum. That
  every message is dealt with (`EveryMessageHandled`) does not rest on the bound on
  messages: it is stated of each by its number, while the sink hunts, gives up fields
  and delivers others behind it. That the queue is ever empty would, and is not stated.
* `swig`: three modules with their real tables; two `shared_ptr`s ever made, two
  Python objects at a time (a block and what shares it), two lookups outside of
  calls before objects exist, one reload. The theorems remove all of these, and the
  tables too. `swig_casts`: imports only.

Deadlock is not checked where the model has an end (all chips sent, all packets
sent, program over).

### Fairness

`link`: weak fairness of the air and of the consumer: the radio always delivers
and `delete_head` returns when there is a message. `transmit`: weak fairness of
the main thread (sleep ends, a blocked `insert_tail` returns when there is
room), of the message source and of the chip mapper, each a thread of its own
that the scheduler runs whenever it can make progress. `receive`: weak fairness
of the watcher only; nothing makes the sink receive or the user end the program.

## 4. Proofs

### The packet sink

`PacketSinkProofs` proves, for every value of the constants that satisfies the
assumptions of `ChipCode` and `PacketSink` (two different words in the register,
positive lengths, bytes of at least 2 bits, garbage that is integers):

* `SinkInvariant`: `Spec => []IInv`. `IInv` is the conjunction of the state
  invariants. None of them is inductive alone. `BodyInBounds` needs
  `NothingUninitialised` to know that both counters are 0 when a PHR is accepted,
  and `LoopMatchesState` to know that a loop that goes on after a field was given
  up still has its own counters; `MessagesWellFormed` needs `BodyInBounds`. The
  proof has one step per action and under it one per conjunct it can disturb.
* `TypeCorrect`, `StoreInBounds`, `NoUninitialisedRead`, `MessagesFit`: the parts.
* `DeclaredLength`: the action property, from the invariant: only `PayloadDone`
  lengthens the queue, and its store makes the count the announced length.
* `SinkImplementsFraming`: the refinement, with the phase read off `loop`, not
  `d_state`: an abandoned field goes on, and `Framing` sees it as going on.
  `StoredByte` relates the message to the collected bytes.

### What the sink heard

`PacketSinkHistoryProofs` proves, under the same assumptions and `ByteAssumption`
(what `ByteBits` symbols spell is less than `ByteSize`, and the SFD begins with a
one), that the fields hold what the symbols heard spell:

* `HistoryFollows`: `HistorySpec => [](IInv /\ HistoryInv)`. While the search runs,
  the bits heard are zeros, `bit_breamble` of them until the preamble was found, and
  behind them the bits of the SFD read so far; while a field is read, its bytes are
  the values of `ByteBits` symbols each. `GivenUpClean` makes that inductive: a field that
  was given up without a `break` must leave nothing to the search it ends in;
* `Synchronises` (`SyncIffHeard`): so the search goes on to a PHR with exactly the
  symbol that completes a preamble and an SFD;
* `DeliversHeard` (`DeliversWhatWasHeard`): and a message is, bit by bit, what
  followed.

`LoopIsStateOrAbandoned` and `SearchStaysCoherent` state the parts of `IInv` these
rest on.

### The receiver program

`ReceivePathProofs` proves, for any bytes, any checksum and any numbers of bytes
and messages (`ReceiveAssumption`: two natural numbers), `ReceiveInvariant`, and
from it `ReceiveTypeCorrect`, `NoMessageLost`, `CountersCorrect`,
`WatcherNeverDies` and the refinement `ReceiverIsFifo`. What the invariant adds
to the properties:

* `Life`: which threads exist at each place of `main()`, and that nothing is in the
  queue before `st` is made. `WatcherSurvives` is not inductive without it: the
  watcher exists before the statistics, and is safe only because the sink does not
  run yet;
* `Counting`: the counters run ahead of the last report by the message that is in
  `rx_callback`, by one when it was counted, by a right one when that was too;
* `InCallbackLong`: a message in `rx_callback` was not too short, so that what is
  noted as dropped is short and nothing else is.

The order of messages is proved over `delivered = Payloads \o (InHand \o queue)`:
taking moves the head of the queue into the hand, being done moves the hand to the
end of the payloads. That is also the argument of the refinement.

### The transmitter program

`TransmitPathProofs` proves, for any packets, limit of the queue, number of
messages and buffer (`BufferAssumption`, `TransmitAssumption`),
`TransmitInvariant`, and from it `TransmitTypeCorrect`, `PacketsSentInOrder`,
`DoneIsDone` and `SenderIsFifo`. What the invariant adds:

* `EofLast`: the end of the stream can only be the last message of the queue, and
  only while the main thread waits; a source that is done has left nothing. Without
  it a packet might stand behind the end of the stream and never be written;
* `Counted`: no more is consumed than written; `DoneStays`: a flow graph that was
  done when `tb.wait()` returned stays so, since nobody is left to hand over a packet.

`SenderIsFifo` is the safety part of `ImplementsFifo`; that packets come out in the
end rests on fairness and stays with TLC. The lemmas of `SequenceLemmas` on fronts
and tails (`FrontOfTail`, `LastOfTail`, `HeadInFront`) carry both programs.

### The chip mapper

`TransmitPathProofs` proves `SymbolsConsumedInOrder` for any table, packets, size
of the circular buffer and room behind it, and carries it over to the program (`TransmitterMapsInOrder`), whose every step is one of the block's or
leaves it alone (`BlockStep`). `ConsumedComeFirst` speaks of single steps; what it
needs is the invariant `BufferInv`:

* `WaitingInCells`: symbol number `j`, while it waits, is in cell `j % Size`. Writing
  keeps it because a packet ends at most `Size` cells behind the read pointer;
  `CellsBehind` does the arithmetic around the end of the buffer, from the uniqueness
  of quotient and remainder (`OneRemainder`), and so for every `Size`;
* `BufferTypes`: in particular, no more than `Size` symbols wait.

`PacketsStayWhole` proves `PacketsInOnePiece`, and `TransmitterSendsWhole` carries it
over. Its invariant `WholePackets` says that there are ends that cut the symbols
written into the packets (`Cut`), none of which lies inside a packet that is half
consumed, and positions in the output, each packet that was consumed standing before
its own (`Placed`). A call of `work()` with room enough takes all that waits
(`WorkTakesAll`), so that its junk comes behind whole packets only; with a tight
buffer the second half of `Cut` breaks. The property searches greedily; by induction
over the packets the search is never behind the positions of the invariant
(`AllFound`).

### The link

`LinkProofs` proves, for any packets, words, preamble and sizes of words and bytes
that satisfy the assumptions of `PacketSink`, `Link` and `FreshLink`:

* `LinkInvariant`: `LinkSpec => []LinkIInv`. `LinkIInv` is the sink's `IInv`, the types
  of `Link`, and `LinkInv`: as long as no chip is lost or inverted (`Clean`) there are a
  packet `k`, a byte `b`, a bit `i` and a chip `c` such that the next chip is chip `c` of
  bit `i` of byte `b` on the air (`At`), the chip register has read the beginning of
  that bit's word (`WordFollows`), the fields are what the bits since the last packet
  make of them, and what was queued or taken is the PSDUs of the first `k` packets.
  `NothingElseDelivered` alone says nothing of the chips that have not completed a
  message yet, so it is far from inductive. The fields are one of three things:
  `Hunting`, the search has counted the zeros behind packet `k`, padding, unwritten
  symbols and the next preamble, as one run of zeros, or is inside the next SFD;
  `Sizing`, the length of the next packet is half read; `Taking`, a part of its body
  is in `d_packet` and the rest still on the air. The proof follows one chip: it
  extends the word, or completes it and is then read as that symbol and no other, and
  the symbol makes the step of the sink that the place on the air calls for;
* `LinkImplementsSink`: `LinkSpec => Spec`, so that the theorems of the sink hold of the
  receiver in `Link` too, with noise and late starts;
* `CleanLinkInOrder`: `NothingElseDelivered`;
* `CleanLinkDelivers`: and once all chips are heard and the queue is empty exactly the
  PSDUs of all packets were delivered, so that `IntactDelivered` holds. It is proved for
  `Clean` only: what a receiver makes of the rest of a packet whose beginning was
  inverted or missed depends on the packet, and stays with the run.

The assumptions are what the programs make true, and TLC evaluates them on the run
`link` with the code's words and with packets of the builder. `WordsAssumption`: after
nothing, or after a whole word, the register holds a word of the table at the last
chip of the next one and never before; the code's words are as long as the register,
and no part of two of them in a row is a third.
`BitsAssumption`: the SFD is a byte that begins with a one, and a preamble whole bytes.
`FreshAssumption`: packets are of the builder's form (`IsPacket`: preamble of zeros, SFD,
PHR that the sink accepts, as many bytes, zeros) and end before the buffer of
`symbols_to_chips_bs` wraps around. `link_stale` shows that the last is needed: behind
it, old packets go out and the property fails.

### The frame builders

`FrameProofs` proves about `Frame`, `SosFrame` and `FrameCalls`, for any calls of the
builders (`CallsAssumption`: fields of their types, strings of bytes) and any table
whose words end in 256 different bytes (`TableAssumption`, which TLC evaluates on
the code's table):

* `FrameTakenApart`: the length byte, computed from two lengths before the frame
  exists, is the number of bytes of MPDU and FCS; who takes that many bytes behind
  it gets exactly these; the padding is shorter than a unit and fills the last.
  `FramesTakenApart`, `PaddingStaysMinimal` and `FcfIsReadBack` state from it the
  invariants of the run (`FrameSelfConsistent`, `PaddingMinimal`, `FcfDecodes`), and
  `SosFieldsComeBack` that of SOS (`SosDecodes`). The inductive invariant is
  `CallsInv`: a packet is that of the call, and the call was accepted; the lengths
  that the builder refuses are those for which the length byte would be wrong;
* `WatcherAccepts`: the watcher's test reads back what `FCS` has packed;
* `OneByteIsFound`: of what the watcher's test takes it takes nothing else that
  differs in one byte only, whatever the length and wherever the byte. Two runs of
  the division (`Divided`) are the same before that byte; the register forgets
  nothing in a shift, so different registers stay different over equal bytes
  (`RunsMeet`); and over different bytes equal registers become different, since eight
  bits shifted in at one end of sixteen do not reach the other, where a bit that
  falls out divides, so that both runs divide alike and differ by the bytes. If the
  byte is one of the FCS, the number compared with is another;
* `OneSosByteIsFound`: the same for SOS, but for the group, with `crcByte` in place of
  the shifts: entries that end in different bytes make it injective in the checksum
  and in the byte. Damage to the group is never seen;
* `ErrorsInByteFound`, `SosErrorsInByteFound`: as behaviours with errors, for `Received`:
  `OkIffIntact` and `SosOkIffIntact` hold whenever all errors lie in one byte
  (`WithinOneByte`), and so with one error wherever it is. `HitInv` says where errors
  can be;
* `CrcIsRemainder`, `Crc8IsRemainder`: for every message of bytes the two checksums are
  remainders of the long division of `CrcPolynomials`; `FrameCrcIsDefined` and
  `SosCrcIsDefined` state it of every call (`MatchesDefinition`, `SosCrcIsRemainder`).
  The bits of the register of `crcbitbybit` are, after each bit taken in, sixteen
  successive exponents of what the division has left, the highest of them next to be
  divided away (`Window`, kept by `WindowMoves`); in the second loop, which cuts nothing
  off, these are the low bits of a register that grows (`GrownLow`, `CrcIs`); below them the message is still
  untouched (`NotYetEntered`). With the table a byte is eight steps at once: what is
  left differs from the message by the register, at the sixteen exponents behind those
  divided away (`Behind`), and since division is linear the eight steps add the
  remainder of the byte that leaves the register (`ByteFollows`), which is the table's
  entry. That the entries are these remainders is `EntriesAssumption`, which TLC
  evaluates on the code's table in the run `frame`.

The checksums and the division are recursive functions. `SequenceLemmas` proves that
such a function exists and is what its equation says (`RecursionExists`,
`RecursionUnique`), from an induction over sets (`SetInduction`), which needs no operator parameter.

### The SWIG modules

`SwigProofs` proves, for any modules, casts, classes and wrappers that satisfy
`TypesAssumption` and `ObjectsAssumption` (what SWIG generates: sorted arrays, a cast
of each type to itself, factories that give types with a class, methods that are
called for a `shared_ptr` and never for a block), and so without the bounds on imports, objects and
`shared_ptr`s:

* `TypesStay`: the invariant `TypesInv` of the tables, and from it `TypesAreCanonical`
  (`CanonicalTypes`) and `CastsStayFound` (`CastsFound`). `StructuresKept`: a structure in
  use belongs to a module loaded, which uses it itself; without it an import could
  share a structure that its own module has replaced. `ListsKept`: the list of a
  structure, followed from its head, has each node once, linked both ways, one for
  each type that a loaded module casts; a lookup moves a node to the head, and
  `ListOf` is the sequence it permutes. `ClassesKept`: a type for which a loaded
  module registers a class has one, of a loaded module;
* `ObjectsStay`: the invariant `ObjectsInv` of objects and `shared_ptr`s, and from it
  `OwnersAreOne` (`OwnedOnce`), `BlocksStayLive` (`HeldBlocksLive`) and
  `AcceptanceIsByName` (`AcceptedByName`). `CellsHeld`: an object that owns is the only
  one for its `shared_ptr`, which is of its type and not deleted. `OursDestroyed`: an
  object that a factory made has a destructor, which rests on `ClassesKept`; without
  it its deallocation would leak. `UsesCounted`: the count of a block is that of the
  `shared_ptr`s not deleted and the graph, from which the count reaches zero exactly
  when the last goes.

### Only model-checked

Liveness (`EverythingArrives`, `EveryPacketSent`, `EndedStreamFinishes`,
`EveryMessageHandled`, and the sender's half of `ImplementsFifo`), which is out of the
prover's reach; that the checksums find two errors in different bytes (the rest of
`OkIffIntact` and `SosOkIffIntact`), which rests on the order of the polynomial; and
`IntactDelivered` of a channel that inverts chips or a receiver that starts late.

## 5. Disagreements found

See `findings` in PROJECT.json: the missing `break`, the two maximal lengths, the
packets of stale memory, the wait that never returns, the `send_pkt` that raises and
the casts with unused structures. Read but not run:

* `receive_path.carrier_sensed` asks `self.probe`, whose creation is commented out, and
  that of `ieee_pkt_receiver` a method that the SWIG module has no wrapper for;
* `pick_bitrate` returns the symbol rate where its callers expect a bit rate, when
  all parameters are given or no target is; nothing calls it;
* the table for 8-PSK in `tools/psk.py` is not a Gray code (the codes of 3 and 4 are 2 and 7, which differ
  in two bits); the program uses two phases only.

## 6. Not modelled

* Pulse shaping, filters, Costas loop and clock recovery: signals, not states. The
  wiring of the O-QPSK modem and of the demodulator has no state besides.
* Option parsing and device set-up.
* `pick_bitrate.py` and `psk.py`: pure code that no program of usrpN210 reaches (the
  calls are commented out, and one bit per symbol makes the tables the identity).
* The CRC16 object: every caller makes one, updates it once and reads it, so that
  its update, which replaces instead of adding, is never seen.
* The queue and the thread of the SOS and O-QPSK packet blocks: line by line those of
  `TransmitPath` and `ReceivePath`; the SOS sink is not in this repository.
* `create_pkt_802_15_4.py`, which fails in its constructor and which nothing imports;
  the howto example, GRC descriptions, the build system and the empty C++ tests.
* The `usrp1` copies, which differ in radio set-up only.
* The sign of `bit_breamble` (`packet_sink.cc:257`): `PacketSink` counts the ones of
  the word, and so has neither the shift into the sign bit nor the conversion when it is
  compared with 0xffffffff.
* Memory: `_rcvd_pktq` has no limit, and no model says that it stays small. Messages
  queued when the program ends are lost, as the code has it.

## 7. Plan

Done, in this order: `ChipCode`, `Framing`, `PacketSink`, its proofs, `Crc16`,
`Frame`, `Link`, `SymbolsToChips`, `TransmitPath`, `ReceivePath`; then tight output
buffers, stale memory in `Link`, `PacketFifo` and its two implementations,
`SosFrame`, the SWIG modules, and the proofs of both programs, of the chip mapper
and of the frame; then the proofs of the sink's history, of the SWIG modules, of the
checksums, and of whole packets; then those of the link, and that the checksums are
remainders.

Next: `IntactDelivered` for a channel that inverts chips between packets, from the fact that
a search in any state has lost all memory after a preamble; two errors in different
bytes, from the order of the polynomial.
