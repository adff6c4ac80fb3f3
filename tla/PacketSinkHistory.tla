------------------------- MODULE PacketSinkHistory --------------------------
(***************************************************************************)
(* PacketSink with two history variables, to say what the bits that were   *)
(* heard have to do with the states and the messages:                      *)
(*   window  the last symbols heard by the search since it last started    *)
(*           over, as many as a preamble and an SFD have;                  *)
(*   field   the symbols heard since the SFD, by the loops of the fields.  *)
(***************************************************************************)
EXTENDS PacketSink

VARIABLES window, field
hvars == <<vars, window, field>>

HistoryInit == Init /\ window = <<>> /\ field = <<>>

WindowSize  == PreambleBits + ByteBits
Final(s, k) == SubSeq(s, Len(s) - k + 1, Len(s))
Remember(s) == IF Len(s) > WindowSize THEN Final(s, WindowSize) ELSE s

InField == loop' # STATE_SYNC_SEARCH

SearchHistory(c, last) ==
    \/ SearchChip(c, last) /\ UNCHANGED <<window, field>>
    \/ /\ PreambleBroken(c) \/ SfdWrong(c)
       /\ window' = <<>> /\ UNCHANGED field
    \/ /\ PreambleZero(c, last) \/ SkipZero(c, last) \/ SfdBit(c, last) \/ SfdFound(c)
       /\ window' = Remember(Append(window, Heard(c)))
       /\ UNCHANGED field

FieldHistory(c, last) ==
    /\ \/ /\ FieldChip(c, last) \/ FieldAbort(c, last) \/ PhrRejected(c) \/ PayloadDone(c)
          /\ field' = IF InField THEN field ELSE <<>>
       \/ /\ \/ PhrBit(c, last) \/ PhrAccepted(c)
             \/ PayloadBit(c, last) \/ PayloadByte(c, last)
          /\ field' = IF InField THEN Append(field, Heard(c)) ELSE <<>>
    /\ window' = IF InField THEN window ELSE <<>>

HistoryNext ==
    \/ /\ Len(d_target_queue) < QueueBound
       /\ \E c \in Chips, last \in BOOLEAN : SearchHistory(c, last) \/ FieldHistory(c, last)
    \/ delete_head /\ UNCHANGED <<window, field>>

HistorySpec == HistoryInit /\ [][HistoryNext]_hvars
-----------------------------------------------------------------------------
\* The number a sequence of symbols spells, first symbol first.
Value(bits) ==
    LET v[n \in 0 .. Len(bits)] == IF n = 0 THEN 0 ELSE 2 * v[n - 1] + bits[n]
    IN  v[Len(bits)]

\* A byte holds what ByteBits symbols spell, and the SFD begins with a one.
ASSUME ByteAssumption ==
    \A bits \in [1 .. ByteBits -> Symbols] :
        Value(bits) < ByteSize /\ (Value(bits) = SyncVector => bits[1] = 1)

\* A whole preamble of zeros, and the SFD behind it.
SyncHeard(s) ==
    /\ Len(s) = WindowSize /\ \A i \in 1 .. PreambleBits : s[i] = 0
    /\ Value(Final(s, ByteBits)) = SyncVector

\* Synchronisation is earned and never missed: the search goes on to the PHR at
\* exactly the symbol that completes a whole preamble of zeros followed by the
\* SFD, counted from where the search last started over (l.246-319).
SyncIffHeard ==
    [][loop = STATE_SYNC_SEARCH =>
          (loop' = STATE_HAVE_SYNC <=> SyncHeard(window'))]_hvars

\* The n-th byte of a bit sequence.
ByteAt(bits, n) == Value(SubSeq(bits, (n - 1) * ByteBits + 1, n * ByteBits))

\* What is queued is what was heard: bit by bit, most significant first, the
\* length byte and then the bytes of the message, across any cuts of the buffer
\* and any gaps the loops ran over (l.345-377, l.408-446).
DeliversWhatWasHeard ==
    [][Len(d_target_queue') > Len(d_target_queue) =>
        \E s \in Symbols :
            LET bits == Append(field, s)
                msg  == d_target_queue'[Len(d_target_queue')]
            IN  /\ Len(bits) = ByteBits * (1 + Len(msg))
                /\ Len(msg) = 1 \/ Len(msg) = ByteAt(bits, 1)
                /\ \A n \in 1 .. Len(msg) : msg[n] = ByteAt(bits, n + 1)]_hvars
-----------------------------------------------------------------------------
(***************************************************************************)
(* The invariant behind both: where the search is in what it heard, and    *)
(* what of it the fields hold.                                             *)
(***************************************************************************)
SearchFollows ==
    loop = STATE_SYNC_SEARCH =>
        /\ field = <<>>
        /\ \A i \in 1 .. Len(window) - nbr_bit_sfd : window[i] = 0
        /\ IF find_preamble THEN Len(window) >= PreambleBits + nbr_bit_sfd
                            ELSE Len(window) = bit_breamble
        /\ first_found => window[Len(window) - nbr_bit_sfd + 1] = 1
        /\ Value(Final(window, nbr_bit_sfd)) = bit_sfd

\* A field that was given up has left nothing for the search that follows.
GivenUpClean ==
    d_state = STATE_SYNC_SEARCH /\ loop # STATE_SYNC_SEARCH => bit_breamble = 0 /\ ~find_preamble

Stored == ByteBits * (1 + d_packetlen_cnt)
FieldFollows ==
    /\ loop = STATE_HAVE_SYNC => Len(field) = nbr_bits /\ byte = Value(field)
    /\ loop = STATE_HAVE_HEADER =>
           /\ Len(field) = Stored + nbr_bits
           /\ d_packetlen = ByteAt(field, 1)
           /\ \A n \in 1 .. d_packetlen_cnt : d_packet[n - 1] = ByteAt(field, n + 1)
           /\ d_byte = Value(SubSeq(field, Stored + 1, Len(field)))

HistoryInv ==
    /\ window \in Seq(Symbols) /\ Len(window) <= WindowSize /\ field \in Seq(Symbols)
    /\ SearchFollows /\ GivenUpClean /\ FieldFollows
=============================================================================
