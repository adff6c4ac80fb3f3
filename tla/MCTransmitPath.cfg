SPECIFICATION TxSpec
CONSTANTS
    d_symbol_table <- MCWords
    Packets <- MCPackets
    Size = 5
    Rooms = {1, 2, 5}
    MaxWritten = 12
    msgq_limit = 2
    Messages = 4
    Sender = "ieee802_15_4_pkt"
    EofChoices = {TRUE, FALSE}
INVARIANTS
    TxTypeOK
    SentInOrder
    PacketsInOnePiece
    DoneMeansSent
PROPERTIES
    ConsumedComeFirst
    ImplementsFifo
    EveryPacketSent
    EndedStreamFinishes
CHECK_DEADLOCK FALSE
