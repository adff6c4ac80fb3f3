SPECIFICATION LinkSpec
CONSTANTS
    RegSize = 64
    CHIP_MAPPING <- MCWords
    NoSymbol = NoSymbol
    ChipsPerSymbol = 6
    PreambleBits = 2
    SyncVector = 2
    ByteBits = 2
    ByteSize = 4
    MAX_PKT_LEN = 2
    Garbage <- MCGarbage
    QueueBound = 1
    Packets <- MCPackets
    d_symbol_table <- MCWords
    WordChips = 6
    BufferBytes = 10
    Starts <- MCStarts
    FlipsAt <- MCFlipsAt
    MaxFlips = 0
INVARIANT
    IntactDelivered
CHECK_DEADLOCK FALSE
