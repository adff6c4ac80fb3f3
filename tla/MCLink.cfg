SPECIFICATION LinkSpec
CONSTANTS
    RegSize = 65536
    CHIP_MAPPING <- MCWords
    NoSymbol = NoSymbol
    ChipsPerSymbol = 16
    PreambleBits = 32
    SyncVector = 167
    ByteBits = 8
    ByteSize = 256
    MAX_PKT_LEN = 118
    Garbage <- MCGarbage
    QueueBound = 1
    Packets <- MCPackets
    d_symbol_table <- MCWords
    WordChips = 16
    BufferBytes = 8192
    Starts <- MCStarts
    FlipsAt <- MCFlipsAt
    MaxFlips = 1
INVARIANTS
    NothingElseDelivered
    IntactDelivered
PROPERTIES
    EverythingArrives
CHECK_DEADLOCK FALSE
