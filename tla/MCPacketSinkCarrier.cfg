SPECIFICATION Spec
CONSTANTS
    RegSize = 16
    CHIP_MAPPING <- MCWords
    NoSymbol = NoSymbol
    ChipsPerSymbol = 4
    PreambleBits = 2
    SyncVector = 2
    ByteBits = 2
    ByteSize = 4
    MAX_PKT_LEN = 2
    Garbage <- MCGarbage
    QueueBound = 1
PROPERTIES
    DeliveredUnderCarrier
