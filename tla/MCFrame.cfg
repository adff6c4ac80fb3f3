SPECIFICATION Spec
CONSTANTS
    crcTable <- crc8_crcTable
    IeeeCalls <- MCIeeeCalls
    SosCalls <- MCSosCalls
    HitCalls <- MCHitCalls
    AddressLengths = {0, 1, 8}
    PayloadLengths = {0, 1, 2, 9}
    SosLengths = {0, 1, 2, 9}
    MaxErrors = 2
INVARIANTS
    FrameSelfConsistent
    PaddingMinimal
    FcfDecodes
    MatchesDefinition
    OkIffIntact
    SosDecodes
    SosCrcIsRemainder
    SosOkIffIntact
CHECK_DEADLOCK FALSE
