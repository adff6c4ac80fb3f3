SPECIFICATION MCSpec
CONSTANTS
    None = None
    Modules <- MCModules
    NameOrder <- MCNameOrder
    Declares <- MCDeclares
    CastsTo <- MCCastsTo
    Classes <- MCClasses
    Wrappers <- MCWrappers
    Core = "core"
    Numbers <- MCNumbers
    MaxCells = 2
    MaxObjects = 2
    MaxChecks = 2
    MaxReloads = 1
    Looks = {"gr_sync_decimator", "packet_sink", "howto_square2_ff", "gr_block", "gr_top_block"}
CHECK_DEADLOCK FALSE
INVARIANT CanonicalTypes
INVARIANT CastsFound
INVARIANT OwnedOnce
INVARIANT HeldBlocksLive
INVARIANT AcceptedByName
