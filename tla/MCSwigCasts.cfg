SPECIFICATION MCSpec
CONSTANTS
    None = None
    Modules <- RepoModules
    NameOrder <- MCNameOrder
    Declares <- MCDeclares
    CastsTo <- MCCastsTo
    Classes <- MCClasses
    Wrappers <- MCWrappers
    Core = "core"
    Numbers <- MCNumbers
    MaxCells = 0
    MaxObjects = 1
    MaxChecks = 0
    MaxReloads = 0
    Looks = {"gr_sync_decimator", "packet_sink", "howto_square2_ff", "gr_block", "gr_top_block"}
CHECK_DEADLOCK FALSE
INVARIANT CastTypesUsed
