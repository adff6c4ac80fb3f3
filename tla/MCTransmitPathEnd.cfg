SPECIFICATION TxSpec
CONSTANTS
    d_symbol_table <- MCWords
    Packets <- MCPackets
    Size = 5
    Rooms = {5}
    MaxWritten = 12
    msgq_limit = 2
    Messages = 4
    Sender = "transmit_path"
    EofChoices = {FALSE}
PROPERTY Finishes
CHECK_DEADLOCK FALSE
