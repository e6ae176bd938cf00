CONSTANTS
    READ_BUFFER_SIZE = 12
    Packets <- MCPackets
    MaxPackets = 3
SPECIFICATION Spec
INVARIANTS TypeOK PacketsHandled
 
CHECK_DEADLOCK FALSE
