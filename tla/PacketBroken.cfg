CONSTANTS
    READ_BUFFER_SIZE = 9
    Packets <- MCNamed
    MaxPackets = 1
SPECIFICATION Spec
INVARIANTS BrokenLineKept
CHECK_DEADLOCK FALSE
