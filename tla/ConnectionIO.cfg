CONSTANTS
    Workers = {w1, w2}
    Capacity = 6
    MaxRequests = 2
    MaxPushes = 1
    PacketLen = 2
    SendRoom = 3
    NoTask = NoTask
SPECIFICATION Spec
INVARIANTS TypeOK  NeverDeaf OneProcessWriter
 
CHECK_DEADLOCK FALSE
