CONSTANTS
    Workers = {w1, w2}
    Capacity = 6
    MaxRequests = 1
    MaxPushes = 0
    PacketLen = 2
    SendRoom = 3
    NoTask = NoTask
SPECIFICATION Spec
PROPERTY AnswersAreSent
CHECK_DEADLOCK FALSE
