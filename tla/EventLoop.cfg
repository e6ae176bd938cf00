CONSTANTS
    Fds = {c1, c2}
    Timers = {x1, x2, x3, x4}
    NULL = NULL
    Rounds = 1
    MaxInputs = 4
SPECIFICATION Spec
INVARIANTS TypeOK TimersSound AlarmChain
 
CHECK_DEADLOCK FALSE
