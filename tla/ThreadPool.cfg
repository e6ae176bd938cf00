CONSTANTS
    Workers = {w1, w2}
    Main = main
    Requests = {r1, r2}
    NULL = NULL
    m_max_requests = 2
    MaxAppends = 1
    NoTask = NoTask
SPECIFICATION Spec
INVARIANTS TypeOK  QueueBound
PROPERTY ImplementsTaskPool
CHECK_DEADLOCK FALSE
