CONSTANTS
    Threads = {t1, t2}
    m_max_size = 2
    m_split_lines = 2
    NoLine = NoLine
    MaxLines = 2
    MaxDay = 2
SPECIFICATION Spec
INVARIANTS TypeOK QueuedInOrder LinesAccounted FilesFresh
PROPERTIES ImplementsQueue QueuedAreWritten
CHECK_DEADLOCK FALSE
