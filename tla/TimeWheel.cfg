CONSTANTS
    N = 3
    SI = 1
    Timeouts = {0, 3, 4}
    Cells = {x1, x2, x3}
    NULL = NULL
    MaxTime = 4
SPECIFICATION Spec
INVARIANTS TypeOK ListsSound TurnsToGo
PROPERTIES FiredWhenDue CaughtUp
