CONSTANTS
    Workers = {w1, w2, w3}
    Main = main
    Conns = {c1, c2, c3, c4}
    NoThread = NoThread
SPECIFICATION Spec
INVARIANTS TypeOK ConnsConserved ConnectionAtOnce
SYMMETRY Symmetry
