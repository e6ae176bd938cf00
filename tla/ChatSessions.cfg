CONSTANTS
    Users = {u1, u2}
    Conns = {c1, c2}
    Sids = {s1, s2, s3}
    Requests = {"RGT", "LGN", "LGT", "RCN", "RDY"}
    NULL = NULL
SPECIFICATION Spec
INVARIANT OnlineHasSession
SYMMETRY Symmetry
