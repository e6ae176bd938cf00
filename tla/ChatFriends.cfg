CONSTANTS
    Users = {u1, u2}
    Conns = {c1, c2}
    Sids = {s1, s2}
    Requests = {"RGT", "LGN", "LGT", "ADF", "accept", "reject", "DEF", "SMA", "RDY", "SAV"}
    NULL = NULL
SPECIFICATION Spec
INVARIANTS TypeOK FriendsSound RequestsSound TablesMatchMemory
PROPERTY RestartKeepsAccounts
SYMMETRY Symmetry
