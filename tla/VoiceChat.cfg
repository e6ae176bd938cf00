CONSTANTS
    Users = {u1, u2, u3}
    Friends <- AllFriends
    Ids = {i0, i1, i2, i3, i4}
    Zero = i0
    NoName = NoName
    NoEntry = NoEntry
    Garbage = Garbage
SPECIFICATION VoiceSpec
CONSTRAINT Bound
SYMMETRY Symmetry
INVARIANTS  CallsMutual 
PROPERTIES PartnerHears
