\* Uninitialised flags, lost acknowledgements, late answers.
SPECIFICATION ISpec
CONSTANTS
    k1 = k1  k2 = k2
    a1 = a1  a2 = a2  s1 = s1  s2 = s2
    Pdus = {s1, s2}
    Keys = {k1, k2}
    KeyOf <- MCKeyOf
    NumberOf <- MCNumberOf
    TotalOf <- MCTotalOf
    MaxTotal = 2
    Timeout = 1
    NoPdu = NoPdu  NoEntry = NoEntry  NoKey = NoKey
    SimSize = 2
    MaxSmsIndex = 4
    CmgrLimit = 5
    Garbage = {0}
    ListMayFail = TRUE
    AckMayBeLost = TRUE
    MaxLate = 2
    MaxRestarts = 0
INVARIANTS
    ITypeOK
    OnlyMisflaggedLost
