\* Refuted: m_DirtySimSlots is not initialised.
SPECIFICATION ISpec
CONSTANTS
    k1 = k1  k2 = k2
    a1 = a1  a2 = a2  s1 = s1  s2 = s2
    Pdus = {s1}
    Keys = {k1, k2}
    KeyOf <- MCKeyOf
    NumberOf <- MCNumberOf
    TotalOf <- MCTotalOf
    MaxTotal = 2
    Timeout = 1
    NoPdu = NoPdu  NoEntry = NoEntry  NoKey = NoKey
    SimSize = 1
    MaxSmsIndex = 1
    CmgrLimit = 2
    Garbage = {0}
    ListMayFail = FALSE
    AckMayBeLost = FALSE
    MaxLate = 0
    MaxRestarts = 0
INVARIANTS
    ErasedOnlyIfProcessed
