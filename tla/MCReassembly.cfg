\* Two keys; duplicates, a reused reference, an invalid number, a foreign total, for ever.
SPECIFICATION FairSpec
CONSTANTS
    k1 = k1  k2 = k2
    a1 = a1  a2 = a2  b2 = b2  b3 = b3  z0 = z0  c1 = c1  c2 = c2  s = s
    Pdus = {a1, a2, b2, b3, z0, c1, c2, s}
    Keys = {k1, k2}
    KeyOf <- MCKeyOf
    NumberOf <- MCNumberOf
    TotalOf <- MCTotalOf
    MaxTotal = 3
    Timeout = 2
    NoPdu = NoPdu  NoEntry = NoEntry  NoKey = NoKey
INVARIANTS
    CountIsExact
    IInv
    CompleteIsWhole
PROPERTIES
    GivenUpOnlyWhenStale
    EveryEntryEnds
