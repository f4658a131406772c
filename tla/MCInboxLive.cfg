\* Clean memory, refused erases, failed listings, one restart, under fairness: the
\* two parts of a message and a single SMS.
SPECIFICATION FairISpec
CONSTANTS
    k1 = k1  k2 = k2
    a1 = a1  a2 = a2  s1 = s1  s2 = s2
    Pdus = {a1, a2, s1}
    Keys = {k1, k2}
    KeyOf <- MCKeyOf
    NumberOf <- MCNumberOf
    TotalOf <- MCTotalOf
    MaxTotal = 2
    Timeout = 1
    NoPdu = NoPdu  NoEntry = NoEntry  NoKey = NoKey
    SimSize = 2
    MaxSmsIndex = 2
    CmgrLimit = 3
    Garbage = {}
    ListMayFail = TRUE
    AckMayBeLost = FALSE
    MaxLate = 0
    MaxRestarts = 1
INVARIANTS
    ErasedOnlyIfProcessed
    OncePerRun
PROPERTIES
    ImplementsMailbox
    EveryMessageErased
    EveryMessageHanded
