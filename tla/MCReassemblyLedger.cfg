\* Every part up to twice: duplicates before and after completion and expiry.
SPECIFICATION LSpec
CONSTANTS
    k1 = k1  k2 = k2
    a1 = a1  a2 = a2  b2 = b2  b3 = b3  c1 = c1
    Pdus = {a1, a2, b2, b3, c1}
    Keys = {k1, k2}
    KeyOf <- MCKeyOf
    NumberOf <- MCNumberOf
    TotalOf <- MCTotalOf
    MaxTotal = 3
    Timeout = 1
    NoPdu = NoPdu  NoEntry = NoEntry  NoKey = NoKey
    MaxFeeds = 2
INVARIANTS
    BooksBalance
