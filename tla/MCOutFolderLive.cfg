\* A USSD request and a call-forwarding code, under the fairness of the loop.
SPECIFICATION FairOSpec
CONSTANTS
    m1 = m1  m2 = m2  u = u  f = f  no = no
    Jobs = {u, f}
    Kind <- MCKind
    NoJob = NoJob
    MaxLate = 1
    MaxCrashes = 1
    MaxKept = 1
INVARIANTS
    DialledTwiceOnlyIfUnheard
PROPERTIES
    EveryJobLeaves
    ImplementsMailbox
