\* "pon auto" and "reboot" from one sender within a second, one restart.
SPECIFICATION FairHSpec
CONSTANTS
    m1 = m1  m2 = m2  s1 = s1
    Messages = {m1, m2}
    Request <- MCRequest
    Hooks <- MCHooks
    Stamps = {s1}
    NoMsg = NoMsg
    MaxStarts = 2
INVARIANTS
    EveryHookRuns
    VpnOverALink
PROPERTIES
    FilesAreKept
    LoopGoesRound
