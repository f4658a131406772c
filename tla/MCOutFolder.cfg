\* Two SMS parts and a file that cannot be read; one late answer, one restart, one
\* failing unlink.
SPECIFICATION OSpec
CONSTANTS
    m1 = m1  m2 = m2  u = u  f = f  no = no
    Jobs = {m1, m2, no}
    Kind <- MCKind
    NoJob = NoJob
    MaxLate = 1
    MaxCrashes = 1
    MaxKept = 1
SYMMETRY Alike
INVARIANTS
    TornOnlyIfUnwritten
    DoneOncePerRun
    NoSilentLoss
