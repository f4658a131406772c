\* Two USSD requests and a call-forwarding code, with SMS sent in between.
SPECIFICATION FairUSpec
CONSTANTS
    q1 = q1  q2 = q2  c = c
    Requests = {q1, q2}
    Codes = {c}
    NoRequest = NoRequest
INVARIANTS
    EmittedOnce
    AttributedUnlessOverlapped
    WholeUnlessSwallowed
PROPERTIES
    EveryAnswerHeard
