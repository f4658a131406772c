\* A reboot is asked for, and another message makes its hooks take their time.
SPECIFICATION FairHSpec
CONSTANTS
    m1 = m1  m2 = m2  s1 = s1
    Messages = {m1, m2}
    Request <- MCRequest
    Hooks <- MCHooks
    Stamps = {s1}
    NoMsg = NoMsg
    MaxStarts = 2
INVARIANT ReplyBeforeReboot
