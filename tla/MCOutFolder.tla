---------------------------- MODULE MCOutFolder -----------------------------
(* Instances of OutFolder for TLC.                                         *)
EXTENDS OutFolder

CONSTANTS m1, m2,      \* SMS parts
          u,           \* a USSD request
          f,           \* a call-forwarding code
          no           \* a file the daemon may not read

MCKind == [j \in Jobs |->
    CASE j \in {m1, m2} -> "sms" [] j = u -> "ussd" [] j = f -> "cf" [] OTHER -> "unreadable"]

\* The two parts are alike.
Alike == Permutations({m1, m2})
=============================================================================
