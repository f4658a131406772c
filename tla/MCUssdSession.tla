--------------------------- MODULE MCUssdSession ----------------------------
(* Instance of UssdSession for TLC.                                        *)
EXTENDS UssdSession

CONSTANTS q1, q2,      \* two USSD requests
          c            \* a call-forwarding code
=============================================================================
