----------------------------- MODULE MCSimInbox -----------------------------
(* Instances of SimInbox for TLC.                                          *)
EXTENDS SimInbox

CONSTANTS k1, k2,      \* two (reference, sender) pairs
          a1, a2,      \* the two parts of a message of k1
          s1, s2       \* single SMS of k2

MCKeyOf == [p \in Pdus |-> IF p \in {a1, a2} THEN k1 ELSE k2]
MCNumberOf == [p \in Pdus |-> CASE p = a1 -> 1 [] p = a2 -> 2 [] OTHER -> 0]
MCTotalOf == [p \in Pdus |-> IF p \in {a1, a2} THEN 2 ELSE 0]
=============================================================================
