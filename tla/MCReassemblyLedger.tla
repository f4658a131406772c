------------------------- MODULE MCReassemblyLedger -------------------------
(* Instance of ReassemblyLedger for TLC.                                   *)
EXTENDS ReassemblyLedger

CONSTANTS k1, k2,      \* two (reference, sender) pairs
          a1, a2,      \* the two parts of a message of k1
          b2,          \* part 2 of a later message that reuses k1's reference
          b3,          \* part 3 of 3 announced under k1's reference
          c1           \* part 1 of 2 of k2

MCKeyOf == [p \in Pdus |-> IF p \in {a1, a2, b2, b3} THEN k1 ELSE k2]

MCNumberOf == [p \in Pdus |->
    CASE p \in {a1, c1} -> 1 [] p \in {a2, b2} -> 2 [] OTHER -> 3]

MCTotalOf == [p \in Pdus |-> IF p = b3 THEN 3 ELSE 2]
=============================================================================
