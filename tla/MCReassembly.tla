---------------------------- MODULE MCReassembly ----------------------------
(* Instances of Reassembly for TLC.                                        *)
EXTENDS Reassembly

CONSTANTS k1, k2,      \* two (reference, sender) pairs
          a1, a2,      \* the two parts of a message of k1
          b2,          \* part 2 of a later message that reuses k1's reference
          b3,          \* part 3 of 3 announced under k1's reference
          z0,          \* a part of k1 with number 0
          c1, c2,      \* the two parts of a message of k2
          s            \* a single SMS of k2

MCKeyOf == [p \in Pdus |-> IF p \in {a1, a2, b2, b3, z0} THEN k1 ELSE k2]

MCNumberOf == [p \in Pdus |->
    CASE p \in {a1, c1} -> 1 [] p \in {a2, b2, c2} -> 2 [] p = b3 -> 3 [] OTHER -> 0]

MCTotalOf == [p \in Pdus |-> CASE p = b3 -> 3 [] p = s -> 0 [] OTHER -> 2]
=============================================================================
