--------------------------- MODULE SeptetPacking ----------------------------
(***************************************************************************)
(* The 7-bit packing of src/src/PduSMS.cpp (encode7bitStep8to7, encode7bit *)
(* and the first character behind a header in ParseText) and the unpacking *)
(* of src/src/RecvSMS.cpp (decode7BitStep, decode7bit and the correction   *)
(* of the first character in ProcessRecvPDU), against the layout GSM       *)
(* 03.40 prescribes: septets one behind the other, from the first septet   *)
(* boundary at or after the header.                                        *)
(*                                                                         *)
(* Bits are symbolic: bit c of septet i is <<i, c>>, a zero is Zero.  An   *)
(* octet is a function from 0..7 to bits.                                  *)
(***************************************************************************)
EXTENDS Inputs

CONSTANT Zero

Octet == 0..7
Septet == 0..6

\* The text: n septets.
Text(n) == [i \in 1..n |-> [c \in Septet |-> <<i, c>>]]

-----------------------------------------------------------------------------
(* The code.                                                               *)

\* encode7bitStep8to7, for at most 8 septets: octet k has septet k shifted right
\* by k - 1, and above it the lowest bits of septet k + 1.
EncodeStep(s) ==
    LET len == Len(s)
    IN  [k \in 1..(IF len = 8 THEN 7 ELSE len) |->
            [b \in Octet |->
                IF b <= 7 - k THEN s[k][b + k - 1]
                ELSE IF k < len THEN s[k + 1][b - (8 - k)] ELSE Zero]]

\* Groups of 8, the last one shorter.
Groups(s, size) ==
    [g \in 1..((Len(s) + size - 1) \div size) |->
        SubSeq(s, (g - 1) * size + 1, IF g * size <= Len(s) THEN g * size ELSE Len(s))]

\* Blocks one behind the other, of which only the last may be shorter than size.
Joined(blocks, size) ==
    IF blocks = <<>> THEN <<>>
    ELSE [x \in 1..((Len(blocks) - 1) * size + Len(blocks[Len(blocks)])) |->
             blocks[((x - 1) \div size) + 1][((x - 1) % size) + 1]]

Encode7bit(s) ==
    LET groups == Groups(s, 8)
    IN  Joined([g \in DOMAIN groups |-> EncodeStep(groups[g])], 7)

\* The user data behind a header of 6 octets: the first character is put out as
\* an octet of its own, shifted left.
EncodeBehindUdh(s) ==
    <<[b \in Octet |-> IF b = 0 THEN Zero ELSE s[1][b - 1]]>> \o Encode7bit(Tail(s))

\* decode7BitStep, of len septets from at most 7 octets.
DecodeStep(o, len) ==
    [i \in 1..len |->
        [c \in Septet |-> IF c < i - 1 THEN o[i - 1][c + 9 - i] ELSE o[i][c - (i - 1)]]]

\* decode7bit, of n septets.
Decode7bit(o, n) ==
    LET groups == Groups(o, 7)
    IN  Joined([g \in 1..((n + 7) \div 8) |->
            DecodeStep(groups[g], IF g * 8 <= n THEN 8 ELSE n - (g - 1) * 8)], 8)

\* udhPadBits, for a header of h octets.
PadBits(h) == ((h * 8 + 6) \div 7) * 7 - h * 8

\* Bug: no correction of the first character.
DecodeUnshifted(o, n, h) == Decode7bit(o, n)

\* ProcessRecvPDU for DCS 0: with padding, the first octet alone is the first
\* character; a septet has no bits above bit 6.
DecodeBehind(o, n, h) ==
    IF n > 0 /\ PadBits(h) > 0
    THEN <<[c \in Septet |->
              IF c + PadBits(h) \in Octet THEN o[1][c + PadBits(h)] ELSE Zero]>>
         \o Decode7bit(Tail(o), n - 1)
    ELSE Decode7bit(o, n)

-----------------------------------------------------------------------------
(* The reference.                                                          *)

\* The octets behind a header of h octets that carry n septets: bit c of septet
\* i is bit pad + 7 * (i - 1) + c of the stream.
Standard(n, h) ==
    LET pad == PadBits(h)
        size == (pad + 7 * n + 7) \div 8
        bit(x) == IF x < pad \/ x >= pad + 7 * n THEN Zero
                  ELSE <<(x - pad) \div 7 + 1, (x - pad) % 7>>
    IN  [k \in 1..size |-> [b \in Octet |-> bit(8 * (k - 1) + b)]]

\* What is sent is laid out as the standard says, with and without a header.
PackedAsStandard(n) ==
    /\ Encode7bit(Text(n)) = Standard(n, 0)
    /\ n > 0 => EncodeBehindUdh(Text(n)) = Standard(n, 6)

\* What comes in the standard layout is read as it was written, behind every
\* header that ends at most one bit before a septet boundary: 6 octets for an
\* 8-bit reference, 7 for a 16-bit one.
ReadAsStandard(n, h) ==
    PadBits(h) <= 1 => DecodeBehind(Standard(n, h), n, h) = Text(n)
=============================================================================
