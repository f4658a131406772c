----------------------------- MODULE PartHeader -----------------------------
(***************************************************************************)
(* The user data header of a received SMS, as ProcessRecvPDU walks through *)
(* it (src/src/RecvSMS.cpp): information elements <id, length, octets>, of *)
(* which the one that numbers the parts (id 0 with an 8-bit reference, id  *)
(* 8 with a 16-bit one) gives m_nRefNr, m_nParts and m_nPartNo.            *)
(***************************************************************************)
EXTENDS Naturals, Sequences, FiniteSetsExt

\* What a part without a header has.
Unnumbered == [ref |-> <<>>, total |-> 0, number |-> 0]

\* The position behind the element at pos.
Behind(pos, length) == pos + 2 + length

\* An element that runs beyond the end is an error.
Refuse(walk) == [walk EXCEPT !.ok = FALSE]

\* Bug: a 16-bit reference is read as one of 8 bits.
NumbersShort(udh, pos, none) ==
    LET octets == SubSeq(udh, pos + 3, pos + 2 + udh[pos + 2])
    IN  IF udh[pos + 1] \in {0, 8} /\ Len(octets) \in {3, 4}
        THEN [ref |-> <<octets[1]>>, total |-> octets[2], number |-> octets[3]]
        ELSE none

\* The numbers in the element at pos (counted from 0, as in the code), or none.
Numbers(udh, pos, none) ==
    LET id == udh[pos + 1]
        length == udh[pos + 2]
        octets == SubSeq(udh, pos + 3, pos + 2 + length)
    IN  CASE id = 0 /\ length = 3 ->
                [ref |-> <<octets[1]>>, total |-> octets[2], number |-> octets[3]]
          [] id = 8 /\ length = 4 ->
                [ref |-> <<octets[1], octets[2]>>, total |-> octets[3], number |-> octets[4]]
          [] OTHER -> none

\* One turn of the loop over udh, at pos; the positions inside an element are passed over.
Look(udh, walk, pos) ==
    IF ~walk.ok \/ pos # walk.pos \/ pos + 1 >= Len(udh) THEN walk
    ELSE IF Behind(pos, udh[pos + 2]) > Len(udh) THEN Refuse(walk)
    ELSE [walk EXCEPT !.pos = Behind(pos, udh[pos + 2]), !.found = Numbers(udh, pos, @)]

WalkStart == [ok |-> TRUE, pos |-> 1, found |-> Unnumbered]

\* The loop; the octet at position 0 is the header's length.
Walks(udh) ==
    LET walk[n \in 0..Len(udh)] == IF n = 0 THEN WalkStart ELSE Look(udh, walk[n - 1], n)
    IN  walk

Walk(udh) == Walks(udh)[Len(udh)]

-----------------------------------------------------------------------------

HeaderElements == [id : Nat, octets : Seq(Nat)]

\* An element as a network writes it, the first n of them, and the header.
Element(e) == <<e.id, Len(e.octets)>> \o e.octets

Written(elements) ==
    LET octets[n \in 0..Len(elements)] == IF n = 0 THEN <<>> ELSE octets[n - 1] \o Element(elements[n])
    IN  octets

Header(elements) ==
    LET octets == Written(elements)[Len(elements)]
    IN  <<Len(octets)>> \o octets

IsNumbering(e) == (e.id = 0 /\ Len(e.octets) = 3) \/ (e.id = 8 /\ Len(e.octets) = 4)

NumbersOf(octets) ==
    LET n == Len(octets)
    IN  [ref |-> SubSeq(octets, 1, n - 2), total |-> octets[n - 1], number |-> octets[n]]

\* A header is read to its last numbering element, whatever other elements stand
\* before, between and behind, also if their octets look like one.
ReadToTheLast(elements) ==
    LET walk == Walk(Header(elements))
        numbering == {i \in DOMAIN elements : IsNumbering(elements[i])}
    IN  /\ walk.ok
        /\ walk.found = IF numbering = {} THEN Unnumbered ELSE NumbersOf(elements[Max(numbering)].octets)

\* A header whose length ends within its last element is refused, not read
\* beyond its end. (The walk does not look at the octet that holds the length.)
CutIsRefused(elements) ==
    LET header == Header(elements)
    IN  elements # <<>> /\ Len(elements[Len(elements)].octets) > 0 =>
            ~Walk(SubSeq(header, 1, Len(header) - 1)).ok
=============================================================================
