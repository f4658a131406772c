------------------------------ MODULE SmsText -------------------------------
(***************************************************************************)
(* From the text of an SMS to its parts and back: COutPduSms::ParseText    *)
(* (src/src/PduSMS.cpp) scans the text character by character, chooses an  *)
(* encoding and cuts the text into parts, one per round of its loop;       *)
(* ProcessRecvPDU and decode7bit (src/src/RecvSMS.cpp) decode each part,   *)
(* septet by septet, and ReceivedSMS joins them.                           *)
(*                                                                         *)
(* A character is [table, code]: in the basic GSM table, in its extension  *)
(* table (written ESC, code), only in Latin-1, or beyond it.  A unit is    *)
(* what one position of the chosen encoding holds.                         *)
(***************************************************************************)
EXTENDS SeptetPacking

CONSTANTS
    MaxTextLen,        \* kMaxTextLenByMode, by scheme: 160, 140, 70
    UdhLen,            \* kUdhLenInChars, by scheme: 7, 6, 3
    MaxParts,          \* the largest value of iPart, 255
    CharactersAt(_),   \* the characters a text may have at a place
    MaxLength,         \* bound: characters of a text
    MaxOut             \* bound: parts that a loop without end puts out

Schemes == {"pdu7", "pdu8", "pdu16"}
Tables == {"basic", "extension", "latin", "wide"}
TextCharacters == [table : Tables, code : Nat]

ASSUME LengthAssumption ==
    /\ MaxTextLen \in [Schemes -> Nat]
    /\ UdhLen \in [Schemes -> Nat]
    /\ \A s \in Schemes : UdhLen[s] < MaxTextLen[s]
    /\ MaxParts \in Nat \ {0}
    /\ MaxLength \in Nat /\ MaxOut \in Nat
    /\ \A n \in 1..MaxLength : CharactersAt(n) \subseteq TextCharacters

VARIABLES
    stage,         \* "scan", "cut" or "receive"
    sText,         \* as far as it has been scanned
    sms7BitText,
    found,         \* is_8bit_found, is_16bit_found
    textLen,       \* units that are still to be sent
    iPart,
    outList,       \* the parts, as they are sent and received
    reading,       \* the part that is being received
    septet,        \* how many of its septets have been decoded
    decoded        \* escPreffix, and the text of all the parts so far

scanVars == <<sText, sms7BitText, found>>
cutVars == <<textLen, iPart, outList>>
receiveVars == <<reading, septet, decoded>>
textVars == <<stage, scanVars, cutVars, receiveVars>>

ESC == [esc |-> TRUE]
Code(c) == [esc |-> FALSE, code |-> c]

\* What an empty text is replaced by.
Space == [table |-> "basic", code |-> 0]

-----------------------------------------------------------------------------
(* The choice of the encoding.                                             *)

\* The septets of one character of the GSM tables.
Escaped(c) == IF c.table = "extension" THEN <<ESC, Code(c.code)>> ELSE <<Code(c.code)>>

\* The loop over sText; it is left at the first character beyond Latin-1, and
\* sms7BitText grows until there is one outside of the GSM tables.
Scan(c) ==
    /\ stage = "scan" /\ Len(sText) < MaxLength
    /\ sText' = Append(sText, c)
    /\ found' = [wide  |-> found.wide \/ c.table = "wide",
                 latin |-> found.latin \/ (~found.wide /\ c.table = "latin")]
    /\ sms7BitText' = IF found'.wide \/ found'.latin THEN sms7BitText ELSE sms7BitText \o Escaped(c)
    /\ UNCHANGED <<stage, cutVars, receiveVars>>

\* 16 bits for a character beyond Latin-1, 8 bits for one that is not in the GSM
\* tables, and where 7 bits would save nothing because of the escapes.
Scheme ==
    IF found.wide THEN "pdu16"
    ELSE IF found.latin \/ (Len(sms7BitText) * 7) \div 8 >= Len(sText) THEN "pdu8"
    ELSE "pdu7"

\* One position for each character, except in the 7-bit scheme.
Units == IF Scheme = "pdu7" THEN sms7BitText ELSE sText

HasUdh == Len(Units) > MaxTextLen[Scheme]

\* Bug: the header's room is not taken off.
PartSizeFull == MaxTextLen[Scheme]

PartSize == MaxTextLen[Scheme] - (IF HasUdh THEN UdhLen[Scheme] ELSE 0)

NParts == (Len(Units) - 1) \div PartSize + 1

Choose ==
    /\ stage = "scan" /\ sText # <<>>
    /\ stage' = "cut" /\ textLen' = Len(Units)
    /\ UNCHANGED <<scanVars, iPart, outList, receiveVars>>

-----------------------------------------------------------------------------
(* The loop over the parts.                                                *)

Least(a, b) == IF a <= b THEN a ELSE b

\* What fits into an unsigned char.
Byte(n) == n % (MaxParts + 1)

\* A part: its place and total as the UDH gives them (0 without a UDH), TP-UDL in
\* positions, and the units in it.
CutPart ==
    LET partSZ == Least(textLen, PartSize)
        txt == Len(Units) - textLen
    IN  /\ stage = "cut" /\ iPart < NParts /\ Len(outList) < MaxOut
        /\ outList' = Append(outList,
               [scheme |-> Scheme,
                number |-> IF HasUdh THEN Byte(iPart + 1) ELSE 0,
                total  |-> IF HasUdh THEN Byte(NParts) ELSE 0,
                udl    |-> partSZ + (IF HasUdh THEN UdhLen[Scheme] ELSE 0),
                units  |-> SubSeq(Units, txt + 1, txt + partSZ)])
        /\ textLen' = textLen - partSZ
        /\ iPart' = Byte(iPart + 1)
        /\ UNCHANGED <<stage, scanVars, receiveVars>>

SendAll ==
    /\ stage = "cut" /\ iPart >= NParts
    /\ stage' = "receive"
    /\ UNCHANGED <<scanVars, cutVars, receiveVars>>

-----------------------------------------------------------------------------
(* Decoding.                                                               *)

Part == outList[reading]
Arriving == stage = "receive" /\ reading <= Len(outList)

\* Bug: the escape stays in force.
StepEscapeStays(state, u) ==
    IF u.esc THEN [state EXCEPT !.esc = TRUE]
    ELSE [state EXCEPT !.out = Append(@, [table |-> IF state.esc THEN "extension" ELSE "basic",
                                          code |-> u.code])]

\* decode7bit, for one septet.
Step(state, u) ==
    IF u.esc THEN [state EXCEPT !.esc = TRUE]
    ELSE [esc |-> FALSE,
          out |-> Append(state.out, [table |-> IF state.esc THEN "extension" ELSE "basic",
                                     code |-> u.code])]

DecodeSeptet ==
    /\ Arriving /\ Part.scheme = "pdu7" /\ septet < Len(Part.units)
    /\ septet' = septet + 1
    /\ decoded' = Step(decoded, Part.units[septet + 1])
    /\ UNCHANGED <<stage, scanVars, cutVars, reading>>

\* escPreffix is a local variable of decode7bit.
NextPart ==
    /\ Arriving /\ Part.scheme = "pdu7" /\ septet = Len(Part.units)
    /\ reading' = reading + 1 /\ septet' = 0
    /\ decoded' = [decoded EXCEPT !.esc = FALSE]
    /\ UNCHANGED <<stage, scanVars, cutVars>>

\* ProcessRecvPDU copies the units of the other schemes.
CopyPart ==
    /\ Arriving /\ Part.scheme # "pdu7"
    /\ reading' = reading + 1
    /\ decoded' = [decoded EXCEPT !.out = @ \o Part.units]
    /\ UNCHANGED <<stage, scanVars, cutVars, septet>>

Arrived == stage = "receive" /\ reading > Len(outList)

-----------------------------------------------------------------------------
TextInit ==
    /\ stage = "scan"
    /\ sText = <<>> /\ sms7BitText = <<>> /\ found = [wide |-> FALSE, latin |-> FALSE]
    /\ textLen = 0 /\ iPart = 0 /\ outList = <<>>
    /\ reading = 1 /\ septet = 0 /\ decoded = [esc |-> FALSE, out |-> <<>>]

\* The next SMS.
NextText ==
    /\ Arrived \/ (stage = "cut" /\ Len(outList) = MaxOut)
    /\ stage' = "scan"
    /\ sText' = <<>> /\ sms7BitText' = <<>> /\ found' = [wide |-> FALSE, latin |-> FALSE]
    /\ textLen' = 0 /\ iPart' = 0 /\ outList' = <<>>
    /\ reading' = 1 /\ septet' = 0 /\ decoded' = [esc |-> FALSE, out |-> <<>>]

TextNext ==
    \/ \E c \in CharactersAt(Len(sText) + 1) : Scan(c)
    \/ sText = <<>> /\ Scan(Space)
    \/ Choose \/ CutPart \/ SendAll
    \/ DecodeSeptet \/ NextPart \/ CopyPart
    \/ NextText

TextSpec == TextInit /\ [][TextNext]_textVars

-----------------------------------------------------------------------------
(* Properties.                                                             *)

\* A part ends with the escape of a character whose code begins the next part.
EscapeCut == \E i \in DOMAIN outList : outList[i].units[Len(outList[i].units)] = ESC

\* Parts are numbered 1 to n of n, none is empty, and each fits in one SMS.
WellCut ==
    stage = "receive" =>
        LET n == Len(outList)
        IN  \A i \in 1..n :
                /\ outList[i].units # <<>>
                /\ outList[i].udl <= MaxTextLen[outList[i].scheme]
                /\ IF n = 1 THEN outList[i].total = 0
                   ELSE outList[i].number = i /\ outList[i].total = n

\* The text arrives whole, unless an escape sequence is cut in two
\* (src/src/PduSMS.cpp:449: "7 bit coding is OK for the message.").
ArrivesUnlessCut == Arrived => EscapeCut \/ decoded.out = sText

\* A text is cut into numbered parts of at most one SMS each, its septets lie there as
\* GSM 03.40 says, also behind a header, and it arrives as it was sent, unless a part
\* boundary cuts an escape sequence in two.
TextsArriveUnlessCut ==
    /\ WellCut /\ ArrivesUnlessCut
    /\ Of("septets") =>
        /\ PackedAsStandard(Len(input.data))
        /\ \A header \in {0, 6, 7, 13} : ReadAsStandard(Len(input.data), header)
=============================================================================
