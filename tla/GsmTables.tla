----------------------------- MODULE GsmTables ------------------------------
(***************************************************************************)
(* The characters of an SMS: the 7-bit tables of src/src/PduSMS.cpp (for   *)
(* sending), of src/src/RecvSMS.cpp (for receiving) and of src/src/Ussd.cpp*)
(* (for showing a USSD request), and the two UTF-8 conversions around them.*)
(***************************************************************************)
EXTENDS Naturals, Sequences, SequencesExt, TLC

\* Characters and octets are numbers.
None == 255
Unknown == 65535
QuestionMark == 63
EscapeCode == 27

\* Where both tables have a character at its own place.
Own == (32..63 \ {36}) \cup (65..90) \cup (97..122) \cup {10, 13}

\* lookup7Bit's other entries, for the characters of Latin-1; 128 is added to a code
\* that stands behind an escape.
OtherCodes ==
    12 :> 138 @@ 36 :> 2 @@ 64 :> 0 @@ 91 :> 188 @@ 92 :> 175 @@ 93 :> 190 @@ 94 :> 148 @@
    95 :> 17 @@ 123 :> 168 @@ 124 :> 192 @@ 125 :> 169 @@ 126 :> 189 @@ 161 :> 64 @@
    163 :> 1 @@ 164 :> 36 @@ 165 :> 3 @@ 167 :> 95 @@ 191 :> 96 @@ 196 :> 91 @@ 197 :> 14 @@
    198 :> 28 @@ 199 :> 9 @@ 201 :> 31 @@ 209 :> 93 @@ 214 :> 92 @@ 216 :> 11 @@ 220 :> 94 @@
    223 :> 30 @@ 224 :> 127 @@ 228 :> 123 @@ 229 :> 15 @@ 230 :> 29 @@ 232 :> 4 @@ 233 :> 5 @@
    236 :> 7 @@ 241 :> 125 @@ 242 :> 8 @@ 246 :> 124 @@ 248 :> 12 @@ 249 :> 6 @@ 252 :> 126

\* Bug: the currency sign is not in the table, and the dollar has its place.
Lookup7BitDollar(c) ==
    IF c \in Own \cup {36} THEN c ELSE IF c \in DOMAIN OtherCodes THEN OtherCodes[c] ELSE None

Lookup7Bit(c) ==
    IF c \in Own THEN c ELSE IF c \in DOMAIN OtherCodes THEN OtherCodes[c] ELSE None

\* lookup7_8Bit's other entries: codes 0 to 31, some above, and those behind an
\* escape.
OtherCharacters ==
    0 :> 64 @@ 1 :> 163 @@ 2 :> 36 @@ 3 :> 165 @@ 4 :> 232 @@ 5 :> 233 @@ 6 :> 249 @@ 7 :> 236 @@
    8 :> 242 @@ 9 :> 199 @@ 11 :> 216 @@ 12 :> 248 @@ 14 :> 197 @@ 15 :> 229 @@ 16 :> 916 @@
    17 :> 95 @@ 18 :> 934 @@ 19 :> 915 @@ 20 :> 923 @@ 21 :> 911 @@ 22 :> 928 @@ 23 :> 936 @@
    24 :> 931 @@ 25 :> 920 @@ 26 :> 926 @@ 28 :> 198 @@ 29 :> 230 @@ 30 :> 223 @@ 31 :> 201 @@
    36 :> 164 @@ 64 :> 161 @@ 91 :> 196 @@ 92 :> 214 @@ 93 :> 209 @@ 94 :> 220 @@ 95 :> 167 @@
    96 :> 191 @@ 123 :> 228 @@ 124 :> 246 @@ 125 :> 241 @@ 126 :> 252 @@ 127 :> 224 @@
    138 :> 12 @@ 148 :> 94 @@ 168 :> 123 @@ 169 :> 125 @@ 175 :> 92 @@ 188 :> 91 @@ 189 :> 126 @@
    190 :> 93 @@ 192 :> 124 @@ 229 :> 8364

Lookup7To8Bit(code) ==
    IF code \in Own THEN code
    ELSE IF code \in DOMAIN OtherCharacters THEN OtherCharacters[code] ELSE Unknown

\* DecodeGsm7Basic shows what ASCII has at the same place, and four more.
DecodeGsm7Basic(code) ==
    CASE code \in {10, 13} -> code
      [] code = 17 -> 95
      [] code = 2 -> 36
      [] code \in (32..63) \cup (65..90) \cup (97..122) -> code
      [] OTHER -> QuestionMark

-----------------------------------------------------------------------------
(* Septets.                                                                *)

\* TryConvertToUssd7Bit, and what ParseText does: the septets of a character of
\* Latin-1 that has some.
SeptetsOf(c) ==
    IF Lookup7Bit(c) >= 128 THEN <<EscapeCode, Lookup7Bit(c) - 128>> ELSE <<Lookup7Bit(c)>>

\* decode7bit's loop over the septets.
Characters7bit(septets) ==
    LET one(state, septet) ==
            IF septet = EscapeCode THEN [state EXCEPT !.prefix = 128]
            ELSE LET c == Lookup7To8Bit(state.prefix + septet)
                 IN  [prefix |-> 0,
                      out |-> Append(state.out, IF c = Unknown THEN QuestionMark ELSE c)]
    IN  FoldLeft(one, [prefix |-> 0, out |-> <<>>], septets).out

-----------------------------------------------------------------------------
(* UTF-8.                                                                  *)

\* Bug: one bit too much for two octets.
ToUTF8Wide(char) ==
    LET c == char % 65536
    IN  IF c < 128 THEN <<c>>
        ELSE IF c < 4096 THEN <<((c \div 64) % 32) + 192, (c % 64) + 128>>
        ELSE <<(c \div 4096) + 224, ((c \div 64) % 64) + 128, (c % 64) + 128>>

\* toUTF8, of one character, cut to 16 bits.
ToUTF8(char) ==
    LET c == char % 65536
    IN  IF c < 128 THEN <<c>>
        ELSE IF c < 2048 THEN <<(c \div 64) + 192, (c % 64) + 128>>
        ELSE <<(c \div 4096) + 224, ((c \div 64) % 64) + 128, (c % 64) + 128>>

\* XML_utf8ByteTable: 0 for an octet that is skipped (a stray continuation, or the
\* first one of a character beyond 16 bits).
OctetsOf(lead) ==
    IF lead < 128 THEN 1 ELSE IF lead < 192 THEN 0 ELSE IF lead < 224 THEN 2
    ELSE IF lead < 240 THEN 3 ELSE 0

\* UTF8ToUnicode: what follows a first octet is taken for a continuation, whatever
\* it is; a character that the end cuts is dropped.
UTF8ToUnicode(s) ==
    LET from[i \in 1..(Len(s) + 1)] ==
            IF i > Len(s) THEN <<>>
            ELSE LET n == OctetsOf(s[i])
                 IN  CASE n = 0 -> from[i + 1]
                       [] n = 1 -> <<s[i]>> \o from[i + 1]
                       [] n > 1 /\ i + n - 1 > Len(s) -> <<>>
                       [] n = 2 /\ i + 1 <= Len(s) ->
                            <<(s[i] % 32) * 64 + (s[i + 1] % 64)>> \o from[i + 2]
                       [] n = 3 /\ i + 2 <= Len(s) ->
                            <<(s[i] % 16) * 4096 + (s[i + 1] % 64) * 64 + (s[i + 2] % 64)>>
                            \o from[i + 3]
    IN  from[1]

-----------------------------------------------------------------------------
(* Properties.                                                             *)

\* A character that the sending table has comes out of the receiving table as
\* itself, and the USSD table shows one that is not escaped as itself or as "?",
\* except the currency sign, which is shown as the dollar whose place it has.
SurvivesTables(c) ==
    Lookup7Bit(c) # None =>
        /\ Characters7bit(SeptetsOf(c)) = <<c>>
        /\ Lookup7Bit(c) < 128 /\ c # 164 => DecodeGsm7Basic(Lookup7Bit(c)) \in {c, QuestionMark}

\* A text of 16-bit characters is read back from its UTF-8; from UTF-8 that is cut
\* anywhere only the character at the cut is lost; a character beyond 16 bits, in
\* its four octets, vanishes whole and takes nothing with it.
SurvivesUTF8(text) ==
    LET octets(t) == FlattenSeq([i \in DOMAIN t |-> ToUTF8(t[i])])
        all == octets(text)
        read(n) == UTF8ToUnicode(SubSeq(all, 1, n))
    IN  /\ read(Len(all)) = text
        /\ \A k \in 0..Len(text) : \A n \in 0..Len(all) :
             Len(octets(SubSeq(text, 1, k))) <= n
             /\ (k < Len(text) => n < Len(octets(SubSeq(text, 1, k + 1))))
             => read(n) = SubSeq(text, 1, k)
        /\ \A k \in 0..Len(text) :
             UTF8ToUnicode(octets(SubSeq(text, 1, k)) \o <<240, 159, 152, 128>>
                           \o octets(SubSeq(text, k + 1, Len(text)))) = text
=============================================================================
