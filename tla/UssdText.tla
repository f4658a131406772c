------------------------------ MODULE UssdText ------------------------------
(***************************************************************************)
(* What a USSD request and its answer look like on the line: the payload   *)
(* of a "U" job (ParseUssd of src/src/PduSMS.cpp, GenUSSD of               *)
(* src/src/SendSMS.cpp), the request as the XML file shows it              *)
(* (DecodeUssdRequest of src/src/Ussd.cpp) and the reading of a "+CUSD:"   *)
(* line (ParseUssdResponse).                                               *)
(*                                                                         *)
(* A payload is a sequence of octets, its hexadecimal digits left out.     *)
(***************************************************************************)
EXTENDS SeptetPacking, GsmTables

-----------------------------------------------------------------------------
(* The request.                                                            *)

\* Numbers and their bits, the lowest first.
Bits(number, width) == [b \in 0..(width - 1) |-> IF (number \div 2^b) % 2 = 1 THEN 1 ELSE Zero]
NumberOf(bits, width) ==
    FoldLeft(LAMBDA n, b : 2 * n + IF bits[b] = Zero THEN 0 ELSE 1, 0, [k \in 1..width |-> width - k])

\* TryConvertToUssd7Bit succeeds.
Has7Bit(text) == \A i \in DOMAIN text : text[i] < 256 /\ Lookup7Bit(text[i]) # None
UssdSeptets(text) == FlattenSeq([i \in DOMAIN text |-> SeptetsOf(text[i])])

\* ParseUssd, as GenUSSD calls it, without m_bForceUnicode.
ParseUssd(text) ==
    IF Has7Bit(text)
    THEN LET packed == Encode7bit([i \in DOMAIN UssdSeptets(text) |-> Bits(UssdSeptets(text)[i], 7)])
         IN  [dcs |-> 15, payload |-> [k \in DOMAIN packed |-> NumberOf(packed[k], 8)]]
    ELSE [dcs |-> 72,
          payload |-> FlattenSeq([i \in DOMAIN text |-> <<text[i] \div 256, text[i] % 256>>])]

\* DecodeGsm7Packed: all septets that the octets have room for.
DecodeGsm7Packed(octets) ==
    LET Bit(p) == IF (p \div 8) + 1 \in DOMAIN octets
                  THEN Bits(octets[(p \div 8) + 1], 8)[p % 8] ELSE Zero
    IN  [i \in 1..((Len(octets) * 8) \div 7) |->
            DecodeGsm7Basic(NumberOf([c \in Septet |-> Bit(7 * (i - 1) + c)], 7))]

\* Bug: the octets of a character are swapped.
DecodeUcs2Swapped(octets) ==
    [i \in 1..(Len(octets) \div 2) |-> octets[2 * i - 1] + octets[2 * i] * 256]

\* IsHexString and DecodeUcs2.
DecodeUcs2(octets) ==
    [i \in 1..(Len(octets) \div 2) |-> octets[2 * i - 1] * 256 + octets[2 * i]]

\* DecodeUssdRequest: nothing is shown for a payload that it does not understand.
DecodeUssdRequest(request) ==
    CASE request.payload = <<>> -> <<>>
      [] request.payload # <<>> /\ request.dcs = 15 -> DecodeGsm7Packed(request.payload)
      [] request.payload # <<>> /\ request.dcs = 72 -> DecodeUcs2(request.payload)

-----------------------------------------------------------------------------
(* The answer: a line from behind its "+CUSD:" on, as symbols: a number, a *)
(* comma, a quote, a backslash, a blank, or some other letter.             *)

AnswerLetters == {"quote", "backslash", "blank", "a"}
IsNumber(symbol) == symbol \notin AnswerLetters \cup {"comma"}

\* SkipSpaces.
SkipSpaces(line, p) ==
    CHOOSE q \in p..(Len(line) + 1) :
        /\ \A k \in p..(q - 1) : line[k] = "blank"
        /\ q = Len(line) + 1 \/ line[q] # "blank"
At(line, p, symbol) == p <= Len(line) /\ line[p] = symbol

\* The end of the line if the quotes are not closed, and the text so far.
QuotedText(line, p) ==
    LET one(s, symbol) ==
            CASE s.closed -> s
              [] ~s.closed /\ s.escaped -> [s EXCEPT !.escaped = FALSE, !.text = Append(@, symbol), !.next = @ + 1]
              [] ~s.closed /\ ~s.escaped /\ symbol = "quote" -> [s EXCEPT !.closed = TRUE, !.next = @ + 1]
              [] ~s.closed /\ ~s.escaped /\ symbol = "backslash" /\ s.next < Len(line) ->
                    [s EXCEPT !.escaped = TRUE, !.next = @ + 1]
              [] OTHER -> [s EXCEPT !.text = Append(@, symbol), !.next = @ + 1]
    IN  FoldLeft(one, [closed |-> FALSE, escaped |-> FALSE, text |-> <<>>, next |-> p],
                 SubSeq(line, p, Len(line)))

Malformed == [ok |-> FALSE]

\* The third field, behind the text.
ParseDcs(line, p, answer) ==
    LET comma == SkipSpaces(line, p)
        dcs == SkipSpaces(line, comma + 1)
    IN  IF ~At(line, comma, "comma") THEN answer
        ELSE IF dcs <= Len(line) /\ IsNumber(line[dcs]) THEN [answer EXCEPT !.dcs = line[dcs]]
        ELSE Malformed

\* ParseUssdResponse up to the decoding of the text; dcs is "-1" where there is none.
ParseUssdResponse(line) ==
    LET mode == SkipSpaces(line, 1)
        comma == SkipSpaces(line, mode + 1)
        open == SkipSpaces(line, comma + 1)
        text == QuotedText(line, open + 1)
        answer(t) == [ok |-> TRUE, mode |-> line[mode], text |-> t, dcs |-> "-1"]
    IN  CASE mode > Len(line) \/ ~IsNumber(line[mode]) -> Malformed
          [] mode <= Len(line) /\ IsNumber(line[mode]) /\ ~At(line, comma, "comma") -> answer(<<>>)
          [] OTHER ->
                IF ~At(line, open, "quote") THEN ParseDcs(line, open, answer(<<>>))
                ELSE IF ~text.closed THEN Malformed
                ELSE ParseDcs(line, text.next, answer(text.text))

-----------------------------------------------------------------------------
(* Properties.                                                             *)

\* The XML file shows the request that was typed: in UCS-2 exactly; in 7 bits a
\* septet that is no plain character as "?", and one "?" more when seven septets
\* fill the last group, which DecodeGsm7Packed takes for eight.
RequestIsShown(text) ==
    LET shown == DecodeUssdRequest(ParseUssd(text))
        septets == UssdSeptets(text)
        filler == IF Len(septets) % 8 = 7 THEN <<QuestionMark>> ELSE <<>>
    IN  IF Has7Bit(text)
        THEN /\ shown = [i \in DOMAIN septets |-> DecodeGsm7Basic(septets[i])] \o filler
             /\ (\A i \in DOMAIN text : text[i] \in 32..35 \cup 37..63 \cup 65..90 \cup 97..122)
                    => shown = text \o filler
        ELSE shown = text

\* An answer with any text, written as the modem writes it and with quotes and
\* backslashes escaped, is read as it is, and one that the line's end cuts within its
\* text is refused: half an answer is never taken for a whole one.
AnswerIsRead(text) ==
    LET escape(symbol) == IF symbol \in {"quote", "backslash"} THEN <<"backslash", symbol>> ELSE <<symbol>>
        quoted == <<"quote">> \o FlattenSeq([i \in DOMAIN text |-> escape(text[i])]) \o <<"quote">>
        line == <<"blank", "1", "comma">> \o quoted \o <<"comma", "15">>
    IN  /\ ParseUssdResponse(line) = [ok |-> TRUE, mode |-> "1", text |-> text, dcs |-> "15"]
        /\ \A n \in 4..(Len(line) - 3) : ParseUssdResponse(SubSeq(line, 1, n)) = Malformed
        /\ ParseUssdResponse(SubSeq(line, 1, Len(line) - 2)).text = text
        /\ ParseUssdResponse(SubSeq(line, 1, Len(line) - 1)) = Malformed
=============================================================================
