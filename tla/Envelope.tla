------------------------------ MODULE Envelope ------------------------------
(***************************************************************************)
(* What stands around the text of an SMS: the header that                  *)
(* MakeSmsSubmitHeader of src/src/PduSMS.cpp writes, and the addresses and *)
(* the time stamp that ProcessRecvPDU of src/src/RecvSMS.cpp reads before  *)
(* the user data.  A PDU is a sequence of hexadecimal digits, as numbers.  *)
(***************************************************************************)
EXTENDS Inputs, PartHeader

\* The characters of a phone number as the user writes it: 0..9, and two more.
Plus == 10
Other == 11
Filler == 15

ASSUME EnvelopeAssumption ==
    /\ "phone" \in DOMAIN Most => \A n \in 1..Most["phone"] : Symbols("phone", n) \subseteq 0..Other
    /\ "header" \in DOMAIN Most =>
        \A n \in 1..Most["header"] : Symbols("header", n) \subseteq HeaderElements

Digits(octet) == <<octet \div 16, octet % 16>>
Flag(bit, set) == IF set THEN bit ELSE 0

\* The other digit of the same octet.
Swapped(i) == IF i % 2 = 1 THEN i + 1 ELSE i - 1

-----------------------------------------------------------------------------
(* Sending.                                                                *)

\* ClearPhoneNo: the digits behind an optional "+", up to another character.
ClearPhoneNo(text) ==
    LET s == IF text # <<>> /\ Head(text) = Plus THEN Tail(text) ELSE text
        n == CHOOSE k \in 0..Len(s) : (\A i \in 1..k : s[i] < 10) /\ (k = Len(s) \/ s[k + 1] >= 10)
    IN  SubSeq(s, 1, n)

\* Bug: a number of odd length is not filled up.
EncodeHexDecShort(text) ==
    [i \in 1..(2 * (Len(text) \div 2)) |-> text[Swapped(i)]]

\* EncodeHexDec: the digits of every octet swapped.
EncodeHexDec(text) ==
    LET s == IF Len(text) % 2 = 1 THEN Append(text, Filler) ELSE text
    IN  [i \in DOMAIN s |-> s[Swapped(i)]]

DcsOf == [pdu7 |-> 0, pdu8 |-> 4, pdu16 |-> 8]

\* MakeSmsSubmitHeader; sms holds the fields of COutPduSms.
MakeSmsSubmitHeader(sms, hasUdh, scheme) ==
    LET phoneNo == ClearPhoneNo(sms.phone)
        nSmsSubmit == 1 + Flag(64, hasUdh) + Flag(32, sms.rrq) + Flag(16, sms.ttl > 0)
        type == IF sms.phone # <<>> /\ Head(sms.phone) = Plus THEN 145 ELSE 129
    IN  Digits(0) \o Digits(nSmsSubmit) \o Digits(0) \o Digits(Len(phoneNo)) \o Digits(type)
        \o EncodeHexDec(phoneNo) \o Digits(0) \o Digits(DcsOf[scheme] + Flag(16, sms.flash))
        \o (IF sms.ttl > 0 THEN Digits(sms.ttl % 256) ELSE <<>>)

-----------------------------------------------------------------------------
(* Receiving.                                                              *)

\* A line ends with a NUL.  What lies behind that is not the line's memory.
Unowned(s, p) == p > Len(s) + 1

\* GetInt, for a place that is not behind the NUL: -1 unless two digits stand there.
GetInt(s, p) == IF p + 1 <= Len(s) THEN 16 * s[p] + s[p + 1] ELSE -1

\* An error is returned; or memory that is not the line's is read, and what follows
\* from it is not said here.
NotRead == [ok |-> FALSE, beyond |-> FALSE]
Beyond == [ok |-> FALSE, beyond |-> TRUE]

\* GetPhone's loop, over n octets: of each the low digit, then the high one, which may
\* be a filler.
ReadDigits(s, p, n) ==
    LET number[k \in 0..n] ==
            IF k = 0 THEN <<>>
            ELSE LET high == s[p + 2 * k - 2]
                 IN  number[k - 1] \o IF high = Filler THEN <<s[p + 2 * k - 1]>> ELSE <<s[p + 2 * k - 1], high>>
    IN  number

ReadNumber(s, p, size) == ReadDigits(s, p, size \div 2)[size \div 2]

\* GetPhone: the address at p and the place behind it; of an alphanumeric one, how
\* many characters decode7bit is asked for.  A first octet that is not there is not
\* noticed, since phoneSZ < 0 is never true of a size_t: the type is read at the next
\* place all the same.  An alphanumeric address is not tested against the line's end.
GetPhone(s, p, isSMSC) ==
    LET first == GetInt(s, p)
        size == IF isSMSC THEN (first - 1) * 2 ELSE first
        type == GetInt(s, p + 2)
        class == (type \div 16) % 8
        padding == size % 2
    IN  CASE first = 0 -> [ok |-> TRUE, next |-> p + 2, plus |-> FALSE, number |-> <<>>]
          [] first # 0 /\ Unowned(s, p + 2) -> Beyond
          [] first # 0 /\ ~Unowned(s, p + 2) /\ type < 0 -> NotRead
          [] first # 0 /\ ~Unowned(s, p + 2) /\ type >= 0 /\ class = 5 ->
                [ok |-> TRUE, next |-> p + 4 + size + padding, characters |-> (size * 4) \div 7]
          [] OTHER ->
                IF Len(s) - (p + 3) < size + 2 * padding THEN NotRead
                ELSE [ok |-> TRUE, next |-> p + 4 + size + padding, plus |-> class = 1,
                      number |-> ReadNumber(s, p + 4, size + padding)]

\* Bug: the sign is a part of the number.
ZoneSigned(octet) == [negative |-> (octet \div 8) % 2 = 1, quarters |-> (octet \div 16) + (octet % 16) * 10]

\* GetTimeStamp's time zone: tens below, units above, but only three bits of them.
Zone(octet) ==
    [negative |-> (octet \div 8) % 2 = 1, quarters |-> ((octet \div 16) % 8) + (octet % 8) * 10]

\* GetTimeStamp: six numbers of two digits, the digits swapped, and the time zone.
GetTimeStamp(s, p) ==
    [date |-> [k \in 1..6 |-> <<s[p + 2 * k - 1], s[p + 2 * k - 2]>>], zone |-> Zone(GetInt(s, p + 12))]

\* ProcessRecvPDU up to the user data.
ReadEnvelope(s) ==
    LET smsc == GetPhone(s, 1, TRUE)
        from == GetPhone(s, smsc.next + 2, FALSE)
        p == from.next
    IN  IF ~smsc.ok THEN smsc
        ELSE IF Unowned(s, smsc.next) THEN Beyond
        ELSE IF GetInt(s, smsc.next) < 0 THEN NotRead
        ELSE IF ~from.ok THEN from
        ELSE IF Unowned(s, p) THEN Beyond
        ELSE IF GetInt(s, p) < 0 \/ GetInt(s, p + 2) < 0 \/ Len(s) - (p + 3) < 14 THEN NotRead
        ELSE IF GetInt(s, p + 18) < 0 THEN NotRead
        ELSE [ok |-> TRUE, smsc |-> smsc, deliver |-> GetInt(s, smsc.next), from |-> from,
              dcs |-> GetInt(s, p + 2), time |-> GetTimeStamp(s, p + 4),
              udl |-> GetInt(s, p + 18), userData |-> p + 20]

-----------------------------------------------------------------------------
(* Properties.                                                             *)

\* GSM 03.40's reader of the header that was written for a phone.
StandardSubmit(s) ==
    LET first == GetInt(s, 3)
        n == GetInt(s, 7)
        size == n + (n % 2)
        digits == [i \in 1..size |-> s[10 + Swapped(i)]]
        p == 11 + size
    IN  [number |-> SubSeq(digits, 1, n), fill |-> SubSeq(digits, n + 1, size),
         plus |-> GetInt(s, 9) = 145,
         udh |-> (first \div 64) % 2 = 1, rrq |-> (first \div 32) % 2 = 1,
         scheme |-> (GetInt(s, p + 2) \div 4) % 4, flash |-> (GetInt(s, p + 2) \div 16) % 2 = 1,
         ttl |-> IF (first \div 16) % 2 = 1 THEN GetInt(s, p + 4) ELSE 0,
         rest |-> Len(s) - (p + IF (first \div 16) % 2 = 1 THEN 5 ELSE 3)]

\* A network that reads the header by the standard finds the number, its kind and
\* every option where it looks for them, whatever the number's length and options.
SubmitIsUnderstood(phone) ==
    \A hasUdh, rrq, flash \in BOOLEAN, ttl \in {0, 170}, scheme \in DOMAIN DcsOf :
        LET sms == [phone |-> phone, rrq |-> rrq, flash |-> flash, ttl |-> ttl]
            number == ClearPhoneNo(phone)
        IN  StandardSubmit(MakeSmsSubmitHeader(sms, hasUdh, scheme)) =
                [number |-> number, fill |-> IF Len(number) % 2 = 1 THEN <<Filler>> ELSE <<>>,
                 plus |-> phone # <<>> /\ phone[1] = Plus, udh |-> hasUdh, rrq |-> rrq,
                 scheme |-> DcsOf[scheme] \div 4, flash |-> flash, ttl |-> ttl, rest |-> 0]

\* An address by the standard: a number, or n characters of seven bits.
StandardNumber(number, type) == Digits(Len(number)) \o Digits(type) \o EncodeHexDec(number)
StandardName(n) ==
    Digits((7 * n + 3) \div 4) \o Digits(208) \o [i \in 1..(2 * ((7 * n + 7) \div 8)) |-> 9]
StandardSmsc(number) ==
    IF number = <<>> THEN Digits(0)
    ELSE Digits(1 + ((Len(number) + 1) \div 2)) \o Digits(145) \o EncodeHexDec(number)

\* A delivered SMS that is written by the standard is read as it was written, whether
\* its sender is a number of any length or a name, and whichever center it came
\* through; only the time zone's units lose their highest bit (src/src/RecvSMS.cpp:268),
\* so that UTC+2 is shown as UTC+0.  Of a line that ends before the user data an error is
\* returned, but for two places: where the first octet of an address should be, and
\* within a sender's name, the code goes on to read behind the line's end
\* (src/src/RecvSMS.cpp:195, whose test is never true, and 213, which has none).
DeliverIsRead(digits) ==
    LET smsc == ClearPhoneNo(digits)
        number == IF smsc = <<>> THEN <<1>> ELSE smsc
        date == <<6, 2, 1, 1, 0, 3, 4, 1, 5, 9, 2, 6>>
        Pdu(from, octet) == StandardSmsc(smsc) \o Digits(4) \o from \o Digits(0) \o Digits(8)
                            \o EncodeHexDec(date) \o Digits(octet) \o Digits(2) \o <<0, 4, 1>>
        \* How many digits there are up to the first one of the address from.
        center == Len(StandardSmsc(smsc)) + 2
        EndsAsSaid(from, untested) ==
            LET s == Pdu(from, 0)
                end == Len(s) - 3
            IN  /\ ReadEnvelope(s).userData = end + 1
                /\ \A k \in 0..(end - 1) :
                    ReadEnvelope(SubSeq(s, 1, k)) =
                        IF k \in {0, 1} \/ k - center \in untested THEN Beyond ELSE NotRead
    IN  /\ \A type \in {129, 145} :
            LET from == StandardNumber(number, type)
                e == ReadEnvelope(Pdu(from, 0))
            IN  /\ e.ok /\ e.smsc.number = smsc /\ e.deliver = 4 /\ e.dcs = 8 /\ e.udl = 2
                /\ e.from.number = number /\ e.from.plus = (type = 145)
                /\ e.time.date = [k \in 1..6 |-> <<date[2 * k - 1], date[2 * k]>>]
                /\ EndsAsSaid(from, {0, 1})
        /\ \A n \in 1..11 :
            LET from == StandardName(n)
                e == ReadEnvelope(Pdu(from, 0))
            IN  /\ e.ok /\ e.from.characters = n /\ e.dcs = 8 /\ e.udl = 2
                /\ EndsAsSaid(from, {0, 1} \cup 4..(Len(from) - 1))
        /\ \A tens \in 0..7, units \in 0..9, negative \in BOOLEAN :
            Zone(units * 16 + Flag(8, negative) + tens) =
                [negative |-> negative,
                 quarters |-> tens * 10 + IF units >= 8 THEN units - 8 ELSE units]

\* The addresses, options and times around a text are written and read as GSM 03.40
\* says, and ProcessRecvPDU takes the part numbers of the last numbering element,
\* wherever that stands in the header.  A header whose length ends
\* within its last element is refused; DeliverIsRead says which lines that end before
\* the user data are refused and which are not.
EnvelopesAreRead ==
    /\ Of("phone") => SubmitIsUnderstood(input.data) /\ DeliverIsRead(input.data)
    /\ Of("header") => ReadToTheLast(input.data) /\ CutIsRefused(input.data)
=============================================================================
