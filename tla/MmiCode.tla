------------------------------ MODULE MmiCode -------------------------------
(***************************************************************************)
(* The two readers of a call-forwarding code: IsMmiCode in sms-send        *)
(* (src/src/SendSMS.cpp), which decides whether the argument becomes an    *)
(* "M" job, and BuildCallForwardCommand in the daemon                      *)
(* (src/src/sms-daemon-mdm.cpp), which turns the job into AT+CCFC.         *)
(*                                                                         *)
(* A code is a sequence of symbols: "*", "#" and runs of digits, of which  *)
(* the ones that name a service stand in ServiceCodes.                     *)
(***************************************************************************)
EXTENDS Inputs, FiniteSetsExt, SequencesExt

ServiceCodes == {"21", "67", "61", "62", "002", "004"}

\* Longest first where one begins with the other: the order of the code's tests.
Openings == {<<"*", "#">>, <<"#", "#">>, <<"#">>, <<"*", "*">>, <<"*">>}

Prefix(code) ==
    CHOOSE p \in {q \in Openings : IsPrefix(q, code)} :
        \A q \in Openings : IsPrefix(q, code) => Len(q) <= Len(p)

\* At least four characters, of which a service code takes two or three.
WellFramed(code) ==
    /\ \E p \in Openings : IsPrefix(p, code)
    /\ Len(code) >= 3
    /\ Last(code) = "#"

Stars(code, from) == {i \in from..Len(code) : code[i] = "*"}

\* find('*', from), with the final '#' standing for npos.
FieldEnd(code, from) ==
    IF Stars(code, from) = {} THEN Len(code) ELSE Min(Stars(code, from))

Field(code, from) == SubSeq(code, from, FieldEnd(code, from) - 1)

-----------------------------------------------------------------------------
(* sms-send.                                                               *)

IsCallForwardServiceCode(field) == field \in {<<s>> : s \in ServiceCodes}

\* Bug: a code with one star needs a second one, as a code with two does.
IsMmiCodeStrict(code) ==
    LET p == Prefix(code)
        from == Len(p) + 1
    IN  /\ WellFramed(code)
        /\ p[1] = "*" /\ Last(p) = "*" => Stars(code, from) # {}
        /\ IsCallForwardServiceCode(
               IF p[1] = "#" \/ Last(p) = "#" THEN SubSeq(code, from, Len(code) - 1)
               ELSE Field(code, from))

\* A code that erases, disables or queries is a service code and nothing else;
\* one that registers needs a star behind it.
IsMmiCode(code) ==
    LET p == Prefix(code)
        from == Len(p) + 1
    IN  /\ WellFramed(code)
        /\ p = <<"*", "*">> => Stars(code, from) # {}
        /\ IsCallForwardServiceCode(
               IF p[1] = "#" \/ Last(p) = "#" THEN SubSeq(code, from, Len(code) - 1)
               ELSE Field(code, from))

-----------------------------------------------------------------------------
(* The daemon.                                                             *)

NoCommand == [mode |-> -1]

CallForwardReason(field) ==
    IF ~IsCallForwardServiceCode(field) THEN -1
    ELSE CASE field[1] = "21" -> 0 [] field[1] = "67" -> 1 [] field[1] = "61" -> 2
           [] field[1] = "62" -> 3 [] field[1] = "002" -> 4 [] field[1] = "004" -> 5

BuildCcfcCommand(field, mode) ==
    IF CallForwardReason(field) < 0 THEN NoCommand
    ELSE [mode |-> mode, reason |-> CallForwardReason(field)]

\* Bug: the two stars before the timeout are taken for one.
TimeoutOneStar(code, end) == SubSeq(code, end + 1, Len(code) - 1)

\* What stands behind the two stars that end the number.
Timeout(code, end) ==
    IF end + 2 < Len(code) /\ code[end + 1] = "*" THEN SubSeq(code, end + 2, Len(code) - 1)
    ELSE <<>>

\* from: where the service code begins.
Register(code, from) ==
    LET service == Field(code, from)
        number == Field(code, FieldEnd(code, from) + 1)
        end == FieldEnd(code, FieldEnd(code, from) + 1)
    IN  IF number = <<>> \/ CallForwardReason(service) < 0 THEN NoCommand
        ELSE [mode    |-> 3,
              reason  |-> CallForwardReason(service),
              number  |-> number,
              timeout |-> IF service = <<"61">> THEN Timeout(code, end) ELSE <<>>]

BuildCallForwardCommand(code) ==
    LET p == Prefix(code)
        from == Len(p) + 1
        rest == SubSeq(code, from, Len(code) - 1)
    IN  IF ~WellFramed(code) THEN NoCommand
        ELSE CASE p = <<"*", "#">> -> BuildCcfcCommand(rest, 2)
               [] p = <<"#", "#">> -> BuildCcfcCommand(rest, 4)
               [] p = <<"#">>      -> BuildCcfcCommand(rest, 0)
               [] OTHER            -> IF Stars(code, from) = {} THEN BuildCcfcCommand(rest, 1)
                                      ELSE Register(code, from)

-----------------------------------------------------------------------------
(* Properties of one code.                                                 *)

\* The fields of a code, as the standard numbers them: service, number, basic
\* service, timer.
Fields(code) ==
    LET from == Len(Prefix(code)) + 1
        cuts == Stars(code, from) \cup {from - 1, Len(code)}
        cut(k) == CHOOSE c \in cuts : Cardinality({d \in cuts : d < c}) = k
    IN  [k \in 1..(Cardinality(cuts) - 1) |-> SubSeq(code, cut(k - 1) + 1, cut(k) - 1)]

Number(code) == IF Len(Fields(code)) < 2 THEN <<>> ELSE Fields(code)[2]

\* The two readers take the same codes for call forwarding, except a code with
\* a star and no number behind it, which sms-send lets pass and the daemon then
\* dials, and two stars without a number, which never become a job.
GrammarsAgree(code) ==
    WellFramed(code) =>
        \/ IsMmiCode(code) <=> BuildCallForwardCommand(code) # NoCommand
        \/ IsMmiCode(code) /\ Len(Fields(code)) > 1 /\ Number(code) = <<>>
        \/ Prefix(code) = <<"*", "*">> /\ Len(Fields(code)) = 1

\* A registration carries the number that was dialled, and the timer when the
\* code has the four fields of the README's example (src/README.md:116).
RegistersWhatWasDialled(code) ==
    LET command == BuildCallForwardCommand(code)
        fields == Fields(code)
    IN  WellFramed(code) /\ command.mode = 3 =>
            /\ Prefix(code) \in {<<"*">>, <<"*", "*">>}
            /\ CallForwardReason(fields[1]) = command.reason
            /\ command.number = fields[2]
            /\ Len(fields) = 4 /\ fields[1] = <<"61">> /\ fields[3] = <<>> =>
                   command.timeout = fields[4]
            /\ Len(fields) < 4 => command.timeout = <<>>

\* What sms-send stores as an "M" job is what the daemon turns into AT+CCFC, which
\* registers the number and the timer that were dialled.
CodesAreTranslated ==
    Of("code") => GrammarsAgree(input.data) /\ RegistersWhatWasDialled(input.data)
=============================================================================
