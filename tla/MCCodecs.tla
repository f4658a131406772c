------------------------------ MODULE MCCodecs ------------------------------
(***************************************************************************)
(* All inputs of the pure algorithms up to a bound (Inputs).  Four kinds   *)
(* are of programs that keep a state and take their own steps: "text" of a *)
(* text on its way (SmsText), "port" and "line" of the two halves of       *)
(* SendExpect (SerialLine, AnswerMatcher), "commands" of sms-cmd.sh        *)
(* (CommandTable).                                                         *)
(***************************************************************************)
EXTENDS MmiCode, SmsText, AnswerMatcher, StartUp, Envelope, UssdText,
        CommandTable, SerialLine

Xml == INSTANCE XmlReader

-----------------------------------------------------------------------------
(* Small stand-ins for the constants, with the same order.                 *)

\* 160, 140, 70 and 7, 6, 3.
SmallMaxTextLen == [pdu7 |-> 5, pdu8 |-> 4, pdu16 |-> 3]
SmallUdhLen == [pdu7 |-> 2, pdu8 |-> 1, pdu16 |-> 1]
SmallSamples == << <<"O", "K", "cr">>, <<"E", "R", "cr">> >>
SmallAccess == [user |-> 1, admin |-> 3, blocked |-> 0, malformed |-> 3]

-----------------------------------------------------------------------------
(* The symbols of every kind and how many of them.                         *)

\* The code is the place in the text: no two characters of a text are equal. The first
\* ones are of all tables, and at 16 characters two may have an escape in 7 bits.
SmallCharactersAt(n) ==
    LET tables == CASE n <= 4 -> Tables
                    [] n \in {5, 6, 9, 16} -> {"basic", "extension"}
                    [] OTHER -> {"basic"}
    IN  {[table |-> t, code |-> n] : t \in tables}

\* Fillers, both forms of a numbering, one of a wrong length, and a filler that
\* holds what looks like a numbering; their octets are told apart by their place.
Elements(place) ==
    LET n == 10 * place
    IN  {[id |-> 5, octets |-> <<n>>], [id |-> 5, octets |-> <<>>],
         [id |-> 0, octets |-> <<n, n + 1, n + 2>>], [id |-> 8, octets |-> <<n, n + 1, n + 2, n + 3>>],
         [id |-> 0, octets |-> <<n, n + 1>>], [id |-> 5, octets |-> <<0, 3, 7, 2, 1>>]}

SmallSymbols(kind, place) ==
    CASE kind = "code" -> {"*", "#", "21", "61"}
      [] kind = "septets" -> {"septet"}
      [] kind = "config" -> Lines
      [] kind = "header" -> Elements(place)
      \* One character of each length in UTF-8, and the first and the last of a length.
      [] kind = "letters" -> {65, 127, 128, 2047, 2048, 8364, 65535}
      \* Plain, shown as another septet, of two septets, and in no table.
      [] kind = "ussd" -> {42, 36, 91, 8364}
      [] kind = "answer" -> AnswerLetters
      [] kind = "phone" -> {1, 2, Plus, Other}
      [] kind = "arguments" -> ArgumentWords
      [] kind = "log" -> {"digit", "a", "blank", "lf"}
      [] kind = "document" -> {"a", "ml", "&", "<", ">", "quote", "apos", "/", "=", "?", " ", "nl"}
      [] OTHER -> {}

SmallMost ==
    [code |-> 9, septets |-> 20, config |-> 3, header |-> 5, letters |-> 3, ussd |-> 7,
     answer |-> 5, phone |-> 4, arguments |-> 5, log |-> 7, document |-> 2,
     text |-> 0, port |-> 0, line |-> 0, commands |-> 0]

-----------------------------------------------------------------------------

stateVars == <<textVars, lineVars, matcherVars, commandVars>>

CInit ==
    /\ IInit /\ TextInit
    /\ SInit /\ (now = 0 \/ Of("port"))
    /\ TInit /\ (<<sender, command>> = <<"user", Blank>> \/ Of("commands"))
    /\ MInit

InputMoves == INext /\ UNCHANGED stateVars

TextMoves == Of("text") /\ TextNext /\ UNCHANGED <<input, lineVars, matcherVars, commandVars>>

\* After MaxCommands, with a modem that has executed all it was sent.
LineStartsOver ==
    /\ phase = "idle" /\ Len(results) = MaxCommands
    /\ sent' = 0 /\ line' = <<>> /\ results' = <<>>
    /\ UNCHANGED <<phase, now, due, returned, elapsed, event>>

LineMoves ==
    Of("port") /\ (SNext \/ LineStartsOver) /\ UNCHANGED <<input, textVars, matcherVars, commandVars>>

MatcherMoves == Of("line") /\ MNext /\ UNCHANGED <<input, textVars, lineVars, commandVars>>

ScriptMoves == Of("commands") /\ TNext /\ UNCHANGED <<input, textVars, lineVars, matcherVars>>

CNext == InputMoves \/ TextMoves \/ LineMoves \/ MatcherMoves \/ ScriptMoves

CSpec == CInit /\ [][CNext]_<<input, stateVars>>

-----------------------------------------------------------------------------
(* Properties.                                                             *)

\* A character survives the 7-bit tables, UTF-8 and the packing of a USSD request, and
\* a "+CUSD:" line is read whole or not at all.
CharactersSurvive ==
    /\ Of("letters") => SurvivesUTF8(input.data)
    /\ Of("letters") /\ input.data = <<>> => \A c \in 0..255 : SurvivesTables(c)
    /\ Of("ussd") => RequestIsShown(input.data)
    /\ Of("answer") => AnswerIsRead(input.data)

\* The XML file of an SMS or of an answer is read back as it was built, whatever its
\* text, and half a file is not taken for a whole one.
DocumentsReadBack ==
    /\ Of("document") => Xml!ReadsBack(input.data)
    /\ Of("document") /\ Len(input.data) <= 1 => Xml!HalfIsNoticed(input.data)
=============================================================================
