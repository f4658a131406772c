----------------------------- MODULE SerialLine -----------------------------
(***************************************************************************)
(* The writing and the waiting of SendExpect (src/src/serial.cpp,          *)
(* src/src/rsserial.cpp): PutBlock writes a command in parts, GetChar      *)
(* waits for the answer, both until one deadline on a clock that wraps.    *)
(*                                                                         *)
(* A round is one pass of PutBlock's loop or of GetChar's.  Octet i of     *)
(* command k is <<k, i>>; the last one is the carriage return, at which    *)
(* the modem executes what it has.                                         *)
(***************************************************************************)
EXTENDS Naturals, Sequences

CONSTANTS
    ClockWord,    \* the clock counts modulo ClockWord (2^32 or 2^64)
    TestBit,      \* CheckTimeout tests this bit of the difference (2^31)
    Patience,     \* the timeout of the call
    CommandSize,
    MaxCommands,  \* bounds: commands,
    MaxElapsed    \* and the time a call takes

\* SetTimeout takes no timeout of 2^24 and more, which keeps it below TestBit.
ASSUME SerialLineAssumption ==
    /\ TestBit \in Nat \ {0} /\ Patience \in Nat /\ Patience < TestBit
    /\ ClockWord \in Nat \ {0} /\ ClockWord % (2 * TestBit) = 0
    /\ CommandSize \in Nat \ {0} /\ MaxCommands \in Nat /\ MaxElapsed \in Nat

VARIABLES
    phase,     \* "idle", or in PutBlock ("write") or GetChar ("read")
    now,       \* GetTOTime
    due,       \* m_SendTimeout, from which m_RecvTimeout is taken
    sent,      \* how much of the command PutBlock has written
    line,      \* all that the modem has been sent
    results,   \* what PutBlock returned for every command
    returned,  \* what SendExpect returned last
    elapsed,   \* (history) the time since SetTimeout, on a clock that does not wrap
    event      \* (history) what the last round met

lineVars == <<phase, now, due, sent, line, results, returned, elapsed, event>>

Results == {"SERIAL_ERR_OK", "SERIAL_ERR_TIMEOUT", "SERIAL_ERR_GENERAL"}

\* "none": the line is not ready; "some": a part is written, a character read;
\* "last": the rest is written, the answer complete.
Events == {"begin", "none", "some", "last", "error"}

SInit ==
    /\ phase = "idle" /\ now \in 0..(ClockWord - 1) /\ due = 0 /\ sent = 0
    /\ line = <<>> /\ results = <<>>
    /\ returned = "rtn" /\ elapsed = 0 /\ event = "begin"

-----------------------------------------------------------------------------
(* The clock.                                                              *)

\* SetTimeout: the deadline.
Due(time) == (time + Patience) % ClockWord

\* Bug: the clock is compared as if it did not wrap.
PastUnwrapped(time) == time >= due

\* CheckTimeout.
Past(time) == (((time + ClockWord - due) % ClockWord) \div TestBit) % 2 = 0

TimePasses ==
    \E t \in 0..(MaxElapsed - elapsed) :
        now' = (now + t) % ClockWord /\ elapsed' = elapsed + t

-----------------------------------------------------------------------------
(* PutBlock.                                                               *)

Returns(result) ==
    /\ phase' = "idle"
    /\ returned' = result

\* Where the line was not ready, the loop ends if the time is over.
CheckTime ==
    IF Past(now') THEN Returns("SERIAL_ERR_TIMEOUT") ELSE UNCHANGED <<phase, returned>>

\* SetTimeout; what ClearRX takes counts to the first round.
Call ==
    /\ phase = "idle" /\ Len(results) < MaxCommands
    /\ \E time \in 0..(ClockWord - 1) : now' = time /\ due' = Due(time)
    /\ phase' = "write" /\ sent' = 0 /\ elapsed' = 0 /\ event' = "begin"
    /\ UNCHANGED <<line, results, returned>>

\* Bug: what has been written is written again.
NextOctetsAgain(n) == [i \in 1..n |-> <<Len(results) + 1, i>>]

NextOctets(n) == [i \in 1..n |-> <<Len(results) + 1, sent + i>>]

\* write() takes n octets, 0 also where select() or EAGAIN finds no room.
WritePart ==
    /\ phase = "write" /\ TimePasses
    /\ \E n \in 0..(CommandSize - sent - 1) :
        /\ line' = line \o NextOctets(n)
        /\ sent' = sent + n
        /\ event' = IF n = 0 THEN "none" ELSE "some"
    /\ CheckTime
    /\ results' = IF Past(now') THEN Append(results, "SERIAL_ERR_TIMEOUT") ELSE results
    /\ due' = due

\* Bug: reading gets the whole timeout again.
ReadingIsDueAnew == Due(now')

\* m_RecvTimeout = m_SendTimeout.
ReadingIsDue == due

WriteRest ==
    /\ phase = "write" /\ TimePasses
    /\ line' = line \o NextOctets(CommandSize - sent)
    /\ sent' = CommandSize
    /\ results' = Append(results, "SERIAL_ERR_OK")
    /\ phase' = "read" /\ due' = ReadingIsDue
    /\ event' = "last"
    /\ UNCHANGED returned

WriteFails ==
    /\ phase = "write" /\ TimePasses
    /\ results' = Append(results, "SERIAL_ERR_GENERAL")
    /\ Returns("SERIAL_ERR_GENERAL")
    /\ event' = "error"
    /\ UNCHANGED <<due, sent, line>>

-----------------------------------------------------------------------------
(* GetChar, which looks at the time only when there is no character.       *)

ReadChar ==
    /\ phase = "read" /\ TimePasses
    /\ \/ event' = "some" /\ UNCHANGED <<phase, returned>>
       \/ event' = "last" /\ Returns("rtn")
    /\ UNCHANGED <<due, sent, line, results>>

ReadNothing ==
    /\ phase = "read" /\ TimePasses
    /\ event' = "none"
    /\ CheckTime
    /\ UNCHANGED <<due, sent, line, results>>

ReadFails ==
    /\ phase = "read" /\ TimePasses
    /\ event' = "error"
    /\ Returns("SERIAL_ERR_GENERAL")
    /\ UNCHANGED <<due, sent, line, results>>

SNext ==
    \/ Call \/ WritePart \/ WriteRest \/ WriteFails
    \/ ReadChar \/ ReadNothing \/ ReadFails

SSpec == SInit /\ [][SNext]_lineVars

-----------------------------------------------------------------------------
(* Properties.                                                             *)

\* Wherever the clock stands, SendExpect gives up only after the whole timeout, and
\* goes on behind it only with a modem that has just taken the end of the command or
\* sent a character (as long as the call has not lasted 2^31 ms: there CheckTimeout's
\* difference changes its sign).
TimeoutsAreKept ==
    /\ phase = "idle" /\ returned = "SERIAL_ERR_TIMEOUT" => elapsed >= Patience
    /\ phase # "idle" /\ event # "begin" /\ elapsed \in Patience..(Patience + TestBit - 1)
        => phase = "read" /\ event \in {"some", "last"}

\* The places of the carriage returns, and whether place p is in the line that ends at e.
LineEnds == {p \in DOMAIN line : line[p][2] = CommandSize}
IsInLine(p, e) == \A q \in p..(e - 1) : q \notin LineEnds

\* The modem executes a command exactly when PutBlock reports that it was written,
\* and once; what it executes is that command alone, unless the ones before it
\* failed in part: then their first octets stand in front, and a cut command spoils
\* no more than the next one that is written whole.
CommandsArriveUnlessCut ==
    LET whole == {k \in DOMAIN results : results[k] = "SERIAL_ERR_OK"}
    IN  /\ {line[e][1] : e \in LineEnds} = whole
        /\ \A d, e \in LineEnds : line[d][1] = line[e][1] => d = e
        /\ \A e \in LineEnds :
            LET k == line[e][1]
            IN  /\ \A i \in 1..CommandSize : e - CommandSize + i \in DOMAIN line
                                             /\ line[e - CommandSize + i] = <<k, i>>
                /\ \A p \in 1..(e - CommandSize) : IsInLine(p, e) =>
                    line[p][1] < k /\ whole \cap (line[p][1]..(k - 1)) = {}
=============================================================================
