--------------------------- MODULE AnswerMatcher ----------------------------
(***************************************************************************)
(* The matcher inside CSerial::SendExpect (src/src/serial.cpp): one        *)
(* counter per sample, fed with one received character at a time.          *)
(***************************************************************************)
EXTENDS Naturals, Sequences

CONSTANTS
    Samples,     \* the answers waited for, in the order of the array
    Characters,
    LineFeed,    \* the character between an answer and what came before
    Nul,         \* '\0', which ends no sample
    MaxText      \* bound: characters one call receives

\* As those of src/src/sms-daemon-mdm.cpp: an answer is named from its first letter on.
ASSUME SamplesAssumption ==
    /\ Samples \in Seq(Seq(Characters) \ {<<>>}) /\ MaxText \in Nat
    /\ LineFeed \in Characters /\ Nul \in Characters
    /\ \A i \in DOMAIN Samples : \A k \in DOMAIN Samples[i] : Samples[i][k] \notin {LineFeed, Nul}

VARIABLES
    cnttable,  \* how much of each sample has been met
    rtn,       \* the sample that matched, 0 for none
    text       \* what the call has received

matcherVars == <<cnttable, rtn, text>>

Unmatched == [i \in DOMAIN Samples |-> 0]

MInit == cnttable = Unmatched /\ rtn = 0 /\ text = <<>>

\* Bug: after a mismatch the sample's first character is not looked for any more.
CounterStuck(i, count, chr) ==
    IF count < Len(Samples[i]) /\ chr = Samples[i][count + 1] THEN count + 1 ELSE Len(Samples[i]) + 1

\* cnttable[i] after chr.
Counter(i, count, chr) == IF chr = Samples[i][count + 1] THEN count + 1 ELSE 0

\* The samples that the last character completed.
Full(table) == {i \in DOMAIN Samples : table[i] = Len(Samples[i])}

\* One round of the main loop.  The counters behind the sample that matched are
\* not fed, and not used any more.
Receive(chr) ==
    /\ rtn = 0 /\ Len(text) < MaxText
    /\ text' = Append(text, chr)
    /\ cnttable' = [i \in DOMAIN Samples |-> Counter(i, cnttable[i], chr)]
    /\ \/ Full(cnttable') = {} /\ rtn' = 0
       \/ rtn' \in Full(cnttable') /\ \A i \in Full(cnttable') : rtn' <= i

\* The next call, after a match or when the time is over; ClearRX discards the rest.
CallAnew ==
    /\ text # <<>>
    /\ cnttable' = Unmatched /\ rtn' = 0 /\ text' = <<>>

MNext == CallAnew \/ \E chr \in Characters : Receive(chr)

MSpec == MInit /\ [][MNext]_matcherVars

-----------------------------------------------------------------------------
(* Property.                                                               *)

\* s ends what is received, or its first n characters do.
EndsWith(s, n) ==
    n <= Len(text) /\ \A k \in 1..n : text[Len(text) - n + k] = s[k]

\* A sample is reported only when the text received ends with it; and one that
\* stands on a line of its own is never missed, whatever came before it.
AnswersAreHeard ==
    /\ rtn > 0 => rtn \in DOMAIN Samples /\ EndsWith(Samples[rtn], Len(Samples[rtn]))
    /\ \A i \in DOMAIN Samples :
        LET n == Len(Samples[i])
        IN  EndsWith(Samples[i], n) /\ (Len(text) > n => text[Len(text) - n] = LineFeed)
                => rtn > 0
=============================================================================
