---------------------------- MODULE UssdSession -----------------------------
(***************************************************************************)
(* How answers of the network to USSD requests get from the serial line to *)
(* the callbacks (src/src/sms-daemon-mdm.cpp: DoProcessModemInput,         *)
(* ProcessModemInput, GetSmsBlockFromModem, DelSms, SendUssd, SendSmsPart, *)
(* SendMmi; src/src/Ussd.cpp: ParseUssdResponse).                          *)
(*                                                                         *)
(* A line "+CUSD: ..." has two fragments, because the daemon may read when *)
(* only a part of it has come: the head ends anywhere in the line, the     *)
(* tail ends with the line feed.  Every command the daemon sends, to list  *)
(* and erase the messages of the SIM card as well as to carry out a job,   *)
(* discards what has come before it, and looks for one "+CUSD:" among what *)
(* comes with its own answer.                                              *)
(***************************************************************************)
EXTENDS Naturals, Sequences, SequencesExt

CONSTANTS
    Requests,     \* the USSD jobs
    Codes,        \* the call-forwarding jobs
    NoRequest     \* m_LastUssdRequest before the first request

ASSUME RequestAssumption == NoRequest \notin Requests \cup Codes /\ Requests \cap Codes = {}

VARIABLES
    pc,           \* where the main loop is
    wire,         \* fragments sent by the modem and not yet read, in order
    buffer,       \* m_ModemInputBuffer: fragments of a line that has not ended
    last,         \* m_LastUssdRequest
    pending,      \* requests the network has still to answer
    sent,         \* jobs carried out
    \* History, read by no action:
    emitted,      \* responses given to the callbacks: [of, request, whole]
    times,        \* times[q]: responses given to the callbacks that began with q's line
    lost,         \* requests whose answer was discarded, wholly or in part, or
                  \* read as one line with a piece of another
    open          \* open[r]: requests without an answer read when r was sent

uvars == <<pc, wire, buffer, last, pending, sent, emitted, times, lost, open>>
history == <<emitted, times, lost, open>>

-----------------------------------------------------------------------------

Fragments == [of : Requests, part : {"head", "tail"}]
LineOf(q) == <<[of |-> q, part |-> "head"], [of |-> q, part |-> "tail"]>>

Named(fragments) == {fragments[i].of : i \in DOMAIN fragments}
Rest(n) == SubSeq(wire, n + 1, Len(wire))
Come(n) == SubSeq(wire, 1, n)

\* The head at i is followed by its own tail.
WholeAt(text, i) == i < Len(text) /\ text[i + 1] = [of |-> text[i].of, part |-> "tail"]

\* ParseUssdResponse: the first "+CUSD:" counts.  A head without its tail may end
\* before the marker is complete (the next one is taken), in the middle of the
\* quoted text (refused, unless a quote of the next line closes it), in a number
\* (refused, or read in part) or behind everything that counts.  The results that are possible:
\* the line taken, and whether it is what the modem wrote.
ParseUssdResponse(text) ==
    LET heads == {i \in DOMAIN text : text[i].part = "head"}
        taken == {i \in heads : \A j \in heads : j < i => ~WholeAt(text, j)}
        cut == {i \in taken : ~WholeAt(text, i)}
    IN  {[of |-> text[i].of, whole |-> TRUE] : i \in taken \ (cut \ {Len(text)})}
        \cup {[of |-> text[i].of, whole |-> FALSE] : i \in cut}

\* What ProcessModemInput may do with text: emit one response, or nothing unless
\* the first line in it is whole.
Outcomes(text) ==
    LET heads == {i \in DOMAIN text : text[i].part = "head"}
        certain == \E i \in heads : WholeAt(text, i) /\ \A j \in heads : i <= j
    IN  {{x} : x \in ParseUssdResponse(text)} \cup (IF certain THEN {} ELSE {{}})

Response(x, request) == [of |-> x.of, request |-> request, whole |-> x.whole]

\* EmitUssdResponse, for a set of at most one result.
Emit(results, request) ==
    /\ emitted' = emitted \cup {Response(x, request) : x \in results}
    /\ times' = [q \in Requests |-> times[q] + (IF \E x \in results : x.of = q THEN 1 ELSE 0)]

\* Everything named in text that was not emitted as it was sent.
Unheard(text, results) == Named(text) \ {x.of : x \in {r \in results : r.whole}}

-----------------------------------------------------------------------------

UInit ==
    /\ pc = "input"
    /\ wire = <<>>
    /\ buffer = <<>>
    /\ last = NoRequest
    /\ pending = {}
    /\ sent = {}
    /\ emitted = {}
    /\ times = [q \in Requests |-> 0]
    /\ lost = {}
    /\ open = [r \in Requests \cup Codes |-> {}]

\* The network answers when it likes; the modem writes the line at once.
NetworkAnswers(q) ==
    /\ q \in pending
    /\ pending' = pending \ {q}
    /\ wire' = wire \o LineOf(q)
    /\ UNCHANGED <<pc, buffer, last, sent, history>>

\* DoProcessModemInput, first loop: what has come is appended to the buffer.
ReadInput ==
    /\ pc = "input"
    /\ \E n \in 0..Len(wire) : buffer' = buffer \o Come(n) /\ wire' = Rest(n)
    /\ pc' = "lines"
    /\ UNCHANGED <<last, pending, sent, history>>

\* Bug: what has come is a line, with or without a line feed.
AnyEnd == Len(buffer)

\* The position of the first line feed in the buffer, 0 if there is none.
FirstEnd ==
    LET ends == {i \in DOMAIN buffer : buffer[i].part = "tail"}
    IN  IF ends = {} THEN 0 ELSE CHOOSE i \in ends : \A j \in ends : i <= j

\* Bug: only the line feed is erased, not the line.
KeepHead(n) == <<buffer[1]>> \o SubSeq(buffer, n + 1, Len(buffer))

\* What is left when the first line is erased.
AfterLine(n) == SubSeq(buffer, n + 1, Len(buffer))

\* Second loop: one line, with the head that an earlier reading may have left.
ProcessLine ==
    /\ pc = "lines"
    /\ FirstEnd > 0
    /\ LET line == SubSeq(buffer, 1, FirstEnd)
       IN  \E results \in Outcomes(line) :
            /\ Emit(results, last)
            /\ lost' = lost \cup (IF Len(line) > 2 THEN Unheard(line, results) ELSE {})
    /\ buffer' = AfterLine(FirstEnd)
    /\ UNCHANGED <<pc, wire, last, pending, sent, open>>

LinesEnd ==
    /\ pc = "lines"
    /\ FirstEnd = 0
    /\ pc' = "inbox"
    /\ UNCHANGED <<wire, buffer, last, pending, sent, history>>

\* The beginning of SendExpect, in every command: what has come is discarded.
ClearRX == \E n \in 0..Len(wire) : wire' = Rest(n) /\ lost' = lost \cup Named(Come(n))

\* A command of DoProcessInSmsBlock: AT+CMGL first; AT+CMGR for each index when it
\* is refused; at+cmgd for each message.
InboxCommand ==
    /\ pc \in {"inbox", "more"}
    /\ ClearRX
    /\ pc' = "inboxlog"
    /\ UNCHANGED <<buffer, last, pending, sent, emitted, times, open>>

\* The end of SendExpect, and ProcessModemInput(log): one response is looked for in
\* the log.  The log is an array, and keeps the beginning of what comes when it is
\* full.
HearLog ==
    \E n \in 0..Len(wire) :
        /\ wire' = Rest(n)
        /\ \E k \in 0..n : \E results \in Outcomes(Come(k)) :
            /\ Emit(results, last)
            /\ lost' = lost \cup Unheard(Come(n), results)

\* Bug: the log of an inbox command is not given to ProcessModemInput.
ReadInboxLogDeaf ==
    /\ pc = "inboxlog"
    /\ \E n \in 0..Len(wire) : wire' = Rest(n)
    /\ pc' = "more"
    /\ UNCHANGED <<buffer, last, pending, sent, history>>

\* The answer to an inbox command: a response in its log is given whatever request
\* was noted last.
ReadInboxLog ==
    /\ pc = "inboxlog"
    /\ HearLog
    /\ pc' = "more"
    /\ UNCHANGED <<buffer, last, pending, sent, open>>

\* No message is left to list or erase.
InboxEnd ==
    /\ pc = "more"
    /\ pc' = "jobs"
    /\ UNCHANGED <<wire, buffer, last, pending, sent, history>>

\* What a new request overlaps: the answers not yet read.
Outstanding == pending \cup Named(wire) \cup Named(buffer)

\* Bug: the request is not noted.
SendUssdUnnoted(q) ==
    /\ pc = "jobs"
    /\ q \in Requests \ sent
    /\ ClearRX
    /\ pending' = pending \cup {q}
    /\ sent' = sent \cup {q}
    /\ open' = [open EXCEPT ![q] = Outstanding]
    /\ pc' = "log"
    /\ UNCHANGED <<buffer, last, emitted, times>>

\* The beginning of SendUssd: ClearRX, and the command.
SendUssd(q) ==
    /\ pc = "jobs"
    /\ q \in Requests \ sent
    /\ ClearRX
    /\ last' = q
    /\ pending' = pending \cup {q}
    /\ sent' = sent \cup {q}
    /\ open' = [open EXCEPT ![q] = Outstanding]
    /\ pc' = "log"
    /\ UNCHANGED <<buffer, emitted, times>>

\* SendSmsPart begins in the same way, and leaves m_LastUssdRequest alone.
SendSms ==
    /\ pc = "jobs"
    /\ ClearRX
    /\ pc' = "log"
    /\ UNCHANGED <<buffer, last, pending, sent, emitted, times, open>>

\* The end of SendUssd and of SendSmsPart.
ReadLog ==
    /\ pc = "log"
    /\ HearLog
    /\ pc' = "jobs"
    /\ UNCHANGED <<buffer, last, pending, sent, open>>

\* The beginning of QueryCallForwarding.
SendMmi(c) ==
    /\ pc = "jobs"
    /\ c \in Codes \ sent
    /\ ClearRX
    /\ last' = c
    /\ sent' = sent \cup {c}
    /\ open' = [open EXCEPT ![c] = Outstanding]
    /\ pc' = "ccfc"
    /\ UNCHANGED <<buffer, pending, emitted, times>>

\* The log of AT+CCFC, or of ATD.  A "+CCFC:" in it counts before any "+CUSD:";
\* without one (the code registers or erases) a "+CUSD:" line is taken for the
\* code's response, and only if there is neither does the daemon make one up.
ReadMmiLog ==
    \E n \in 0..Len(wire) :
        /\ wire' = Rest(n)
        /\ \/ /\ emitted' = emitted \cup {[of |-> last, request |-> last, whole |-> TRUE]}
              /\ lost' = lost \cup Named(Come(n))
              /\ UNCHANGED times
           \/ \E k \in 0..n : \E results \in Outcomes(Come(k)) \ {{}} :
              /\ Emit(results, last)
              /\ lost' = lost \cup Unheard(Come(n), results)

\* The end of QueryCallForwarding; without an answer in time the code is dialled.
ReadCcfcLog ==
    /\ pc = "ccfc"
    /\ ReadMmiLog
    /\ pc' \in {"jobs", "dial"}
    /\ UNCHANGED <<buffer, last, pending, sent, open>>

Dial ==
    /\ pc = "dial"
    /\ ClearRX
    /\ pc' = "dialled"
    /\ UNCHANGED <<buffer, last, pending, sent, emitted, times, open>>

ReadDialLog ==
    /\ pc = "dialled"
    /\ ReadMmiLog
    /\ pc' = "jobs"
    /\ UNCHANGED <<buffer, last, pending, sent, open>>

JobsEnd ==
    /\ pc = "jobs"
    /\ pc' = "input"
    /\ UNCHANGED <<wire, buffer, last, pending, sent, history>>

UNext ==
    \/ \E q \in Requests : NetworkAnswers(q)
    \/ ReadInput
    \/ ProcessLine
    \/ LinesEnd
    \/ InboxCommand
    \/ ReadInboxLog
    \/ InboxEnd
    \/ \E q \in Requests : SendUssd(q)
    \/ SendSms
    \/ ReadLog
    \/ \E c \in Codes : SendMmi(c)
    \/ ReadCcfcLog
    \/ Dial
    \/ ReadDialLog
    \/ JobsEnd

USpec == UInit /\ [][UNext]_uvars

\* The network answers, the line carries what the modem has written, the loop
\* goes on, and the inbox commands and the scan of the job directory end: there are
\* finitely many messages, indexes and files.
FairUSpec ==
    /\ USpec
    /\ \A q \in Requests : WF_uvars(NetworkAnswers(q))
    /\ WF_uvars(ReadInput) /\ WF_uvars(ProcessLine) /\ WF_uvars(LinesEnd)
    /\ SF_uvars(ReadInput /\ wire' # wire)
    /\ WF_uvars(InboxCommand) /\ WF_uvars(ReadInboxLog) /\ SF_uvars(InboxEnd)
    /\ WF_uvars(ReadLog) /\ WF_uvars(ReadCcfcLog)
    /\ WF_uvars(Dial) /\ WF_uvars(ReadDialLog)
    /\ SF_uvars(JobsEnd)

-----------------------------------------------------------------------------
(* Properties.                                                             *)

\* No answer is given to the callbacks twice, although a line may be begun in
\* one cycle, ended in the next, and partly swallowed by a command in between.
EmittedOnce == \A q \in Requests : times[q] <= 1

\* A response carries the request it answers, unless another request was sent
\* before it was read: m_LastUssdRequest is noted before the exchange, and a response
\* in the log of any later command, of the inbox or of an SMS, is given it too.
AttributedUnlessOverlapped ==
    \A x \in emitted : x.request # x.of => x.request # NoRequest /\ x.of \in open[x.request]

\* What is emitted is a line as the modem wrote it, unless a command swallowed a
\* part of it.
WholeUnlessSwallowed == \A x \in emitted : ~x.whole => x.of \in lost

\* An answer that is not emitted was swallowed by a command, or ran into the rest
\* of a line that was: reading in pieces loses nothing.
EveryAnswerHeard ==
    \A q \in Requests : q \in sent ~> times[q] > 0 \/ q \in lost
=============================================================================
