-------------------------- MODULE UssdSession_proofs -------------------------
(* Proofs about UssdSession, for every set of requests and codes and any    *)
(* number of answers on the line.                                          *)
EXTENDS UssdSession, Integers, SequenceTheorems, WellFoundedInduction, TLAPS

-----------------------------------------------------------------------------
(* The inductive invariant.                                                *)

Jobs == Requests \cup Codes
Asked == Jobs \cup {NoRequest}

UTypes ==
    /\ wire \in Seq(Fragments) /\ buffer \in Seq(Fragments)
    /\ pending \subseteq Requests /\ sent \subseteq Jobs
    /\ last \in Asked
    /\ emitted \subseteq [of : Asked, request : Asked, whole : BOOLEAN]
    /\ times \in [Requests -> Nat]
    /\ open \in [Jobs -> SUBSET Requests]

HeadOf(q) == [of |-> q, part |-> "head"]
TailOf(q) == [of |-> q, part |-> "tail"]
On(text, fragment) == \E i \in DOMAIN text : text[i] = fragment
Distinct(text) == \A i, j \in DOMAIN text : text[i] = text[j] => i = j

\* Each piece of a line is in one place: to come, on the wire, in the buffer, or gone.
OnePlace ==
    /\ Distinct(wire) /\ Distinct(buffer)
    /\ \A i \in DOMAIN wire, j \in DOMAIN buffer : wire[i] # buffer[j]
    /\ pending \cup Named(wire) \cup Named(buffer) \subseteq sent
    /\ pending \cap (Named(wire) \cup Named(buffer)) = {}

\* A line that was emitted has not its head on the way any more.
EmittedIsGone ==
    \A q \in Requests :
        times[q] > 0 => /\ times[q] = 1
                        /\ q \in sent \ pending
                        /\ ~On(wire, HeadOf(q)) /\ ~On(buffer, HeadOf(q))

\* A head on the wire is followed by its tail; one in the buffer may wait for it.
LinesHoldTogether ==
    /\ \A i \in DOMAIN wire : wire[i].part = "head" => WholeAt(wire, i)
    /\ \A i \in DOMAIN buffer : buffer[i].part = "head" =>
            \/ WholeAt(buffer, i)
            \/ buffer[i].of \in lost
            \/ i = Len(buffer) /\ wire # <<>> /\ wire[1] = TailOf(buffer[i].of)

\* What a response with the request noted now would overlap.
NotedInTime ==
    /\ last # NoRequest => last \in sent
    /\ \A q \in pending \cup Named(wire) \cup Named(buffer) :
            q # last => last # NoRequest /\ q \in open[last]
    /\ \A x \in emitted : x.request \in sent \cup {NoRequest}

UInv ==
    /\ UTypes /\ OnePlace /\ EmittedIsGone /\ LinesHoldTogether /\ NotedInTime
    /\ AttributedUnlessOverlapped /\ WholeUnlessSwallowed

-----------------------------------------------------------------------------
(* Texts.                                                                  *)

\* A text cut in two.
LEMMA CutText ==
    ASSUME NEW s \in Seq(Fragments), NEW n \in 0..Len(s)
    PROVE  LET a == SubSeq(s, 1, n)
               b == SubSeq(s, n + 1, Len(s))
           IN  /\ a \in Seq(Fragments) /\ b \in Seq(Fragments)
               /\ Len(a) = n /\ Len(b) = Len(s) - n
               /\ DOMAIN a = 1..n /\ DOMAIN b = 1..(Len(s) - n)
               /\ \A i \in 1..n : a[i] = s[i]
               /\ \A i \in 1..(Len(s) - n) : b[i] = s[i + n]
<1> DEFINE a == SubSeq(s, 1, n)
           b == SubSeq(s, n + 1, Len(s))
<1>1. Len(s) \in Nat /\ n \in Nat /\ \A i \in 1..Len(s) : s[i] \in Fragments
  OBVIOUS
<1>2. /\ a \in Seq(Fragments) /\ Len(a) = n
      /\ \A i \in 1..n : a[i] = s[i]
  BY <1>1, SubSeqProperties
<1>3. /\ b \in Seq(Fragments) /\ Len(b) = Len(s) - n
      /\ \A i \in 1..(Len(s) - n) : b[i] = s[i + n]
  BY <1>1, SubSeqProperties
<1> QED
  BY <1>2, <1>3

\* Two texts joined.
LEMMA JoinText ==
    ASSUME NEW s \in Seq(Fragments), NEW t \in Seq(Fragments)
    PROVE  /\ s \o t \in Seq(Fragments)
           /\ Len(s \o t) = Len(s) + Len(t)
           /\ DOMAIN (s \o t) = 1..(Len(s) + Len(t))
           /\ \A i \in 1..Len(s) : (s \o t)[i] = s[i]
           /\ \A i \in 1..Len(t) : (s \o t)[i + Len(s)] = t[i]
           /\ \A i \in (Len(s) + 1)..(Len(s) + Len(t)) :
                 i - Len(s) \in 1..Len(t) /\ (s \o t)[i] = t[i - Len(s)]
  BY ConcatProperties

LEMMA LineText ==
    ASSUME NEW q \in Requests
    PROVE  /\ LineOf(q) \in Seq(Fragments) /\ Len(LineOf(q)) = 2
           /\ LineOf(q)[1] = HeadOf(q) /\ LineOf(q)[2] = TailOf(q)
  BY DEF LineOf, Fragments, HeadOf, TailOf

\* What a cut leaves of the names in a text.
LEMMA CutNames ==
    ASSUME NEW s \in Seq(Fragments), NEW n \in 0..Len(s)
    PROVE  /\ Named(SubSeq(s, n + 1, Len(s))) \subseteq Named(s)
           /\ Named(SubSeq(s, 1, n)) \subseteq Named(s)
<1>1. Len(s) \in Nat /\ DOMAIN s = 1..Len(s)
  OBVIOUS
<1>2. \A i \in 1..(Len(s) - n) : i + n \in 1..Len(s)
  BY <1>1
<1>3. \A i \in 1..n : i \in 1..Len(s)
  BY <1>1
<1> QED
  BY <1>1, <1>2, <1>3, CutText DEF Named

LEMMA JoinNames ==
    ASSUME NEW s \in Seq(Fragments), NEW t \in Seq(Fragments)
    PROVE  Named(s \o t) \subseteq Named(s) \cup Named(t)
<1>1. \A i \in DOMAIN (s \o t) : i \in 1..Len(s) \/ i \in (Len(s) + 1)..(Len(s) + Len(t))
  BY JoinText
<1> QED
  BY <1>1, JoinText DEF Named

\* A text is in the one place or the other when it is cut.
LEMMA CutDistinct ==
    ASSUME NEW s \in Seq(Fragments), NEW n \in 0..Len(s), Distinct(s)
    PROVE  LET a == SubSeq(s, 1, n)
               b == SubSeq(s, n + 1, Len(s))
           IN  /\ Distinct(a) /\ Distinct(b)
               /\ \A i \in DOMAIN a, j \in DOMAIN b : a[i] # b[j]
<1> DEFINE a == SubSeq(s, 1, n)
           b == SubSeq(s, n + 1, Len(s))
<1>1. Len(s) \in Nat /\ n \in Nat /\ DOMAIN s = 1..Len(s)
  OBVIOUS
<1>2. /\ DOMAIN a = 1..n /\ DOMAIN b = 1..(Len(s) - n)
      /\ \A i \in 1..n : a[i] = s[i]
      /\ \A i \in 1..(Len(s) - n) : b[i] = s[i + n]
  BY CutText
<1> HIDE DEF a, b
<1>3. Distinct(a)
  BY <1>1, <1>2 DEF Distinct
<1>4. Distinct(b)
  <2> SUFFICES ASSUME NEW i \in DOMAIN b, NEW j \in DOMAIN b, b[i] = b[j] PROVE i = j
    BY DEF Distinct
  <2>1. i + n \in DOMAIN s /\ j + n \in DOMAIN s /\ s[i + n] = s[j + n]
    BY <1>1, <1>2
  <2>2. i + n = j + n
    BY <2>1 DEF Distinct
  <2> QED
    BY <1>1, <1>2, <2>2
<1>5. ASSUME NEW i \in DOMAIN a, NEW j \in DOMAIN b PROVE a[i] # b[j]
  <2>1. i \in DOMAIN s /\ j + n \in DOMAIN s /\ i # j + n
    BY <1>1, <1>2
  <2> QED
    BY <1>2, <2>1 DEF Distinct
<1> QED
  BY <1>3, <1>4, <1>5 DEF a, b

LEMMA JoinDistinct ==
    ASSUME NEW s \in Seq(Fragments), NEW t \in Seq(Fragments), Distinct(s), Distinct(t),
           \A i \in DOMAIN s, j \in DOMAIN t : s[i] # t[j]
    PROVE  Distinct(s \o t)
<1> DEFINE u == s \o t
<1>1. Len(s) \in Nat /\ Len(t) \in Nat /\ DOMAIN s = 1..Len(s) /\ DOMAIN t = 1..Len(t)
  OBVIOUS
<1>2. /\ DOMAIN u = 1..(Len(s) + Len(t))
      /\ \A i \in 1..Len(s) : u[i] = s[i]
      /\ \A i \in (Len(s) + 1)..(Len(s) + Len(t)) : i - Len(s) \in 1..Len(t) /\ u[i] = t[i - Len(s)]
  BY JoinText
<1> HIDE DEF u
<1>3. \A i \in DOMAIN u : i \in 1..Len(s) \/ i \in (Len(s) + 1)..(Len(s) + Len(t))
  BY <1>1, <1>2
<1> SUFFICES ASSUME NEW i \in DOMAIN u, NEW j \in DOMAIN u, u[i] = u[j] PROVE i = j
  BY DEF Distinct, u
<1>4. CASE i \in 1..Len(s) /\ j \in 1..Len(s)
  BY <1>1, <1>2, <1>4 DEF Distinct
<1>5. CASE i \notin 1..Len(s) /\ j \notin 1..Len(s)
  <2> DEFINE k == i - Len(s)
             l == j - Len(s)
  <2>1. k \in DOMAIN t /\ l \in DOMAIN t /\ t[k] = t[l]
    BY <1>1, <1>2, <1>3, <1>5
  <2>2. k = l
    <3> HIDE DEF k, l
    <3> QED
      BY <2>1 DEF Distinct
  <2> QED
    BY <1>1, <1>2, <1>3, <1>5, <2>2
<1>6. CASE i \in 1..Len(s) /\ j \notin 1..Len(s)
  BY <1>1, <1>2, <1>3, <1>6
<1>7. CASE i \notin 1..Len(s) /\ j \in 1..Len(s)
  BY <1>1, <1>2, <1>3, <1>7
<1> QED
  BY <1>4, <1>5, <1>6, <1>7

-----------------------------------------------------------------------------
(* Steps.                                                                  *)

\* A response comes from a head in the text; it is whole unless the line was cut.
LEMMA OneResponse ==
    ASSUME UTypes, NEW text \in Seq(Fragments), NEW results \in Outcomes(text),
           Emit(results, last)
    PROVE  \/ results = {} /\ emitted' = emitted /\ times' = times
           \/ \E i \in DOMAIN text, w \in BOOLEAN :
                /\ text[i].part = "head"
                /\ results = {[of |-> text[i].of, whole |-> w]}
                /\ emitted' = emitted \cup {[of |-> text[i].of, request |-> last, whole |-> w]}
                /\ times' = [times EXCEPT ![text[i].of] = times[text[i].of] + 1]
                /\ ~w => ~WholeAt(text, i)
<1>1. \A i \in DOMAIN text : text[i].of \in Requests
  <2>1. \A i \in DOMAIN text : text[i] \in Fragments
    OBVIOUS
  <2> QED
    BY <2>1 DEF Fragments
<1>2. times \in [Requests -> Nat]
  BY DEF UTypes
<1>3. results = {} \/ \E x \in ParseUssdResponse(text) : results = {x}
  BY DEF Outcomes
<1>4. CASE results = {}
  <2>1. emitted' = emitted
    BY <1>4 DEF Emit
  <2>2. times' = times
    BY <1>2, <1>4 DEF Emit
  <2> QED
    BY <1>4, <2>1, <2>2
<1>5. ASSUME NEW x \in ParseUssdResponse(text), results = {x}
      PROVE  \E i \in DOMAIN text, w \in BOOLEAN :
                /\ text[i].part = "head"
                /\ results = {[of |-> text[i].of, whole |-> w]}
                /\ emitted' = emitted \cup {[of |-> text[i].of, request |-> last, whole |-> w]}
                /\ times' = [times EXCEPT ![text[i].of] = times[text[i].of] + 1]
                /\ ~w => ~WholeAt(text, i)
  <2>1. PICK i \in DOMAIN text, w \in BOOLEAN :
          /\ text[i].part = "head"
          /\ x = [of |-> text[i].of, whole |-> w]
          /\ ~w => ~WholeAt(text, i)
    BY DEF ParseUssdResponse
  <2>2. emitted' = emitted \cup {[of |-> text[i].of, request |-> last, whole |-> w]}
    BY <1>5, <2>1 DEF Emit, Response
  <2>3. times' = [q \in Requests |-> times[q] + (IF text[i].of = q THEN 1 ELSE 0)]
    BY <1>5, <2>1 DEF Emit
  <2>4. times' = [times EXCEPT ![text[i].of] = times[text[i].of] + 1]
    <3>1. \A q \in Requests : times[q] + 0 = times[q]
      BY <1>2
    <3>2. \A q \in Requests : times'[q] = IF q = text[i].of THEN times[q] + 1 ELSE times[q]
      BY <2>3, <3>1
    <3> QED
      BY <1>2, <2>3, <3>2
  <2> QED
    BY <1>5, <2>1, <2>2, <2>4
<1> QED
  BY <1>3, <1>4, <1>5

\* What a command may do with the line.
Swallows(n) ==
    /\ wire' = Rest(n) /\ lost' = lost \cup Named(Come(n))
    /\ UNCHANGED <<buffer, emitted, times>>

Hears(n, results) ==
    /\ wire' = Rest(n) /\ lost' = lost \cup Unheard(Come(n), results)
    /\ \E k \in 0..n : results \in Outcomes(Come(k))
    /\ Emit(results, last)
    /\ UNCHANGED buffer

MakesUp(n) ==
    /\ wire' = Rest(n) /\ lost' = lost \cup Named(Come(n))
    /\ emitted' = emitted \cup {[of |-> last, request |-> last, whole |-> TRUE]}
    /\ UNCHANGED <<buffer, times>>

\* A new request or code is noted.
Notes(x) ==
    /\ x \in Jobs \ sent
    /\ last' = x
    /\ pending' = pending \cup ({x} \cap Requests)
    /\ sent' = sent \cup {x}
    /\ open' = [open EXCEPT ![x] = Outstanding]

Quiet == UNCHANGED <<last, pending, sent, open>>

\* Every step is one of these, whatever the loop is doing.
LEMMA Effects ==
    ASSUME [UNext]_uvars
    PROVE  \/ UNCHANGED <<wire, buffer, last, pending, sent, emitted, times, lost, open>>
           \/ \E q \in Requests : NetworkAnswers(q)
           \/ ReadInput
           \/ ProcessLine
           \/ \E n \in 0..Len(wire) :
                \/ Swallows(n) /\ (Quiet \/ \E x \in Jobs : Notes(x))
                \/ (\E results : Hears(n, results)) /\ Quiet
                \/ MakesUp(n) /\ Quiet
<1>1. CASE LinesEnd \/ InboxEnd \/ JobsEnd \/ UNCHANGED uvars
  BY <1>1 DEF LinesEnd, InboxEnd, JobsEnd, uvars, history
<1>2. CASE InboxCommand \/ SendSms \/ Dial
  BY <1>2 DEF InboxCommand, SendSms, Dial, ClearRX, Swallows, Quiet
<1>3. CASE \E q \in Requests : SendUssd(q)
  <2>1. PICK q \in Requests : SendUssd(q)
    BY <1>3
  <2>2. q \in Jobs /\ Notes(q)
    BY <2>1 DEF SendUssd, Notes, Jobs
  <2>3. \E n \in 0..Len(wire) : Swallows(n)
    BY <2>1 DEF SendUssd, ClearRX, Swallows
  <2> QED
    BY <2>2, <2>3
<1>4. CASE \E c \in Codes : SendMmi(c)
  <2>1. PICK c \in Codes : SendMmi(c)
    BY <1>4
  <2>2. {c} \cap Requests = {}
    BY RequestAssumption
  <2>3. c \in Jobs /\ Notes(c)
    BY <2>1, <2>2 DEF SendMmi, Notes, Jobs
  <2>4. \E n \in 0..Len(wire) : Swallows(n)
    BY <2>1 DEF SendMmi, ClearRX, Swallows
  <2> QED
    BY <2>3, <2>4
<1>5. CASE ReadLog \/ ReadInboxLog
  <2>1. HearLog /\ UNCHANGED buffer /\ Quiet
    BY <1>5 DEF ReadLog, ReadInboxLog, Quiet
  <2> QED
    BY <2>1 DEF HearLog, Hears
<1>6. CASE ReadCcfcLog \/ ReadDialLog
  <2>1. ReadMmiLog /\ UNCHANGED buffer /\ Quiet
    BY <1>6 DEF ReadCcfcLog, ReadDialLog, Quiet
  <2> QED
    BY <2>1 DEF ReadMmiLog, Hears, MakesUp
<1> QED
  BY <1>1, <1>2, <1>3, <1>4, <1>5, <1>6 DEF UNext

\* The first line in the buffer ends where the first tail is.
LEMMA FirstTail ==
    ASSUME UTypes, FirstEnd > 0
    PROVE  FirstEnd \in 1..Len(buffer) /\ buffer[FirstEnd].part = "tail"
<1> DEFINE ends == {i \in DOMAIN buffer : buffer[i].part = "tail"}
<1>1. ends \in SUBSET Nat /\ ends \subseteq 1..Len(buffer)
  BY DEF UTypes
<1>2. ends # {} /\ FirstEnd = CHOOSE i \in ends : \A j \in ends : i <= j
  BY DEF FirstEnd
<1> HIDE DEF ends
<1>3. \E i \in ends : \A j \in ends : i <= j
  <2>1. \E i \in ends : \A j \in ends : <<j, i>> \notin OpToRel(<, Nat)
    BY <1>1, <1>2, NatLessThanWellFounded, WFMin
  <2>2. \A i, j \in ends : <<j, i>> \notin OpToRel(<, Nat) => i <= j
    BY <1>1 DEF OpToRel
  <2> QED
    BY <2>1, <2>2
<1>4. FirstEnd \in ends
  BY <1>2, <1>3
<1> QED
  BY <1>1, <1>4 DEF ends

-----------------------------------------------------------------------------
(* What the ways from the network to the buffer do.                        *)

\* The modem writes a line.
LEMMA LineCame ==
    ASSUME UTypes, OnePlace, NEW q \in Requests, NetworkAnswers(q)
    PROVE  /\ wire' \in Seq(Fragments) /\ Distinct(wire')
           /\ Named(wire') \subseteq Named(wire) \cup {q}
           /\ \A i \in DOMAIN wire' :
                (i \in DOMAIN wire /\ wire'[i] = wire[i]) \/ wire'[i].of = q
           /\ wire # <<>> => wire'[1] = wire[1]
<1>1. /\ q \in pending /\ wire' = wire \o LineOf(q)
      /\ wire \in Seq(Fragments)
  BY DEF NetworkAnswers, UTypes
<1>2. /\ LineOf(q) \in Seq(Fragments) /\ Len(LineOf(q)) = 2
      /\ LineOf(q)[1] = HeadOf(q) /\ LineOf(q)[2] = TailOf(q)
  BY LineText
<1>3. /\ wire' \in Seq(Fragments)
      /\ DOMAIN wire' = 1..(Len(wire) + 2)
      /\ \A i \in 1..Len(wire) : wire'[i] = wire[i]
      /\ \A i \in (Len(wire) + 1)..(Len(wire) + 2) :
            i - Len(wire) \in 1..2 /\ wire'[i] = LineOf(q)[i - Len(wire)]
  <2> DEFINE l == LineOf(q)
  <2> HIDE DEF l
  <2>1. l \in Seq(Fragments) /\ Len(l) = 2
    BY <1>2 DEF l
  <2>2. /\ wire \o l \in Seq(Fragments)
        /\ DOMAIN (wire \o l) = 1..(Len(wire) + Len(l))
        /\ \A i \in 1..Len(wire) : (wire \o l)[i] = wire[i]
        /\ \A i \in (Len(wire) + 1)..(Len(wire) + Len(l)) :
              i - Len(wire) \in 1..Len(l) /\ (wire \o l)[i] = l[i - Len(wire)]
    BY <1>1, <2>1, JoinText
  <2>3. wire' = wire \o l
    BY <1>1 DEF l
  <2> QED
    BY <2>1, <2>2, <2>3 DEF l
<1>4. DOMAIN LineOf(q) = {1, 2}
  BY DEF LineOf
<1>5. \A i \in DOMAIN LineOf(q) : LineOf(q)[i].of = q
  BY <1>2, <1>4 DEF HeadOf, TailOf
<1>6. Len(wire) \in Nat /\ DOMAIN wire = 1..Len(wire)
  BY <1>1
<1>7. q \notin Named(wire)
  BY <1>1 DEF OnePlace
<1>8. Distinct(wire')
  <2>1. Distinct(LineOf(q))
    BY <1>2, <1>4 DEF Distinct, HeadOf, TailOf
  <2>2. \A i \in DOMAIN wire, j \in DOMAIN LineOf(q) : wire[i] # LineOf(q)[j]
    BY <1>5, <1>7 DEF Named
  <2>3. Distinct(wire)
    BY DEF OnePlace
  <2> QED
    BY <1>1, <1>2, <2>1, <2>2, <2>3, JoinDistinct
<1>9. Named(wire') \subseteq Named(wire) \cup {q}
  <2>1. Named(LineOf(q)) \subseteq {q}
    BY <1>5 DEF Named
  <2>2. Named(wire') \subseteq Named(wire) \cup Named(LineOf(q))
    BY <1>1, <1>2, JoinNames
  <2> QED
    BY <2>1, <2>2
<1>10. ASSUME NEW i \in DOMAIN wire'
       PROVE  (i \in DOMAIN wire /\ wire'[i] = wire[i]) \/ wire'[i].of = q
  <2>1. CASE i \in 1..Len(wire)
    BY <1>3, <1>6, <2>1
  <2>2. CASE i \in (Len(wire) + 1)..(Len(wire) + 2)
    BY <1>3, <1>4, <1>5, <2>2
  <2> QED
    BY <1>3, <1>6, <2>1, <2>2
<1>11. wire # <<>> => wire'[1] = wire[1]
  <2>1. wire # <<>> => Len(wire) > 0
    BY <1>1
  <2> QED
    BY <1>3, <1>6, <2>1
<1> QED
  BY <1>3, <1>8, <1>9, <1>10, <1>11

\* The line loses its first pieces.
LEMMA WireCut ==
    ASSUME UTypes, OnePlace, NEW n \in 0..Len(wire), wire' = Rest(n)
    PROVE  /\ wire' \in Seq(Fragments) /\ Come(n) \in Seq(Fragments)
           /\ Distinct(wire') /\ Distinct(Come(n))
           /\ Named(wire') \subseteq Named(wire) /\ Named(Come(n)) \subseteq Named(wire)
           /\ Len(wire) \in Nat /\ n \in Nat /\ DOMAIN wire = 1..Len(wire)
           /\ DOMAIN wire' = 1..(Len(wire) - n) /\ Len(wire') = Len(wire) - n
           /\ DOMAIN Come(n) = 1..n /\ Len(Come(n)) = n
           /\ \A i \in DOMAIN wire' : i + n \in DOMAIN wire /\ wire'[i] = wire[i + n]
           /\ \A i \in DOMAIN Come(n) : i \in DOMAIN wire /\ Come(n)[i] = wire[i]
           /\ \A i \in DOMAIN Come(n), j \in DOMAIN wire' : Come(n)[i] # wire'[j]
<1>1. wire \in Seq(Fragments) /\ Distinct(wire)
  BY DEF UTypes, OnePlace
<1>2. Len(wire) \in Nat /\ n \in Nat /\ DOMAIN wire = 1..Len(wire)
  BY <1>1
<1>3. /\ wire' \in Seq(Fragments) /\ Come(n) \in Seq(Fragments)
      /\ Len(Come(n)) = n /\ Len(wire') = Len(wire) - n
      /\ DOMAIN Come(n) = 1..n /\ DOMAIN wire' = 1..(Len(wire) - n)
      /\ \A i \in 1..n : Come(n)[i] = wire[i]
      /\ \A i \in 1..(Len(wire) - n) : wire'[i] = wire[i + n]
  BY <1>1, CutText DEF Rest, Come
<1>4. /\ Distinct(wire') /\ Distinct(Come(n))
      /\ \A i \in DOMAIN Come(n), j \in DOMAIN wire' : Come(n)[i] # wire'[j]
  BY <1>1, CutDistinct DEF Rest, Come
<1>5. Named(wire') \subseteq Named(wire) /\ Named(Come(n)) \subseteq Named(wire)
  BY <1>1, CutNames DEF Rest, Come
<1>6. \A i \in DOMAIN wire' : i + n \in DOMAIN wire
  BY <1>2, <1>3
<1>7. \A i \in DOMAIN Come(n) : i \in DOMAIN wire
  BY <1>2, <1>3
<1> QED
  BY <1>2, <1>3, <1>4, <1>5, <1>6, <1>7

\* A log that was full holds the beginning of what came.
LEMMA LogKeepsBeginning ==
    ASSUME UTypes, NEW n \in 0..Len(wire), NEW k \in 0..n
    PROVE  /\ Come(k) \in Seq(Fragments) /\ Come(n) \in Seq(Fragments)
           /\ \A i \in DOMAIN Come(k) : i \in DOMAIN Come(n) /\ Come(k)[i] = Come(n)[i]
           /\ Named(Come(k)) \subseteq Named(Come(n))
<1>1. wire \in Seq(Fragments) /\ Len(wire) \in Nat /\ n \in Nat
  BY DEF UTypes
<1>2. k \in 0..Len(wire)
  BY <1>1
<1>3. /\ Come(n) \in Seq(Fragments) /\ DOMAIN Come(n) = 1..n
      /\ \A i \in 1..n : Come(n)[i] = wire[i]
  BY <1>1, CutText DEF Come
<1>4. /\ Come(k) \in Seq(Fragments) /\ DOMAIN Come(k) = 1..k
      /\ \A i \in 1..k : Come(k)[i] = wire[i]
  BY <1>1, <1>2, CutText DEF Come
<1>5. \A i \in 1..k : i \in 1..n
  BY <1>1
<1>6. \A i \in DOMAIN Come(k) : i \in DOMAIN Come(n) /\ Come(k)[i] = Come(n)[i]
  BY <1>3, <1>4, <1>5
<1> QED
  BY <1>3, <1>4, <1>6 DEF Named

\* What has come is in the buffer, behind what was there.
LEMMA BufferGrows ==
    ASSUME UTypes, OnePlace, NEW n \in 0..Len(wire), wire' = Rest(n), buffer' = buffer \o Come(n)
    PROVE  /\ buffer' \in Seq(Fragments) /\ Distinct(buffer')
           /\ Named(buffer') \subseteq Named(buffer) \cup Named(wire)
           /\ Len(buffer) \in Nat /\ DOMAIN buffer = 1..Len(buffer)
           /\ Len(buffer') = Len(buffer) + n /\ DOMAIN buffer' = 1..(Len(buffer) + n)
           /\ \A i \in 1..Len(buffer) : buffer'[i] = buffer[i]
           /\ \A i \in DOMAIN buffer' \ DOMAIN buffer :
                i - Len(buffer) \in 1..n /\ buffer'[i] = wire[i - Len(buffer)]
           /\ \A i \in DOMAIN wire', j \in DOMAIN buffer' : wire'[i] # buffer'[j]
<1>1. buffer \in Seq(Fragments) /\ Distinct(buffer)
  BY DEF UTypes, OnePlace
<1>2. Len(buffer) \in Nat /\ DOMAIN buffer = 1..Len(buffer)
  BY <1>1
<1>3. /\ Come(n) \in Seq(Fragments) /\ Len(Come(n)) = n /\ n \in Nat
      /\ Distinct(Come(n)) /\ Named(Come(n)) \subseteq Named(wire)
      /\ DOMAIN Come(n) = 1..n
      /\ \A i \in DOMAIN Come(n) : i \in DOMAIN wire /\ Come(n)[i] = wire[i]
      /\ \A i \in DOMAIN Come(n), j \in DOMAIN wire' : Come(n)[i] # wire'[j]
      /\ \A i \in DOMAIN wire' : i + n \in DOMAIN wire /\ wire'[i] = wire[i + n]
  BY WireCut
<1>4. /\ buffer' \in Seq(Fragments) /\ Len(buffer') = Len(buffer) + n
      /\ DOMAIN buffer' = 1..(Len(buffer) + n)
      /\ \A i \in 1..Len(buffer) : buffer'[i] = buffer[i]
      /\ \A i \in (Len(buffer) + 1)..(Len(buffer) + n) :
            i - Len(buffer) \in 1..n /\ buffer'[i] = Come(n)[i - Len(buffer)]
  <2> DEFINE c == Come(n)
  <2> HIDE DEF c
  <2>1. c \in Seq(Fragments) /\ Len(c) = n
    BY <1>3 DEF c
  <2>2. /\ buffer \o c \in Seq(Fragments) /\ Len(buffer \o c) = Len(buffer) + Len(c)
        /\ DOMAIN (buffer \o c) = 1..(Len(buffer) + Len(c))
        /\ \A i \in 1..Len(buffer) : (buffer \o c)[i] = buffer[i]
        /\ \A i \in (Len(buffer) + 1)..(Len(buffer) + Len(c)) :
              i - Len(buffer) \in 1..Len(c) /\ (buffer \o c)[i] = c[i - Len(buffer)]
    BY <1>1, <2>1, JoinText
  <2>3. buffer' = buffer \o c
    BY DEF c
  <2> QED
    BY <2>1, <2>2, <2>3 DEF c
<1>5. \A i \in DOMAIN buffer' \ DOMAIN buffer : i \in (Len(buffer) + 1)..(Len(buffer) + n)
  BY <1>2, <1>3, <1>4
<1>6. \A i \in DOMAIN buffer' \ DOMAIN buffer :
        i - Len(buffer) \in 1..n /\ buffer'[i] = wire[i - Len(buffer)]
  BY <1>3, <1>4, <1>5
<1>7. \A i \in DOMAIN wire, j \in DOMAIN buffer : wire[i] # buffer[j]
  BY DEF OnePlace
<1>8. Distinct(buffer')
  <2>1. \A i \in DOMAIN buffer, j \in DOMAIN Come(n) : buffer[i] # Come(n)[j]
    BY <1>3, <1>7
  <2> QED
    BY <1>1, <1>3, <2>1, JoinDistinct
<1>9. Named(buffer') \subseteq Named(buffer) \cup Named(wire)
  BY <1>1, <1>3, JoinNames
<1>10. ASSUME NEW i \in DOMAIN wire', NEW j \in DOMAIN buffer' PROVE wire'[i] # buffer'[j]
  <2>1. CASE j \in DOMAIN buffer
    BY <1>2, <1>3, <1>4, <1>7, <2>1
  <2>2. CASE j \notin DOMAIN buffer
    BY <1>3, <1>4, <1>5, <2>2
  <2> QED
    BY <2>1, <2>2
<1> QED
  BY <1>2, <1>4, <1>6, <1>8, <1>9, <1>10

\* The first line leaves the buffer.
LEMMA LineLeaves ==
    ASSUME UTypes, OnePlace, ProcessLine
    PROVE  LET n == FirstEnd
               line == SubSeq(buffer, 1, n)
           IN  /\ n \in 1..Len(buffer) /\ buffer[n].part = "tail" /\ Len(buffer) \in Nat
               /\ DOMAIN buffer = 1..Len(buffer)
               /\ line \in Seq(Fragments) /\ DOMAIN line = 1..n /\ Len(line) = n
               /\ \A i \in DOMAIN line : i \in DOMAIN buffer /\ line[i] = buffer[i]
               /\ buffer' \in Seq(Fragments) /\ Distinct(buffer')
               /\ Named(buffer') \subseteq Named(buffer)
               /\ DOMAIN buffer' = 1..(Len(buffer) - n) /\ Len(buffer') = Len(buffer) - n
               /\ \A i \in DOMAIN buffer' : i + n \in DOMAIN buffer /\ buffer'[i] = buffer[i + n]
               /\ \A i \in DOMAIN line, j \in DOMAIN buffer' : line[i] # buffer'[j]
               /\ wire' = wire /\ Quiet
               /\ \E results \in Outcomes(line) :
                    /\ Emit(results, last)
                    /\ lost \subseteq lost'
<1> DEFINE n == FirstEnd
           line == SubSeq(buffer, 1, n)
<1>1. buffer \in Seq(Fragments) /\ Distinct(buffer)
  BY DEF UTypes, OnePlace
<1>2. n \in 1..Len(buffer) /\ buffer[n].part = "tail"
  BY FirstTail DEF ProcessLine
<1>3. buffer' = SubSeq(buffer, n + 1, Len(buffer))
  BY DEF ProcessLine, AfterLine
<1>4. wire' = wire /\ Quiet
  BY DEF ProcessLine, Quiet
<1>5. \E results \in Outcomes(line) : Emit(results, last) /\ lost \subseteq lost'
  BY DEF ProcessLine
<1> HIDE DEF n
<1>6. Len(buffer) \in Nat /\ n \in Nat /\ n \in 0..Len(buffer) /\ DOMAIN buffer = 1..Len(buffer)
  BY <1>1, <1>2
<1>7. /\ line \in Seq(Fragments) /\ DOMAIN line = 1..n /\ Len(line) = n
      /\ \A i \in 1..n : line[i] = buffer[i]
      /\ buffer' \in Seq(Fragments) /\ Len(buffer') = Len(buffer) - n
      /\ DOMAIN buffer' = 1..(Len(buffer) - n)
      /\ \A i \in 1..(Len(buffer) - n) : buffer'[i] = buffer[i + n]
  BY <1>1, <1>3, <1>6, CutText
<1>8. Distinct(buffer') /\ \A i \in DOMAIN line, j \in DOMAIN buffer' : line[i] # buffer'[j]
  BY <1>1, <1>3, <1>6, CutDistinct
<1>9. Named(buffer') \subseteq Named(buffer)
  BY <1>1, <1>3, <1>6, CutNames
<1>10. \A i \in DOMAIN buffer' : i + n \in DOMAIN buffer
  BY <1>6, <1>7
<1>11. \A i \in DOMAIN line : i \in DOMAIN buffer
  BY <1>6, <1>7
<1> QED
  BY <1>2, <1>4, <1>5, <1>6, <1>7, <1>8, <1>9, <1>10, <1>11 DEF n

-----------------------------------------------------------------------------
(* Types, and the place of each piece.                                     *)

\* Everything on the way belongs to a request.
LEMMA NamesAreRequests ==
    ASSUME UTypes
    PROVE  Outstanding \subseteq Requests
<1>1. \A i \in DOMAIN wire : wire[i] \in Fragments
  BY DEF UTypes
<1>2. \A i \in DOMAIN buffer : buffer[i] \in Fragments
  BY DEF UTypes
<1>3. pending \subseteq Requests
  BY DEF UTypes
<1> QED
  BY <1>1, <1>2, <1>3 DEF Outstanding, Named, Fragments

\* Noting a request or a code.
LEMMA NoteTypes ==
    ASSUME UTypes, NEW x \in Jobs, Notes(x)
    PROVE  /\ pending' \subseteq Requests /\ sent' \subseteq Jobs /\ last' \in Asked
           /\ open' \in [Jobs -> SUBSET Requests]
           /\ open'[x] = Outstanding
           /\ \A y \in Jobs \ {x} : open'[y] = open[y]
<1>1. Outstanding \in SUBSET Requests
  BY NamesAreRequests
<1>2. open' = [open EXCEPT ![x] = Outstanding] /\ open \in [Jobs -> SUBSET Requests]
  BY DEF Notes, UTypes
<1>3. /\ open' \in [Jobs -> SUBSET Requests] /\ open'[x] = Outstanding
      /\ \A y \in Jobs \ {x} : open'[y] = open[y]
  BY <1>1, <1>2
<1>4. pending' \subseteq Requests /\ sent' \subseteq Jobs /\ last' \in Asked
  BY DEF Notes, UTypes, Asked
<1> QED
  BY <1>3, <1>4

\* A response and the count of it have the right types.
LEMMA ResponseTypes ==
    ASSUME UTypes, NEW text \in Seq(Fragments), NEW results \in Outcomes(text),
           Emit(results, last)
    PROVE  /\ emitted' \subseteq [of : Asked, request : Asked, whole : BOOLEAN]
           /\ times' \in [Requests -> Nat]
<1>1. /\ emitted \subseteq [of : Asked, request : Asked, whole : BOOLEAN]
      /\ times \in [Requests -> Nat] /\ last \in Asked
  BY DEF UTypes
<1>2. \A i \in DOMAIN text : text[i].of \in Requests
  <2>1. \A i \in DOMAIN text : text[i] \in Fragments
    OBVIOUS
  <2> QED
    BY <2>1 DEF Fragments
<1>3. CASE emitted' = emitted /\ times' = times
  BY <1>1, <1>3
<1>4. ASSUME NEW i \in DOMAIN text, NEW w \in BOOLEAN,
             emitted' = emitted \cup {[of |-> text[i].of, request |-> last, whole |-> w]},
             times' = [times EXCEPT ![text[i].of] = times[text[i].of] + 1]
      PROVE  /\ emitted' \subseteq [of : Asked, request : Asked, whole : BOOLEAN]
             /\ times' \in [Requests -> Nat]
  <2>1. text[i].of \in Asked /\ times[text[i].of] + 1 \in Nat
    BY <1>1, <1>2 DEF Asked, Jobs
  <2>2. [of |-> text[i].of, request |-> last, whole |-> w]
            \in [of : Asked, request : Asked, whole : BOOLEAN]
    BY <1>1, <2>1
  <2>3. emitted' \subseteq [of : Asked, request : Asked, whole : BOOLEAN]
    BY <1>1, <1>4, <2>2
  <2>4. times' \in [Requests -> Nat]
    BY <1>1, <1>4, <2>1
  <2> QED
    BY <2>3, <2>4
<1> QED
  BY <1>3, <1>4, OneResponse

LEMMA UTypesStep ==
    ASSUME UTypes, OnePlace, [UNext]_uvars
    PROVE  UTypes'
<1>1. CASE UNCHANGED <<wire, buffer, last, pending, sent, emitted, times, lost, open>>
  BY <1>1 DEF UTypes
<1>2. CASE \E q \in Requests : NetworkAnswers(q)
  <2>1. wire' \in Seq(Fragments)
    BY <1>2, LineCame
  <2>2. pending' \subseteq pending /\ UNCHANGED <<buffer, last, sent, emitted, times, open>>
    BY <1>2 DEF NetworkAnswers, history
  <2> QED
    BY <2>1, <2>2 DEF UTypes
<1>3. CASE ReadInput
  <2>1. PICK n \in 0..Len(wire) : wire' = Rest(n) /\ buffer' = buffer \o Come(n)
    BY <1>3 DEF ReadInput
  <2>2. wire' \in Seq(Fragments) /\ buffer' \in Seq(Fragments)
    BY <2>1, WireCut, BufferGrows
  <2>3. UNCHANGED <<last, pending, sent, emitted, times, open>>
    BY <1>3 DEF ReadInput, history
  <2> QED
    BY <2>2, <2>3 DEF UTypes
<1>4. CASE ProcessLine
  <2>1. buffer' \in Seq(Fragments) /\ wire' = wire /\ Quiet
    BY <1>4, LineLeaves
  <2>2. /\ emitted' \subseteq [of : Asked, request : Asked, whole : BOOLEAN]
        /\ times' \in [Requests -> Nat]
    <3>1. /\ SubSeq(buffer, 1, FirstEnd) \in Seq(Fragments)
          /\ \E results \in Outcomes(SubSeq(buffer, 1, FirstEnd)) : Emit(results, last)
      BY <1>4, LineLeaves
    <3> QED
      BY <3>1, ResponseTypes
  <2> QED
    BY <2>1, <2>2 DEF UTypes, Quiet
<1>5. ASSUME NEW n \in 0..Len(wire), wire' = Rest(n), buffer' = buffer
      PROVE  wire' \in Seq(Fragments) /\ Come(n) \in Seq(Fragments)
  BY <1>5, WireCut
<1>6. ASSUME NEW n \in 0..Len(wire), Swallows(n), Quiet \/ \E x \in Jobs : Notes(x)
      PROVE  UTypes'
  <2>1. wire' \in Seq(Fragments) /\ UNCHANGED <<buffer, emitted, times>>
    BY <1>5, <1>6 DEF Swallows
  <2>2. CASE Quiet
    BY <2>1, <2>2 DEF UTypes, Quiet
  <2>3. CASE \E x \in Jobs : Notes(x)
    BY <2>1, <2>3, NoteTypes DEF UTypes
  <2> QED
    BY <1>6, <2>2, <2>3
<1>7. ASSUME NEW n \in 0..Len(wire), NEW results, Hears(n, results), Quiet
      PROVE  UTypes'
  <2>1. wire' \in Seq(Fragments) /\ Come(n) \in Seq(Fragments) /\ UNCHANGED buffer
    BY <1>5, <1>7 DEF Hears
  <2>2. /\ emitted' \subseteq [of : Asked, request : Asked, whole : BOOLEAN]
        /\ times' \in [Requests -> Nat]
    <3>1. PICK k \in 0..n : results \in Outcomes(Come(k)) /\ Emit(results, last)
      BY <1>7 DEF Hears
    <3>2. Come(k) \in Seq(Fragments)
      BY <3>1, LogKeepsBeginning
    <3> QED
      BY <3>1, <3>2, ResponseTypes
  <2> QED
    BY <1>7, <2>1, <2>2 DEF UTypes, Quiet
<1>8. ASSUME NEW n \in 0..Len(wire), MakesUp(n), Quiet
      PROVE  UTypes'
  <2>1. wire' \in Seq(Fragments) /\ UNCHANGED <<buffer, times>>
    BY <1>5, <1>8 DEF MakesUp
  <2>2. emitted' \subseteq [of : Asked, request : Asked, whole : BOOLEAN]
    <3>1. /\ last \in Asked
          /\ emitted \subseteq [of : Asked, request : Asked, whole : BOOLEAN]
      BY DEF UTypes
    <3>2. [of |-> last, request |-> last, whole |-> TRUE]
            \in [of : Asked, request : Asked, whole : BOOLEAN]
      BY <3>1
    <3>3. emitted' = emitted \cup {[of |-> last, request |-> last, whole |-> TRUE]}
      BY <1>8 DEF MakesUp
    <3> QED
      BY <3>1, <3>2, <3>3
  <2> QED
    BY <1>8, <2>1, <2>2 DEF UTypes, Quiet
<1> QED
  BY <1>1, <1>2, <1>3, <1>4, <1>6, <1>7, <1>8, Effects

LEMMA OnePlaceStep ==
    ASSUME UTypes, OnePlace, [UNext]_uvars
    PROVE  OnePlace'
<1>1. CASE UNCHANGED <<wire, buffer, last, pending, sent, emitted, times, lost, open>>
  BY <1>1 DEF OnePlace, Named, Distinct
<1>2. CASE \E q \in Requests : NetworkAnswers(q)
  <2>1. PICK q \in Requests : NetworkAnswers(q)
    BY <1>2
  <2>2. /\ q \in pending /\ pending' = pending \ {q} /\ UNCHANGED <<buffer, sent>>
    BY <2>1 DEF NetworkAnswers
  <2>3. /\ Distinct(wire') /\ Named(wire') \subseteq Named(wire) \cup {q}
        /\ \A i \in DOMAIN wire' : (i \in DOMAIN wire /\ wire'[i] = wire[i]) \/ wire'[i].of = q
    BY <2>1, LineCame
  <2>4. \A i \in DOMAIN wire', j \in DOMAIN buffer' : wire'[i] # buffer'[j]
    BY <2>2, <2>3 DEF OnePlace, Named
  <2>5. Named(buffer') = Named(buffer) /\ Distinct(buffer')
    BY <2>2 DEF OnePlace, Named, Distinct
  <2> QED
    BY <2>2, <2>3, <2>4, <2>5 DEF OnePlace
<1>3. CASE ReadInput
  <2>1. PICK n \in 0..Len(wire) : wire' = Rest(n) /\ buffer' = buffer \o Come(n)
    BY <1>3 DEF ReadInput
  <2>2. Distinct(wire') /\ Named(wire') \subseteq Named(wire)
    BY <2>1, WireCut
  <2>3. /\ Distinct(buffer') /\ Named(buffer') \subseteq Named(buffer) \cup Named(wire)
        /\ \A i \in DOMAIN wire', j \in DOMAIN buffer' : wire'[i] # buffer'[j]
    BY <2>1, BufferGrows
  <2>4. UNCHANGED <<pending, sent>>
    BY <1>3 DEF ReadInput
  <2> QED
    BY <2>2, <2>3, <2>4 DEF OnePlace
<1>4. CASE ProcessLine
  <2>1. /\ Distinct(buffer') /\ Named(buffer') \subseteq Named(buffer)
        /\ \A i \in DOMAIN buffer' : \E k \in DOMAIN buffer : buffer'[i] = buffer[k]
        /\ wire' = wire /\ Quiet
    BY <1>4, LineLeaves
  <2>2. Named(wire') = Named(wire) /\ Distinct(wire')
    BY <2>1 DEF OnePlace, Named, Distinct
  <2> QED
    BY <2>1, <2>2 DEF OnePlace, Quiet
<1>5. ASSUME NEW n \in 0..Len(wire), wire' = Rest(n), buffer' = buffer,
             Quiet \/ \E x \in Jobs : Notes(x)
      PROVE  OnePlace'
  <2>1. /\ Distinct(wire') /\ Named(wire') \subseteq Named(wire)
        /\ \A i \in DOMAIN wire' : \E k \in DOMAIN wire : wire'[i] = wire[k]
    BY <1>5, WireCut
  <2>2. Named(buffer') = Named(buffer) /\ Distinct(buffer')
    BY <1>5 DEF OnePlace, Named, Distinct
  <2>3. \A i \in DOMAIN wire', j \in DOMAIN buffer' : wire'[i] # buffer'[j]
    BY <1>5, <2>1 DEF OnePlace
  <2>4. CASE Quiet
    BY <2>1, <2>2, <2>3, <2>4 DEF OnePlace, Quiet
  <2>5. CASE \E x \in Jobs : Notes(x)
    BY <2>1, <2>2, <2>3, <2>5 DEF OnePlace, Notes
  <2> QED
    BY <1>5, <2>4, <2>5
<1> QED
  BY <1>1, <1>2, <1>3, <1>4, <1>5, Effects DEF Swallows, Hears, MakesUp

-----------------------------------------------------------------------------
(* Once, and gone.                                                         *)

\* After a response its head is gone; before, it had not been emitted.
LEMMA CountedOnce ==
    ASSUME UTypes, OnePlace, EmittedIsGone,
           NEW text \in Seq(Fragments), NEW results \in Outcomes(text), Emit(results, last),
           \A i \in DOMAIN text :
                \/ \E j \in DOMAIN wire : text[i] = wire[j]
                \/ \E j \in DOMAIN buffer : text[i] = buffer[j],
           \A i \in DOMAIN text, j \in DOMAIN wire' : text[i] # wire'[j],
           \A i \in DOMAIN text, j \in DOMAIN buffer' : text[i] # buffer'[j],
           \A j \in DOMAIN wire' : \E k \in DOMAIN wire : wire'[j] = wire[k],
           \A j \in DOMAIN buffer' : \E k \in DOMAIN buffer : buffer'[j] = buffer[k],
           pending' = pending, sent' = sent
    PROVE  EmittedIsGone'
<1>1. /\ times \in [Requests -> Nat]
      /\ \A i \in DOMAIN text : text[i] \in Fragments
  BY DEF UTypes
<1>2. \A q \in Requests :
        /\ On(wire', HeadOf(q)) => On(wire, HeadOf(q))
        /\ On(buffer', HeadOf(q)) => On(buffer, HeadOf(q))
  BY DEF On
<1>3. CASE times' = times
  BY <1>2, <1>3 DEF EmittedIsGone
<1>4. ASSUME NEW i \in DOMAIN text, text[i].part = "head",
             times' = [times EXCEPT ![text[i].of] = times[text[i].of] + 1]
      PROVE  EmittedIsGone'
  <2> DEFINE r == text[i].of
  <2>1. r \in Requests /\ text[i] = HeadOf(r)
    BY <1>1, <1>4 DEF Fragments, HeadOf
  <2>2. On(wire, HeadOf(r)) \/ On(buffer, HeadOf(r))
    BY <2>1 DEF On
  <2>3. times[r] = 0
    BY <1>1, <2>1, <2>2 DEF EmittedIsGone
  <2>4. times'[r] = 1 /\ \A q \in Requests \ {r} : times'[q] = times[q]
    BY <1>1, <1>4, <2>1, <2>3
  <2>5. ~On(wire', HeadOf(r)) /\ ~On(buffer', HeadOf(r))
    BY <2>1 DEF On
  <2>6. r \in Named(wire) \cup Named(buffer)
    BY <2>2 DEF On, Named, HeadOf
  <2>7. r \in sent \ pending
    BY <2>6 DEF OnePlace
  <2> HIDE DEF r
  <2> QED
    BY <1>2, <2>4, <2>5, <2>7 DEF EmittedIsGone
<1> QED
  BY <1>3, <1>4, OneResponse

LEMMA EmittedIsGoneStep ==
    ASSUME UTypes, OnePlace, EmittedIsGone, [UNext]_uvars
    PROVE  EmittedIsGone'
<1>1. CASE UNCHANGED <<wire, buffer, last, pending, sent, emitted, times, lost, open>>
  BY <1>1 DEF EmittedIsGone, On
<1>2. CASE \E q \in Requests : NetworkAnswers(q)
  <2>1. PICK q \in Requests : NetworkAnswers(q)
    BY <1>2
  <2>2. /\ q \in pending /\ pending' = pending \ {q} /\ UNCHANGED <<buffer, sent, times>>
    BY <2>1 DEF NetworkAnswers, history
  <2>3. \A i \in DOMAIN wire' : (i \in DOMAIN wire /\ wire'[i] = wire[i]) \/ wire'[i].of = q
    BY <2>1, LineCame
  <2>4. \A r \in Requests \ {q} : On(wire', HeadOf(r)) => On(wire, HeadOf(r))
    BY <2>3 DEF On, HeadOf
  <2>5. \A r \in Requests : On(buffer', HeadOf(r)) => On(buffer, HeadOf(r))
    BY <2>2 DEF On
  <2>6. times[q] = 0
    BY <2>2 DEF EmittedIsGone, UTypes
  <2> QED
    BY <2>2, <2>4, <2>5, <2>6 DEF EmittedIsGone
<1>3. CASE ReadInput
  <2>1. PICK n \in 0..Len(wire) : wire' = Rest(n) /\ buffer' = buffer \o Come(n)
    BY <1>3 DEF ReadInput
  <2>2. \A i \in DOMAIN wire' : \E k \in DOMAIN wire : wire'[i] = wire[k]
    BY <2>1, WireCut
  <2>3. ASSUME NEW i \in DOMAIN buffer'
        PROVE  \/ \E k \in DOMAIN buffer : buffer'[i] = buffer[k]
               \/ \E k \in DOMAIN wire : buffer'[i] = wire[k]
    <3>1. CASE i \in DOMAIN buffer
      BY <2>1, <3>1, BufferGrows
    <3>2. CASE i \notin DOMAIN buffer
      <4>1. i - Len(buffer) \in 1..n /\ buffer'[i] = wire[i - Len(buffer)]
        BY <2>1, <3>2, BufferGrows
      <4>2. \A k \in 1..n : k \in DOMAIN wire
        BY <2>1, WireCut
      <4> QED
        BY <4>1, <4>2
    <3> QED
      BY <3>1, <3>2
  <2>4. UNCHANGED <<pending, sent, times>>
    BY <1>3 DEF ReadInput, history
  <2> QED
    BY <2>2, <2>3, <2>4 DEF EmittedIsGone, On
<1>4. CASE ProcessLine
  <2> DEFINE line == SubSeq(buffer, 1, FirstEnd)
  <2>1. /\ line \in Seq(Fragments)
        /\ \A i \in DOMAIN line : i \in DOMAIN buffer /\ line[i] = buffer[i]
        /\ \A i \in DOMAIN line, j \in DOMAIN buffer' : line[i] # buffer'[j]
        /\ \A i \in DOMAIN buffer' : \E k \in DOMAIN buffer : buffer'[i] = buffer[k]
        /\ wire' = wire /\ Quiet
    BY <1>4, LineLeaves
  <2>2. PICK results \in Outcomes(line) : Emit(results, last)
    BY <1>4, LineLeaves
  <2>3. \A i \in DOMAIN line, j \in DOMAIN wire' : line[i] # wire'[j]
    BY <2>1 DEF OnePlace
  <2> HIDE DEF line
  <2> QED
    BY <2>1, <2>2, <2>3, CountedOnce DEF Quiet
<1>5. ASSUME NEW n \in 0..Len(wire), wire' = Rest(n), buffer' = buffer
      PROVE  /\ Come(n) \in Seq(Fragments)
             /\ \A i \in DOMAIN wire' : \E k \in DOMAIN wire : wire'[i] = wire[k]
             /\ \A i \in DOMAIN Come(n) : i \in DOMAIN wire /\ Come(n)[i] = wire[i]
             /\ \A i \in DOMAIN Come(n), j \in DOMAIN wire' : Come(n)[i] # wire'[j]
             /\ \A i \in DOMAIN Come(n), j \in DOMAIN buffer' : Come(n)[i] # buffer'[j]
  <2>1. /\ Come(n) \in Seq(Fragments)
        /\ \A i \in DOMAIN wire' : \E k \in DOMAIN wire : wire'[i] = wire[k]
        /\ \A i \in DOMAIN Come(n) : i \in DOMAIN wire /\ Come(n)[i] = wire[i]
        /\ \A i \in DOMAIN Come(n), j \in DOMAIN wire' : Come(n)[i] # wire'[j]
    BY <1>5, WireCut
  <2> QED
    BY <1>5, <2>1 DEF OnePlace
<1>6. ASSUME NEW n \in 0..Len(wire), wire' = Rest(n), buffer' = buffer, times' = times,
             Quiet \/ \E x \in Jobs : Notes(x)
      PROVE  EmittedIsGone'
  <2>1. \A q \in Requests :
          /\ On(wire', HeadOf(q)) => On(wire, HeadOf(q))
          /\ On(buffer', HeadOf(q)) => On(buffer, HeadOf(q))
    BY <1>5, <1>6 DEF On
  <2>2. \A q \in sent \ pending : q \in sent' \ pending'
    BY <1>6 DEF Quiet, Notes
  <2> QED
    BY <1>6, <2>1, <2>2 DEF EmittedIsGone
<1>7. ASSUME NEW n \in 0..Len(wire), NEW results, Hears(n, results), Quiet
      PROVE  EmittedIsGone'
  <2>1. PICK k \in 0..n : results \in Outcomes(Come(k))
    BY <1>7 DEF Hears
  <2>2. /\ wire' = Rest(n) /\ buffer' = buffer
        /\ Emit(results, last) /\ pending' = pending /\ sent' = sent
    BY <1>7 DEF Hears, Quiet
  <2>3. \A j \in DOMAIN buffer' : \E l \in DOMAIN buffer : buffer'[j] = buffer[l]
    BY <2>2
  <2> DEFINE log == Come(k)
             all == Come(n)
  <2>4. log \in Seq(Fragments) /\ \A i \in DOMAIN log : i \in DOMAIN all /\ log[i] = all[i]
    BY LogKeepsBeginning
  <2>5. /\ \A i \in DOMAIN wire' : \E l \in DOMAIN wire : wire'[i] = wire[l]
        /\ \A i \in DOMAIN all : i \in DOMAIN wire /\ all[i] = wire[i]
        /\ \A i \in DOMAIN all, j \in DOMAIN wire' : all[i] # wire'[j]
        /\ \A i \in DOMAIN all, j \in DOMAIN buffer' : all[i] # buffer'[j]
    BY <1>5, <2>2
  <2>6. results \in Outcomes(log)
    BY <2>1
  <2> HIDE DEF log, all
  <2>7. /\ \A i \in DOMAIN log : \E j \in DOMAIN wire : log[i] = wire[j]
        /\ \A i \in DOMAIN log, j \in DOMAIN wire' : log[i] # wire'[j]
        /\ \A i \in DOMAIN log, j \in DOMAIN buffer' : log[i] # buffer'[j]
    BY <2>4, <2>5
  <2> QED
    BY <2>2, <2>3, <2>4, <2>5, <2>6, <2>7, CountedOnce
<1> QED
  BY <1>1, <1>2, <1>3, <1>4, <1>6, <1>7, Effects DEF Swallows, MakesUp

-----------------------------------------------------------------------------
(* Whole lines.                                                            *)

LEMMA LinesOnTheWire ==
    ASSUME UTypes, OnePlace, LinesHoldTogether, [UNext]_uvars
    PROVE  \A i \in DOMAIN wire' : wire'[i].part = "head" => WholeAt(wire', i)
<1>1. CASE wire' = wire
  BY <1>1 DEF LinesHoldTogether
<1>2. CASE \E q \in Requests : NetworkAnswers(q)
  <2>1. PICK q \in Requests : NetworkAnswers(q)
    BY <1>2
  <2>2. wire' = wire \o LineOf(q) /\ wire \in Seq(Fragments)
    BY <2>1 DEF NetworkAnswers, UTypes
  <2> DEFINE l == LineOf(q)
  <2>3. l \in Seq(Fragments) /\ Len(l) = 2 /\ l[1] = HeadOf(q) /\ l[2] = TailOf(q)
    BY LineText
  <2> HIDE DEF l
  <2>4. Len(wire) \in Nat /\ DOMAIN wire = 1..Len(wire)
    BY <2>2
  <2>5. /\ Len(wire \o l) = Len(wire) + 2 /\ DOMAIN (wire \o l) = 1..(Len(wire) + 2)
        /\ \A i \in 1..Len(wire) : (wire \o l)[i] = wire[i]
        /\ \A i \in 1..2 : (wire \o l)[i + Len(wire)] = l[i]
    <3>1. /\ Len(wire \o l) = Len(wire) + Len(l)
          /\ DOMAIN (wire \o l) = 1..(Len(wire) + Len(l))
          /\ \A i \in 1..Len(wire) : (wire \o l)[i] = wire[i]
          /\ \A i \in 1..Len(l) : (wire \o l)[i + Len(wire)] = l[i]
      BY <2>2, <2>3, JoinText
    <3> QED
      BY <2>3, <3>1
  <2>6. /\ (wire \o l)[1 + Len(wire)] = HeadOf(q)
        /\ (wire \o l)[2 + Len(wire)] = TailOf(q)
    BY <2>3, <2>5
  <2>7. wire' = wire \o l
    BY <2>2 DEF l
  <2> SUFFICES ASSUME NEW i \in DOMAIN wire', wire'[i].part = "head" PROVE WholeAt(wire', i)
    OBVIOUS
  <2>8. CASE i \in 1..Len(wire)
    <3>1. wire'[i] = wire[i] /\ WholeAt(wire, i)
      BY <2>4, <2>5, <2>7, <2>8 DEF LinesHoldTogether
    <3>2. i < Len(wire) /\ wire[i + 1] = [of |-> wire[i].of, part |-> "tail"]
      BY <3>1 DEF WholeAt
    <3>3. i + 1 \in 1..Len(wire) /\ i < Len(wire')
      BY <2>4, <2>5, <2>7, <2>8, <3>2
    <3>4. wire'[i + 1] = wire[i + 1]
      BY <2>5, <2>7, <3>3
    <3> QED
      BY <3>1, <3>2, <3>3, <3>4 DEF WholeAt
  <2>9. CASE i = 1 + Len(wire)
    <3>1. i + 1 = 2 + Len(wire) /\ i < Len(wire')
      BY <2>4, <2>5, <2>7, <2>9
    <3> QED
      BY <2>6, <2>7, <2>9, <3>1 DEF WholeAt, HeadOf, TailOf
  <2>10. CASE i = 2 + Len(wire)
    BY <2>6, <2>7, <2>10 DEF TailOf
  <2>11. i \in 1..Len(wire) \/ i = 1 + Len(wire) \/ i = 2 + Len(wire)
    <3>1. i \in 1..(Len(wire) + 2)
      BY <2>5, <2>7
    <3> QED
      BY <2>4, <3>1
  <2> QED
    BY <2>8, <2>9, <2>10, <2>11
<1>3. ASSUME NEW n \in 0..Len(wire), wire' = Rest(n),
             NEW i \in DOMAIN wire', wire'[i].part = "head"
      PROVE  WholeAt(wire', i)
  <2>1. /\ Len(wire) \in Nat /\ n \in Nat /\ Len(wire') = Len(wire) - n
        /\ DOMAIN wire' = 1..(Len(wire) - n)
        /\ \A k \in DOMAIN wire' : k + n \in DOMAIN wire /\ wire'[k] = wire[k + n]
    BY <1>3, WireCut
  <2>2. WholeAt(wire, i + n)
    BY <1>3, <2>1 DEF LinesHoldTogether
  <2>3. i + n < Len(wire) /\ wire[(i + n) + 1] = [of |-> wire[i + n].of, part |-> "tail"]
    BY <2>2 DEF WholeAt
  <2>4. i + 1 \in DOMAIN wire' /\ (i + 1) + n = (i + n) + 1 /\ i < Len(wire')
    BY <2>1, <2>3
  <2>5. wire'[i + 1] = wire[(i + n) + 1] /\ wire'[i] = wire[i + n]
    BY <2>1, <2>4
  <2> QED
    BY <2>3, <2>4, <2>5 DEF WholeAt
<1>4. ReadInput => \E n \in 0..Len(wire) : wire' = Rest(n)
  BY DEF ReadInput
<1>5. ProcessLine => wire' = wire
  BY DEF ProcessLine
<1> QED
  BY <1>1, <1>2, <1>3, <1>4, <1>5, Effects DEF Swallows, Hears, MakesUp

\* What waits for its tail in the buffer.
Waits(i) == i = Len(buffer) /\ wire # <<>> /\ wire[1] = TailOf(buffer[i].of)

\* A command takes the tail that a head in the buffer waits for: its line is noted
\* as lost, because no response can come from a tail.
LEMMA TailIsMissed ==
    ASSUME UTypes, OnePlace, LinesHoldTogether, NEW n \in 0..Len(wire), wire' = Rest(n),
           buffer' = buffer, NEW k \in 0..n, NEW results \in Outcomes(Come(k)), Emit(results, last),
           NEW i \in DOMAIN buffer, buffer[i].part = "head", Waits(i), n > 0
    PROVE  buffer[i].of \in Unheard(Come(n), results)
<1> DEFINE q == buffer[i].of
<1>1. /\ Come(n) \in Seq(Fragments) /\ n \in Nat /\ DOMAIN Come(n) = 1..n
      /\ \A l \in DOMAIN Come(n) : l \in DOMAIN wire /\ Come(n)[l] = wire[l]
  BY WireCut
<1>2. 1 \in DOMAIN Come(n) /\ Come(n)[1] = TailOf(q)
  BY <1>1 DEF Waits
<1>3. q \in Named(Come(n))
  BY <1>2 DEF Named, TailOf
<1>4. buffer[i] \in Fragments
  BY DEF UTypes
<1>5. buffer[i] = HeadOf(q)
  BY <1>4 DEF Fragments, HeadOf
<1>6. \A l \in DOMAIN Come(n) : Come(n)[l].part = "head" => Come(n)[l].of # q
  <2> SUFFICES ASSUME NEW l \in DOMAIN Come(n), Come(n)[l].part = "head", Come(n)[l].of = q
               PROVE  FALSE
    OBVIOUS
  <2>1. Come(n)[l] \in Fragments
    BY <1>1
  <2>2. Come(n)[l] = HeadOf(q)
    BY <2>1 DEF Fragments, HeadOf
  <2>3. l \in DOMAIN wire /\ wire[l] = buffer[i]
    BY <1>1, <1>5, <2>2
  <2> QED
    BY <2>3 DEF OnePlace
<1>7. \A x \in results : x.of # q
  <2> DEFINE log == Come(k)
  <2>1. /\ log \in Seq(Fragments) /\ results \in Outcomes(log)
        /\ \A l \in DOMAIN log : l \in DOMAIN Come(n) /\ log[l] = Come(n)[l]
    BY LogKeepsBeginning
  <2>2. \A l \in DOMAIN log : log[l].part = "head" => log[l].of # q
    BY <1>6, <2>1
  <2> HIDE DEF log
  <2> QED
    BY <2>1, <2>2, OneResponse
<1> QED
  BY <1>3, <1>7 DEF Unheard

LEMMA LinesInTheBuffer ==
    ASSUME UTypes, OnePlace, LinesHoldTogether, [UNext]_uvars
    PROVE  \A i \in DOMAIN buffer' : buffer'[i].part = "head" =>
              WholeAt(buffer', i) \/ buffer'[i].of \in lost' \/ Waits(i)'
<1>1. CASE UNCHANGED <<wire, buffer, lost>>
  BY <1>1 DEF LinesHoldTogether, Waits
<1>2. CASE \E q \in Requests : NetworkAnswers(q)
  <2>1. UNCHANGED <<buffer, lost>>
    BY <1>2 DEF NetworkAnswers, history
  <2>2. wire # <<>> => wire' # <<>> /\ wire'[1] = wire[1]
    <3>1. PICK q \in Requests : NetworkAnswers(q)
      BY <1>2
    <3>2. wire # <<>> => wire'[1] = wire[1]
      BY <3>1, LineCame
    <3>3. wire' = wire \o LineOf(q) /\ wire \in Seq(Fragments) /\ LineOf(q) \in Seq(Fragments)
      BY <3>1, LineText DEF NetworkAnswers, UTypes
    <3>4. wire # <<>> => wire' # <<>>
      BY <3>3, ConcatEqualIffEmpty
    <3> QED
      BY <3>2, <3>4
  <2> QED
    BY <2>1, <2>2 DEF LinesHoldTogether, Waits
<1>3. CASE ReadInput
  <2>1. PICK n \in 0..Len(wire) : wire' = Rest(n) /\ buffer' = buffer \o Come(n)
    BY <1>3 DEF ReadInput
  <2>2. /\ Len(buffer) \in Nat /\ DOMAIN buffer = 1..Len(buffer)
        /\ Len(buffer') = Len(buffer) + n /\ DOMAIN buffer' = 1..(Len(buffer) + n)
        /\ \A i \in 1..Len(buffer) : buffer'[i] = buffer[i]
        /\ \A i \in DOMAIN buffer' \ DOMAIN buffer :
              i - Len(buffer) \in 1..n /\ buffer'[i] = wire[i - Len(buffer)]
    BY <2>1, BufferGrows
  <2>3. /\ Len(wire) \in Nat /\ n \in Nat /\ DOMAIN wire = 1..Len(wire)
        /\ DOMAIN wire' = 1..(Len(wire) - n) /\ Len(wire') = Len(wire) - n
        /\ \A i \in DOMAIN wire' : wire'[i] = wire[i + n]
    BY <2>1, WireCut
  <2>4. lost' = lost
    BY <1>3 DEF ReadInput, history
  <2> SUFFICES ASSUME NEW i \in DOMAIN buffer', buffer'[i].part = "head"
               PROVE  WholeAt(buffer', i) \/ buffer'[i].of \in lost' \/ Waits(i)'
    OBVIOUS
  <2>5. CASE i \in DOMAIN buffer
    <3>1. buffer'[i] = buffer[i]
      BY <2>2, <2>5
    <3>2. CASE WholeAt(buffer, i)
      <4>1. i < Len(buffer) /\ buffer[i + 1] = [of |-> buffer[i].of, part |-> "tail"]
        BY <3>2 DEF WholeAt
      <4>2. i + 1 \in 1..Len(buffer) /\ i < Len(buffer')
        BY <2>2, <2>3, <2>5, <4>1
      <4>3. buffer'[i + 1] = buffer[i + 1]
        BY <2>2, <4>2
      <4> QED
        BY <3>1, <4>1, <4>2, <4>3 DEF WholeAt
    <3>3. CASE Waits(i)
      <4>1. i = Len(buffer) /\ wire # <<>> /\ wire[1] = TailOf(buffer[i].of)
        BY <3>3 DEF Waits
      <4>2. CASE n = 0
        <5>1. Len(buffer') = Len(buffer)
          BY <2>2, <4>2
        <5>2. Len(wire) > 0
          BY <4>1 DEF UTypes
        <5>3. 1 \in DOMAIN wire'
          BY <2>3, <4>2, <5>2
        <5>4. wire'[1] = wire[1]
          BY <2>3, <4>2, <5>3
        <5>5. wire' # <<>>
          BY <5>3
        <5> QED
          BY <3>1, <4>1, <5>1, <5>4, <5>5 DEF Waits
      <4>3. CASE n > 0
        <5>1. i + 1 \in DOMAIN buffer' \ DOMAIN buffer /\ (i + 1) - Len(buffer) = 1
              /\ i < Len(buffer')
          BY <2>2, <2>3, <4>1, <4>3
        <5>2. buffer'[i + 1] = wire[1]
          BY <2>2, <5>1
        <5> QED
          BY <3>1, <4>1, <5>1, <5>2 DEF WholeAt, TailOf
      <4> QED
        BY <2>3, <4>2, <4>3
    <3>4. WholeAt(buffer, i) \/ buffer[i].of \in lost \/ Waits(i)
      BY <2>5, <3>1 DEF LinesHoldTogether, Waits
    <3> QED
      BY <2>4, <3>1, <3>2, <3>3, <3>4
  <2>6. CASE i \notin DOMAIN buffer
    <3> DEFINE k == i - Len(buffer)
    <3>1. k \in 1..n /\ buffer'[i] = wire[k]
      BY <2>2, <2>6
    <3>2. k \in Int /\ i = k + Len(buffer)
      BY <2>2
    <3> HIDE DEF k
    <3>3. k \in DOMAIN wire
      BY <2>3, <3>1
    <3>4. k < Len(wire) /\ wire[k + 1] = [of |-> wire[k].of, part |-> "tail"]
      BY <3>1, <3>3 DEF LinesHoldTogether, WholeAt
    <3>5. CASE k < n
      <4>1. i + 1 \in DOMAIN buffer' \ DOMAIN buffer /\ (i + 1) - Len(buffer) = k + 1
            /\ i < Len(buffer')
        BY <2>2, <2>3, <3>1, <3>2, <3>5
      <4>2. buffer'[i + 1] = wire[k + 1]
        BY <2>2, <4>1
      <4> QED
        BY <3>1, <3>4, <4>1, <4>2 DEF WholeAt
    <3>6. CASE k = n
      <4>1. 1 \in DOMAIN wire' /\ 1 + n = k + 1
        BY <2>3, <3>4, <3>6
      <4>2. wire'[1] = wire[k + 1] /\ wire' # <<>>
        BY <2>3, <4>1
      <4>3. i = Len(buffer')
        BY <2>2, <2>3, <3>2, <3>6
      <4> QED
        BY <3>1, <3>4, <4>2, <4>3 DEF Waits, TailOf
    <3> QED
      BY <2>3, <3>1, <3>5, <3>6
  <2> QED
    BY <2>5, <2>6
<1>4. CASE ProcessLine
  <2> DEFINE n == FirstEnd
  <2>1. /\ n \in 1..Len(buffer) /\ Len(buffer) \in Nat /\ DOMAIN buffer = 1..Len(buffer)
        /\ DOMAIN buffer' = 1..(Len(buffer) - n) /\ Len(buffer') = Len(buffer) - n
        /\ \A i \in DOMAIN buffer' : i + n \in DOMAIN buffer /\ buffer'[i] = buffer[i + n]
        /\ wire' = wire /\ lost \subseteq lost'
    BY <1>4, LineLeaves
  <2> HIDE DEF n
  <2> SUFFICES ASSUME NEW i \in DOMAIN buffer', buffer'[i].part = "head"
               PROVE  WholeAt(buffer', i) \/ buffer'[i].of \in lost' \/ Waits(i)'
    OBVIOUS
  <2>2. i + n \in DOMAIN buffer /\ buffer'[i] = buffer[i + n]
    BY <2>1
  <2>3. CASE WholeAt(buffer, i + n)
    <3>1. i + n < Len(buffer) /\ buffer[(i + n) + 1] = [of |-> buffer[i + n].of, part |-> "tail"]
      BY <2>3 DEF WholeAt
    <3>2. i + 1 \in DOMAIN buffer' /\ (i + 1) + n = (i + n) + 1 /\ i < Len(buffer')
      BY <2>1, <3>1
    <3>3. buffer'[i + 1] = buffer[(i + n) + 1]
      BY <2>1, <3>2
    <3> QED
      BY <2>2, <3>1, <3>2, <3>3 DEF WholeAt
  <2>4. CASE Waits(i + n)
    <3>1. i = Len(buffer')
      BY <2>1, <2>4 DEF Waits
    <3> QED
      BY <2>1, <2>2, <2>4, <3>1 DEF Waits
  <2>5. WholeAt(buffer, i + n) \/ buffer[i + n].of \in lost \/ Waits(i + n)
    BY <2>2 DEF LinesHoldTogether, Waits
  <2> QED
    BY <2>1, <2>2, <2>3, <2>4, <2>5
<1>5. ASSUME NEW n \in 0..Len(wire), wire' = Rest(n), buffer' = buffer,
             n = 0 \/ \A i \in DOMAIN buffer :
                        buffer[i].part = "head" /\ Waits(i) => buffer[i].of \in lost',
             lost \subseteq lost',
             NEW i \in DOMAIN buffer', buffer'[i].part = "head"
      PROVE  WholeAt(buffer', i) \/ buffer'[i].of \in lost' \/ Waits(i)'
  <2>1. WholeAt(buffer, i) \/ buffer[i].of \in lost \/ Waits(i)
    BY <1>5 DEF LinesHoldTogether, Waits
  <2>2. n = 0 => wire' = wire
    BY <1>5, SubSeqFull DEF Rest, UTypes
  <2> QED
    BY <1>5, <2>1, <2>2 DEF Waits
<1>6. ASSUME NEW n \in 0..Len(wire), wire' = Rest(n), buffer' = buffer,
             lost' = lost \cup Named(Come(n))
      PROVE  n = 0 \/ \A i \in DOMAIN buffer : Waits(i) => buffer[i].of \in lost'
  <2>1. n \in Nat /\ DOMAIN Come(n) = 1..n /\ \A k \in DOMAIN Come(n) : Come(n)[k] = wire[k]
    BY <1>6, WireCut
  <2>2. n # 0 => 1 \in DOMAIN Come(n) /\ Come(n)[1] = wire[1]
    BY <2>1
  <2> QED
    BY <1>6, <2>2 DEF Waits, Named, TailOf
<1>7. ASSUME NEW n \in 0..Len(wire), NEW results, Hears(n, results)
      PROVE  n = 0 \/ \A i \in DOMAIN buffer :
                        buffer[i].part = "head" /\ Waits(i) => buffer[i].of \in lost'
  <2>1. /\ wire' = Rest(n) /\ buffer' = buffer /\ \E k \in 0..n : results \in Outcomes(Come(k))
        /\ Emit(results, last) /\ lost' = lost \cup Unheard(Come(n), results)
    BY <1>7 DEF Hears
  <2>2. n = 0 \/ n > 0
    BY WireCut, <2>1
  <2> QED
    BY <2>1, <2>2, TailIsMissed
<1>8. ASSUME NEW n \in 0..Len(wire), Swallows(n) \/ MakesUp(n) \/ \E results : Hears(n, results)
      PROVE  \A i \in DOMAIN buffer' : buffer'[i].part = "head" =>
                WholeAt(buffer', i) \/ buffer'[i].of \in lost' \/ Waits(i)'
  <2>1. wire' = Rest(n) /\ buffer' = buffer /\ lost \subseteq lost'
    BY <1>8 DEF Swallows, MakesUp, Hears
  <2>2. n = 0 \/ \A i \in DOMAIN buffer :
                   buffer[i].part = "head" /\ Waits(i) => buffer[i].of \in lost'
    BY <1>6, <1>7, <1>8 DEF Swallows, MakesUp
  <2> QED
    BY <1>5, <2>1, <2>2
<1> QED
  BY <1>1, <1>2, <1>3, <1>4, <1>8, Effects

LEMMA LinesHoldTogetherStep ==
    ASSUME UTypes, OnePlace, LinesHoldTogether, [UNext]_uvars
    PROVE  LinesHoldTogether'
  BY LinesOnTheWire, LinesInTheBuffer DEF LinesHoldTogether, Waits

-----------------------------------------------------------------------------
(* What responses carry.                                                   *)

LEMMA WholeStep ==
    ASSUME UTypes, OnePlace, LinesHoldTogether, WholeUnlessSwallowed, [UNext]_uvars
    PROVE  WholeUnlessSwallowed'
<1>1. CASE UNCHANGED <<emitted, lost>>
  BY <1>1 DEF WholeUnlessSwallowed
<1>2. CASE ProcessLine
  <2> DEFINE n == FirstEnd
             line == SubSeq(buffer, 1, n)
  <2>1. /\ n \in 1..Len(buffer) /\ buffer[n].part = "tail" /\ Len(buffer) \in Nat
        /\ line \in Seq(Fragments) /\ DOMAIN line = 1..n /\ Len(line) = n
        /\ \A i \in DOMAIN line : i \in DOMAIN buffer /\ line[i] = buffer[i]
        /\ lost \subseteq lost'
    BY <1>2, LineLeaves
  <2>2. PICK results \in Outcomes(line) : Emit(results, last)
    BY <1>2, LineLeaves
  <2> HIDE DEF n, line
  <2>3. ASSUME NEW i \in DOMAIN line, line[i].part = "head", ~WholeAt(line, i)
        PROVE  line[i].of \in lost
    <3>1. i \in DOMAIN buffer /\ line[i] = buffer[i] /\ i \in 1..n
      BY <2>1
    <3>2. i # n
      BY <2>1, <2>3, <3>1
    <3>3. i < n /\ i + 1 \in DOMAIN line /\ i < Len(line) /\ i # Len(buffer)
      BY <2>1, <3>1, <3>2
    <3>4. line[i + 1] = buffer[i + 1]
      BY <2>1, <3>3
    <3>5. ~WholeAt(buffer, i)
      BY <2>3, <3>1, <3>3, <3>4 DEF WholeAt
    <3> QED
      BY <2>3, <3>1, <3>3, <3>5 DEF LinesHoldTogether
  <2>4. CASE emitted' = emitted
    BY <2>1, <2>4 DEF WholeUnlessSwallowed
  <2>5. ASSUME NEW i \in DOMAIN line, NEW w \in BOOLEAN, line[i].part = "head",
               emitted' = emitted \cup {[of |-> line[i].of, request |-> last, whole |-> w]},
               ~w => ~WholeAt(line, i)
        PROVE  WholeUnlessSwallowed'
    <3>1. ~w => line[i].of \in lost'
      BY <2>1, <2>3, <2>5
    <3> QED
      BY <2>1, <2>5, <3>1 DEF WholeUnlessSwallowed
  <2> QED
    BY <2>1, <2>2, <2>4, <2>5, OneResponse
<1>3. ASSUME NEW n \in 0..Len(wire), NEW results, Hears(n, results)
      PROVE  WholeUnlessSwallowed'
  <2>1. /\ Emit(results, last) /\ lost' = lost \cup Unheard(Come(n), results)
    BY <1>3 DEF Hears
  <2>2. PICK k \in 0..n : results \in Outcomes(Come(k))
    BY <1>3 DEF Hears
  <2> DEFINE log == Come(k)
  <2>3. log \in Seq(Fragments) /\ results \in Outcomes(log) /\ Named(log) \subseteq Named(Come(n))
    BY <2>2, LogKeepsBeginning
  <2> HIDE DEF log
  <2>4. CASE emitted' = emitted
    BY <2>1, <2>4 DEF WholeUnlessSwallowed
  <2>5. ASSUME NEW i \in DOMAIN log, NEW w \in BOOLEAN,
               results = {[of |-> log[i].of, whole |-> w]},
               emitted' = emitted \cup {[of |-> log[i].of, request |-> last, whole |-> w]}
        PROVE  WholeUnlessSwallowed'
    <3>1. log[i].of \in Named(Come(n))
      BY <2>3 DEF Named
    <3>2. ~w => {r \in results : r.whole} = {}
      BY <2>5
    <3>3. ~w => log[i].of \in lost'
      BY <2>1, <3>1, <3>2 DEF Unheard
    <3> SUFFICES ASSUME NEW x \in emitted', ~x.whole
                 PROVE  x.of \in lost'
      BY DEF WholeUnlessSwallowed
    <3>4. CASE x \in emitted
      <4>1. x.of \in lost
        BY <3>4 DEF WholeUnlessSwallowed
      <4> QED
        BY <2>1, <4>1
    <3>5. CASE x = [of |-> log[i].of, request |-> last, whole |-> w]
      <4>1. x.whole = w /\ x.of = log[i].of
        BY <3>5
      <4>2. ~w
        BY <4>1
      <4> QED
        BY <3>3, <4>1, <4>2
    <3> QED
      BY <2>5, <3>4, <3>5
  <2> QED
    BY <2>1, <2>3, <2>4, <2>5, OneResponse
<1>4. ASSUME NEW n \in 0..Len(wire), Swallows(n) \/ MakesUp(n)
      PROVE  WholeUnlessSwallowed'
  BY <1>4 DEF Swallows, MakesUp, WholeUnlessSwallowed
<1>5. ReadInput \/ (\E q \in Requests : NetworkAnswers(q)) => UNCHANGED <<emitted, lost>>
  BY DEF ReadInput, NetworkAnswers, history
<1> QED
  BY <1>1, <1>2, <1>3, <1>4, <1>5, Effects

\* Nothing is on the way but what was, and what is asked now.
LEMMA NothingNew ==
    ASSUME UTypes, OnePlace, [UNext]_uvars
    PROVE  pending' \cup Named(wire') \cup Named(buffer') \subseteq Outstanding \cup (sent' \ sent)
<1> USE DEF Outstanding
<1>1. CASE UNCHANGED <<wire, buffer, last, pending, sent, emitted, times, lost, open>>
  BY <1>1
<1>2. CASE \E q \in Requests : NetworkAnswers(q)
  BY <1>2, LineCame DEF NetworkAnswers
<1>3. CASE ReadInput
  <2>1. PICK n \in 0..Len(wire) : wire' = Rest(n) /\ buffer' = buffer \o Come(n)
    BY <1>3 DEF ReadInput
  <2>2. Named(wire') \subseteq Named(wire)
    BY <2>1, WireCut
  <2>3. Named(buffer') \subseteq Named(buffer) \cup Named(wire)
    BY <2>1, BufferGrows
  <2> QED
    BY <1>3, <2>2, <2>3 DEF ReadInput
<1>4. CASE ProcessLine
  <2>1. Named(buffer') \subseteq Named(buffer) /\ wire' = wire /\ Quiet
    BY <1>4, LineLeaves
  <2> QED
    BY <2>1 DEF Quiet
<1>5. ASSUME NEW n \in 0..Len(wire), wire' = Rest(n), buffer' = buffer,
             Quiet \/ \E x \in Jobs : Notes(x)
      PROVE  pending' \cup Named(wire') \cup Named(buffer') \subseteq Outstanding \cup (sent' \ sent)
  <2>1. Named(wire') \subseteq Named(wire)
    BY <1>5, WireCut
  <2>2. pending' \subseteq pending \cup (sent' \ sent)
    BY <1>5 DEF Quiet, Notes
  <2> QED
    BY <1>5, <2>1, <2>2
<1> QED
  BY <1>1, <1>2, <1>3, <1>4, <1>5, Effects DEF Swallows, Hears, MakesUp

\* What is given to the callbacks carries the request noted last.
LEMMA CarriesTheLast ==
    ASSUME UTypes, OnePlace, [UNext]_uvars
    PROVE  \/ emitted' = emitted
           \/ /\ Quiet
              /\ \A x \in emitted' \ emitted :
                    x.request = last /\ (x.of = last \/ x.of \in Outstanding)
<1>1. ASSUME NEW text \in Seq(Fragments), NEW results \in Outcomes(text), Emit(results, last)
      PROVE  \A x \in emitted' \ emitted : x.request = last /\ x.of \in Named(text)
  BY <1>1, OneResponse DEF Named
<1>2. CASE ProcessLine
  <2> DEFINE line == SubSeq(buffer, 1, FirstEnd)
  <2>1. /\ line \in Seq(Fragments) /\ Quiet
        /\ \A i \in DOMAIN line : i \in DOMAIN buffer /\ line[i] = buffer[i]
        /\ \E results \in Outcomes(line) : Emit(results, last)
    BY <1>2, LineLeaves
  <2> HIDE DEF line
  <2>2. Named(line) \subseteq Outstanding
    BY <2>1 DEF Named, Outstanding
  <2> QED
    BY <1>1, <2>1, <2>2
<1>3. ASSUME NEW n \in 0..Len(wire), NEW results, Hears(n, results)
      PROVE  \A x \in emitted' \ emitted : x.request = last /\ x.of \in Outstanding
  <2>1. wire' = Rest(n) /\ Emit(results, last)
    BY <1>3 DEF Hears
  <2>2. PICK k \in 0..n : results \in Outcomes(Come(k))
    BY <1>3 DEF Hears
  <2>3. Come(k) \in Seq(Fragments) /\ Named(Come(k)) \subseteq Named(wire)
    <3>1. Named(Come(n)) \subseteq Named(wire)
      BY <2>1, WireCut
    <3> QED
      BY <3>1, LogKeepsBeginning
  <2> QED
    BY <1>1, <2>1, <2>2, <2>3 DEF Outstanding
<1>4. ASSUME NEW n \in 0..Len(wire), MakesUp(n)
      PROVE  \A x \in emitted' \ emitted : x.request = last /\ x.of = last
  BY <1>4 DEF MakesUp
<1>5. ReadInput \/ (\E q \in Requests : NetworkAnswers(q)) => emitted' = emitted
  BY DEF ReadInput, NetworkAnswers, history
<1> QED
  BY <1>2, <1>3, <1>4, <1>5, Effects DEF Swallows

LEMMA AttributionStep ==
    ASSUME UTypes, OnePlace, NotedInTime, AttributedUnlessOverlapped, [UNext]_uvars
    PROVE  NotedInTime' /\ AttributedUnlessOverlapped'
<1>1. CASE Quiet
  <2>1. pending' \cup Named(wire') \cup Named(buffer') \subseteq Outstanding
    BY <1>1, NothingNew DEF Quiet
  <2>2. \A x \in emitted' \ emitted : x.request = last /\ (x.of = last \/ x.of \in Outstanding)
    BY CarriesTheLast
  <2>3. NotedInTime'
    <3>1. last \in sent \cup {NoRequest}
      BY DEF NotedInTime
    <3>2. \A x \in emitted' : x.request \in sent \cup {NoRequest}
      BY <2>2, <3>1 DEF NotedInTime
    <3> QED
      BY <1>1, <2>1, <3>2 DEF NotedInTime, Quiet, Outstanding
  <2>4. AttributedUnlessOverlapped'
    <3>1. \A x \in emitted' \ emitted :
            x.request # x.of => x.request # NoRequest /\ x.of \in open[x.request]
      BY <2>2 DEF NotedInTime, Outstanding
    <3> QED
      BY <1>1, <3>1 DEF AttributedUnlessOverlapped, Quiet
  <2> QED
    BY <2>3, <2>4
<1>2. CASE UNCHANGED emitted /\ \E x \in Jobs : Notes(x)
  <2>1. PICK x \in Jobs : Notes(x)
    BY <1>2
  <2>2. /\ x \notin sent /\ last' = x /\ sent' = sent \cup {x}
        /\ open'[x] = Outstanding /\ \A y \in Jobs \ {x} : open'[y] = open[y]
    BY <2>1, NoteTypes DEF Notes
  <2>3. \A y \in emitted : y.request # NoRequest => y.request \in Jobs \ {x}
    BY <2>2 DEF NotedInTime, UTypes
  <2>4. AttributedUnlessOverlapped'
    BY <1>2, <2>2, <2>3 DEF AttributedUnlessOverlapped
  <2>5. x # NoRequest
    BY RequestAssumption DEF Jobs
  <2>6. \A q \in pending' \cup Named(wire') \cup Named(buffer') : q # x => q \in open'[x]
    BY <2>2, NothingNew
  <2>7. NotedInTime'
    BY <1>2, <2>2, <2>5, <2>6 DEF NotedInTime
  <2> QED
    BY <2>4, <2>7
<1>3. CASE \E q \in Requests : NetworkAnswers(q)
  <2>1. UNCHANGED <<last, sent, open, emitted>>
    BY <1>3 DEF NetworkAnswers, history
  <2>2. pending' \cup Named(wire') \cup Named(buffer') \subseteq Outstanding
    BY <2>1, NothingNew
  <2> QED
    BY <2>1, <2>2 DEF NotedInTime, AttributedUnlessOverlapped, Outstanding
<1>4. ReadInput \/ ProcessLine => Quiet
  BY DEF ReadInput, ProcessLine, Quiet, history
<1> QED
  BY <1>1, <1>2, <1>3, <1>4, Effects DEF Swallows, Quiet

-----------------------------------------------------------------------------
(* Theorems.                                                               *)

LEMMA UInitInv == UInit => UInv
<1> SUFFICES ASSUME UInit PROVE UInv
  OBVIOUS
<1>1. wire = <<>> /\ buffer = <<>>
  BY DEF UInit
<1>2. wire \in Seq(Fragments) /\ buffer \in Seq(Fragments)
  BY <1>1
<1>3. DOMAIN wire = {} /\ DOMAIN buffer = {}
  BY <1>1
<1>4. UTypes
  BY <1>2 DEF UInit, UTypes, Asked, Jobs
<1>5. Named(wire) = {} /\ Named(buffer) = {}
  BY <1>3 DEF Named
<1>6. OnePlace
  BY <1>3, <1>5 DEF UInit, OnePlace, Distinct
<1>7. EmittedIsGone
  BY DEF UInit, EmittedIsGone
<1>8. LinesHoldTogether
  BY <1>3 DEF LinesHoldTogether
<1>9. NotedInTime /\ AttributedUnlessOverlapped /\ WholeUnlessSwallowed
  BY <1>5 DEF UInit, NotedInTime, AttributedUnlessOverlapped, WholeUnlessSwallowed
<1> QED
  BY <1>4, <1>6, <1>7, <1>8, <1>9 DEF UInv

LEMMA UNextInv == UInv /\ [UNext]_uvars => UInv'
  BY UTypesStep, OnePlaceStep, EmittedIsGoneStep, LinesHoldTogetherStep, AttributionStep, WholeStep
     DEF UInv

\* The inductive invariant holds however the network's answers, the readings of the
\* line and the commands are interleaved.
THEOREM SessionInvariance == USpec => []UInv
<1> QED
  BY UInitInv, UNextInv, PTL DEF USpec

\* No answer is given to the callbacks twice (ProcessModemInput, SendUssd).
THEOREM AnswersOnce == USpec => []EmittedOnce
<1>1. UInv => EmittedOnce
  <2> SUFFICES ASSUME UInv, NEW q \in Requests PROVE times[q] <= 1
    BY DEF EmittedOnce
  <2>1. times[q] \in Nat
    BY DEF UInv, UTypes
  <2>2. times[q] > 0 => times[q] = 1
    BY DEF UInv, EmittedIsGone
  <2> QED
    BY <2>1, <2>2
<1> QED
  BY <1>1, SessionInvariance, PTL

\* A response carries the request it answers, unless another was sent in between
\* (m_LastUssdRequest).
THEOREM AnswersAttributed == USpec => []AttributedUnlessOverlapped
<1>1. UInv => AttributedUnlessOverlapped
  BY DEF UInv
<1> QED
  BY <1>1, SessionInvariance, PTL

\* What is emitted is a whole line, unless a command swallowed a part of it
\* (m_ModemInputBuffer, ClearRX).
THEOREM AnswersWhole == USpec => []WholeUnlessSwallowed
<1>1. UInv => WholeUnlessSwallowed
  BY DEF UInv
<1> QED
  BY <1>1, SessionInvariance, PTL
=============================================================================
