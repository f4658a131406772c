-------------------------- MODULE OutFolder_proofs --------------------------
(* Proofs about OutFolder, for every set of jobs, any number of restarts    *)
(* and, but for NoSilentLoss, any number of late answers.                   *)
EXTENDS OutFolder, SequenceTheorems, TLAPS

USE JobAssumption, LateAssumption DEF Kinds

-----------------------------------------------------------------------------
(* The inductive invariant.                                                *)

Working == {"cmgs", "pdu", "ussd", "ccfc", "atd"}
Idle == {"loop", "opendir", "readdir"}
Finished == {"failed", "unlink"}

Files == [name : {"none", "hidden", "visible", "gone"}, text : {"open", "whole", "cut"}]

OTypes ==
    /\ file \in [Jobs -> Files]
    /\ pc \in Working \cup Idle \cup Finished
    /\ cur \in Jobs \cup {NoJob}
    /\ done \in [Jobs -> Nat]
    /\ failed \subseteq Jobs /\ unheard \subseteq Jobs /\ torn \subseteq Jobs
    /\ crashes \in Nat /\ kept \in [Jobs -> Nat]

\* A name that readdir can return is given to a file that is not written any more.
PublishedClosed == \A j \in Jobs : file[j].name \in {"visible", "gone"} => file[j].text # "open"

\* What was taken up was published, and was whole or cut for ever.
TornIsCut == \A j \in torn : file[j].text = "cut" /\ file[j].name \in {"visible", "gone"}

\* The job at hand is in the directory, and the step is one of its kind.
JobAtHand ==
    /\ pc \in Idle <=> cur = NoJob
    /\ pc \notin Idle => file[cur].name = "visible"
    /\ pc \in {"cmgs", "pdu"} => Kind[cur] = "sms"
    /\ pc = "ussd" => Kind[cur] = "ussd"
    /\ pc = "ccfc" => Kind[cur] = "cf"
    /\ pc = "atd" => Kind[cur] \in {"cf", "mmi"}

\* How often a job may be carried out in n runs.
Share(n, j) == IF Kind[j] = "cf" /\ j \in unheard THEN n + n ELSE n

\* How often a job was carried out at most: in earlier runs only while it is
\* still to be carried out, with the AT+CCFC that got no answer before ATD.
DoneSoFar ==
    \A j \in Jobs :
        /\ done[j] <= Share(Runs(j), j)
        /\ file[j].name # "gone" /\ (cur # j \/ pc \in {"cmgs", "pdu", "ussd", "ccfc"})
             => done[j] <= Share(crashes + kept[j], j)
        /\ cur = j /\ pc = "atd" => done[j] < Share(Runs(j), j)

OInv == OTypes /\ PublishedClosed /\ TornIsCut /\ JobAtHand /\ DoneSoFar

-----------------------------------------------------------------------------
(* What a command may change.                                              *)

\* A command carries out the job at hand once or not at all; only the last
\* command of a job can.
LEMMA CommandCounts ==
    ASSUME OTypes, NEW command, NEW expected, NEW got, Command(command, expected, got)
    PROVE  /\ done' \in [Jobs -> Nat]
           /\ \A j \in Jobs : done'[j] = done[j] \/ (j = cur /\ done'[j] = done[j] + 1)
           /\ command \in {"other", "cmgs"} => done' = done
<1>1. PICK r \in Reactions(command) :
        done' = IF r.does THEN [done EXCEPT ![cur] = @ + 1] ELSE done
  BY DEF Command
<1>2. /\ done' \in [Jobs -> Nat]
      /\ \A j \in Jobs : done'[j] = done[j] \/ (j = cur /\ done'[j] = done[j] + 1)
  <2>1. CASE r.does
    <3>1. done' = [done EXCEPT ![cur] = done[cur] + 1]
      BY <1>1, <2>1
    <3>2. done \in [Jobs -> Nat]
      BY DEF OTypes
    <3>3. CASE cur \in Jobs
      BY <3>1, <3>2, <3>3
    <3>4. CASE cur \notin Jobs
      <4>1. \A j \in Jobs : done'[j] = done[j]
        BY <3>1, <3>2, <3>4
      <4>2. done' = done
        BY <3>1, <3>2, <3>4
      <4> QED
        BY <3>2, <4>1, <4>2
    <3> QED
      BY <3>3, <3>4
  <2>2. CASE ~r.does
    BY <1>1, <2>2 DEF OTypes
  <2> QED
    BY <2>1, <2>2
<1>3. ASSUME command \in {"other", "cmgs"} PROVE ~r.does
  <2> USE DEF Reaction, Refusals
  <2>1. CASE prompt # <<>>
    <3>1. Reactions(command) = {Reaction(<<NoJob>>, a, FALSE) : a \in {<<>>, <<"prompt">>}}
      BY <1>3, <2>1 DEF Reactions
    <3> QED
      BY <3>1, <1>1
  <2>2. CASE prompt = <<>> /\ command = "cmgs"
    <3>1. Reactions(command) =
            {Reaction(<<cur>>, <<"prompt">>, FALSE)} \cup Refusals(<<>>)
      BY <2>2 DEF Reactions
    <3> QED
      BY <3>1, <1>1
  <2>3. CASE prompt = <<>> /\ command = "other"
    <3>1. Reactions(command) = {Reaction(<<>>, <<"ok">>, FALSE)} \cup Refusals(<<>>)
      BY <2>3 DEF Reactions
    <3> QED
      BY <3>1, <1>1
  <2> QED
    BY <1>3, <2>1, <2>2, <2>3
<1> QED
  BY <1>1, <1>2, <1>3

-----------------------------------------------------------------------------
(* The invariant holds at the start and every action keeps it.             *)

LEMMA InitInv == OInit => OInv
<1> SUFFICES ASSUME OInit PROVE OInv
  OBVIOUS
<1> USE DEF OInit
<1>1. OTypes
  BY DEF OTypes, Files, Working, Idle, Finished
<1>2. PublishedClosed /\ TornIsCut
  BY DEF PublishedClosed, TornIsCut
<1>3. JobAtHand
  BY DEF JobAtHand, Idle
<1>4. DoneSoFar
  BY DEF DoneSoFar, Share, Runs
<1> QED
  BY <1>1, <1>2, <1>3, <1>4 DEF OInv

\* sms-send touches its own file only, and none that the daemon has in hand.
LEMMA SaveKeeps ==
    ASSUME OInv, NEW j \in Jobs, SaveSMS(j)
    PROVE  OInv'
<1>1. UNCHANGED <<pc, folder, prompt, late, history>>
  BY DEF SaveSMS, Create, WriteText, Publish
<1>2. /\ file' \in [Jobs -> Files]
      /\ \A i \in Jobs \ {j} : file'[i] = file[i]
      /\ file[j].name # "gone" /\ file'[j].name # "gone"
      /\ file[j].name = "visible" => file'[j].name = "visible"
      /\ file'[j].name = "visible" => file'[j].text # "open"
      /\ file[j].name = "visible" => file'[j] = file[j]
  <2> USE DEF OInv, OTypes, PublishedClosed, Files
  <2>1. CASE Create(j)
    BY <2>1 DEF Create
  <2>2. CASE WriteText(j)
    BY <2>2 DEF WriteText
  <2>3. CASE Publish(j)
    BY <2>3 DEF Publish
  <2> QED
    BY <2>1, <2>2, <2>3 DEF SaveSMS
<1>3. OTypes'
  BY <1>1, <1>2 DEF OInv, OTypes, folder, history
<1>4. PublishedClosed' /\ TornIsCut'
  BY <1>1, <1>2 DEF OInv, OTypes, PublishedClosed, TornIsCut, history
<1>5. JobAtHand'
  BY <1>1, <1>2 DEF OInv, OTypes, JobAtHand, folder, history, Idle
<1>6. DoneSoFar'
  BY <1>1, <1>2 DEF OInv, DoneSoFar, Share, Runs, folder, history
<1> QED
  BY <1>3, <1>4, <1>5, <1>6 DEF OInv

\* The steps of a scan between two jobs, and the rest of the cycle.
LEMMA ScanKeeps ==
    ASSUME OInv, RestOfCycle \/ OpenDir \/ ScanEnds \/ PromptExpires
    PROVE  OInv'
<1>1. done' = done
  BY CommandCounts DEF RestOfCycle, OpenDir, ScanEnds, PromptExpires, OInv, history
<1>2. /\ UNCHANGED <<file, cur, failed, unheard, torn, crashes, kept>>
      /\ pc' = pc \/ (pc \in Idle /\ pc' \in Idle)
  BY DEF RestOfCycle, OpenDir, ScanEnds, PromptExpires, folder, history, Idle
<1>3. OTypes' /\ PublishedClosed' /\ TornIsCut'
  BY <1>1, <1>2 DEF OInv, OTypes, PublishedClosed, TornIsCut
<1>4. JobAtHand'
  BY <1>2 DEF OInv, JobAtHand, Idle
<1>5. DoneSoFar'
  BY <1>1, <1>2 DEF OInv, OTypes, JobAtHand, DoneSoFar, Share, Runs, Idle
<1> QED
  BY <1>3, <1>4, <1>5 DEF OInv

\* A job that is taken up was published, so its file is not written any more; it
\* was carried out only when it was found before.
LEMMA NextEntryKeeps ==
    ASSUME OInv, NEW j \in Jobs, NextEntry(j)
    PROVE  OInv'
<1> USE DEF NextEntry, OInv
<1>1. PICK kind \in KindsRead(j) : pc' = FirstStep(kind)
  OBVIOUS
<1>2. kind \in Kinds /\ (kind = Kind[j] \/ kind = "bad" \/ (kind = "mmi" /\ Kind[j] = "cf"))
  BY DEF KindsRead
<1>3. /\ pc' \in {"cmgs", "ussd", "ccfc", "atd", "failed", "unlink"}
      /\ pc' = "cmgs" => Kind[j] = "sms"
      /\ pc' = "ussd" => Kind[j] = "ussd"
      /\ pc' = "ccfc" => Kind[j] = "cf"
      /\ pc' = "atd" => Kind[j] \in {"cf", "mmi"}
  BY <1>1, <1>2 DEF FirstStep
<1>4. file[j].name = "visible" /\ file[j].text \in {"whole", "cut"}
  BY DEF Visible, PublishedClosed, OTypes, Files
<1>5. cur = NoJob
  BY DEF JobAtHand, Idle
<1>6. OTypes'
  BY <1>3, <1>4 DEF OTypes, Working, Idle, Finished
<1>7. PublishedClosed' /\ TornIsCut'
  BY <1>4 DEF PublishedClosed, TornIsCut
<1>8. JobAtHand'
  BY <1>3, <1>4 DEF JobAtHand, Idle
<1>9. DoneSoFar'
  <2>1. done[j] <= Share(crashes + kept[j], j) /\ Share(crashes + kept[j], j) < Share(Runs(j), j)
    BY <1>4, <1>5 DEF DoneSoFar, Share, Runs, OTypes
  <2>2. \A i \in Jobs : /\ Share(crashes + kept[i], i)' = Share(crashes + kept[i], i)
                       /\ Share(Runs(i), i)' = Share(Runs(i), i)
    BY DEF Share, Runs
  <2>3. done[j] < Share(Runs(j), j)
    BY <2>1 DEF Share, Runs, OTypes
  <2> QED
    BY <1>3, <1>4, <1>5, <2>1, <2>2, <2>3 DEF DoneSoFar
<1> QED
  BY <1>6, <1>7, <1>8, <1>9

\* The commands of a job.  Only the last one may carry it out, but for AT+CCFC,
\* which is not answered in time when ATD follows.
LEMMA JobStepKeeps ==
    ASSUME OInv, AskPrompt \/ SendPdu \/ SendUssd \/ QueryCallForwarding \/ Dial
    PROVE  OInv'
<1> USE DEF OInv
<1>1. PICK command, expected, got : Command(command, expected, got) /\ (pc = "cmgs" => command = "cmgs")
  BY DEF AskPrompt, SendPdu, SendUssd, QueryCallForwarding, Dial
<1>2. /\ UNCHANGED <<file, cur, failed, torn, crashes, kept>>
      /\ unheard' = unheard \/ (pc = "ccfc" /\ unheard' = unheard \cup {cur})
      /\ pc \in {"cmgs", "pdu", "ussd", "ccfc", "atd"}
      /\ pc' \in {"pdu", "unlink", "failed", "atd"}
      /\ pc' = "pdu" => pc = "cmgs"
      /\ pc' = "atd" => pc = "ccfc" /\ unheard' = unheard \cup {cur}
  <2>1. CASE QueryCallForwarding
    <3>1. PICK answer \in Final \cup {"none"} :
            /\ pc' = AfterCcfc(answer)
            /\ unheard' = IF answer = "none" THEN unheard \cup {cur} ELSE unheard
      BY <2>1 DEF QueryCallForwarding
    <3>2. /\ AfterCcfc(answer) \in {"unlink", "failed", "atd"}
          /\ AfterCcfc(answer) = "atd" => answer = "none"
      BY DEF AfterCcfc, Final
    <3> QED
      BY <2>1, <3>1, <3>2 DEF QueryCallForwarding, folder
  <2>2. CASE AskPrompt \/ SendPdu \/ SendUssd \/ Dial
    BY <2>2 DEF AskPrompt, SendPdu, SendUssd, Dial, folder
  <2> QED
    BY <2>1, <2>2
<1>3. cur \in Jobs /\ file[cur].name = "visible"
  BY <1>2 DEF OTypes, JobAtHand, Idle
<1>4. /\ done' \in [Jobs -> Nat]
      /\ \A j \in Jobs : done'[j] = done[j] \/ (j = cur /\ done'[j] = done[j] + 1)
      /\ pc = "cmgs" => done' = done
  BY <1>1, CommandCounts
<1>5. OTypes'
  BY <1>2, <1>3, <1>4 DEF OTypes, Working, Idle, Finished
<1>6. PublishedClosed' /\ TornIsCut'
  BY <1>2 DEF PublishedClosed, TornIsCut
<1>7. JobAtHand'
  BY <1>2, <1>3 DEF JobAtHand, Idle, OTypes
<1>8. DoneSoFar'
  <2>1. ASSUME NEW j \in Jobs, j # cur PROVE done'[j] = done[j] /\ (j \in unheard' <=> j \in unheard)
    BY <1>2, <1>4, <2>1
  <2>2. CASE pc = "cmgs"
    BY <2>1, <2>2, <1>2, <1>3, <1>4 DEF DoneSoFar, Share, Runs, OTypes
  <2>3. CASE pc \in {"pdu", "ussd"}
    BY <2>1, <2>3, <1>2, <1>3, <1>4 DEF DoneSoFar, Share, Runs, OTypes, JobAtHand
  <2>4. CASE pc = "ccfc"
    BY <2>1, <2>4, <1>2, <1>3, <1>4 DEF DoneSoFar, Share, Runs, OTypes, JobAtHand
  <2>5. CASE pc = "atd"
    BY <2>1, <2>5, <1>2, <1>3, <1>4 DEF DoneSoFar, Share, Runs, OTypes, JobAtHand
  <2> QED
    BY <1>2, <2>2, <2>3, <2>4, <2>5
<1> QED
  BY <1>5, <1>6, <1>7, <1>8

\* A job that is through is reported and unlinked; what it was carried out stays
\* within its share, and a file that cannot be unlinked gives it a new one.
LEMMA JobEndKeeps ==
    ASSUME OInv, Report \/ Unlink
    PROVE  OInv'
<1> USE DEF OInv
<1>1. UNCHANGED <<done, unheard, torn, crashes>>
  BY DEF Report, Unlink
<1>2. pc \in {"failed", "unlink"} /\ cur \in Jobs /\ cur # NoJob /\ file[cur].name = "visible"
  BY DEF Report, Unlink, OTypes, JobAtHand, Idle
<1>3. CASE Report
  <2>1. UNCHANGED <<file, cur, kept>> /\ pc' = "unlink" /\ failed' = failed \cup {cur}
    BY <1>3 DEF Report, folder
  <2>2. OTypes' /\ PublishedClosed' /\ TornIsCut' /\ JobAtHand'
    BY <1>1, <1>2, <2>1 DEF OTypes, PublishedClosed, TornIsCut, JobAtHand, Idle, Finished
  <2>3. DoneSoFar'
    BY <1>1, <1>2, <2>1 DEF DoneSoFar, Share, Runs
  <2> QED
    BY <2>2, <2>3
<1>4. CASE Unlink /\ UNCHANGED kept
  <2>1. /\ file' = [file EXCEPT ![cur].name = "gone"]
        /\ cur' = NoJob /\ pc' = "readdir" /\ failed' = failed
    <3>1. kept \in [Jobs -> Nat]
      BY DEF OTypes
    <3>2. kept' # [kept EXCEPT ![cur] = @ + 1]
      BY <1>2, <1>4, <3>1
    <3> QED
      BY <1>4, <3>2 DEF Unlink
  <2>2. OTypes' /\ JobAtHand'
    BY <1>1, <1>2, <1>4, <2>1 DEF OTypes, Files, JobAtHand, Idle
  <2>3. PublishedClosed' /\ TornIsCut'
    BY <1>1, <1>2, <2>1 DEF OTypes, Files, PublishedClosed, TornIsCut
  <2>4. DoneSoFar'
    BY <1>1, <1>2, <1>4, <2>1 DEF DoneSoFar, Share, Runs, OTypes
  <2> QED
    BY <2>2, <2>3, <2>4
<1>5. CASE Unlink /\ kept' = [kept EXCEPT ![cur] = @ + 1] /\ UNCHANGED file
  <2>1. cur' = NoJob /\ pc' = "readdir" /\ failed' = failed
    BY <1>5 DEF Unlink
  <2>2. OTypes' /\ PublishedClosed' /\ TornIsCut' /\ JobAtHand'
    BY <1>1, <1>2, <1>5, <2>1 DEF OTypes, PublishedClosed, TornIsCut, JobAtHand, Idle
  <2>3. DoneSoFar'
    BY <1>1, <1>2, <1>5, <2>1 DEF DoneSoFar, Share, Runs, OTypes
  <2> QED
    BY <2>2, <2>3
<1> QED
  BY <1>3, <1>4, <1>5 DEF Unlink

\* A restart gives every job a new share.
LEMMA RestartKeeps ==
    ASSUME OInv, DaemonRestarts
    PROVE  OInv'
<1> USE DEF OInv, DaemonRestarts
<1>1. OTypes'
  BY DEF OTypes, Idle
<1>2. PublishedClosed' /\ TornIsCut' /\ JobAtHand'
  BY DEF PublishedClosed, TornIsCut, JobAtHand, Idle
<1>3. DoneSoFar'
  BY DEF DoneSoFar, Share, Runs, OTypes
<1> QED
  BY <1>1, <1>2, <1>3

LEMMA StepKeeps == OInv /\ [ONext]_ovars => OInv'
<1> SUFFICES ASSUME OInv, [ONext]_ovars PROVE OInv'
  OBVIOUS
<1>1. ASSUME NEW j \in Jobs, SaveSMS(j) PROVE OInv'
  BY <1>1, SaveKeeps
<1>2. CASE RestOfCycle \/ OpenDir \/ ScanEnds \/ PromptExpires
  BY <1>2, ScanKeeps
<1>3. ASSUME NEW j \in Jobs, NextEntry(j) PROVE OInv'
  BY <1>3, NextEntryKeeps
<1>4. CASE AskPrompt \/ SendPdu \/ SendUssd \/ QueryCallForwarding \/ Dial
  BY <1>4, JobStepKeeps
<1>5. CASE Report \/ Unlink
  BY <1>5, JobEndKeeps
<1>6. CASE DaemonRestarts
  BY <1>6, RestartKeeps
<1>7. CASE UNCHANGED ovars
  BY <1>7 DEF ovars, OInv, OTypes, PublishedClosed, TornIsCut, JobAtHand, DoneSoFar, Share, Runs
<1> QED
  BY <1>1, <1>2, <1>3, <1>4, <1>5, <1>6, <1>7 DEF ONext

\* What the safety properties rest on holds in every reachable state.
THEOREM FolderInvariance == OSpec => []OInv
<1> QED
  BY InitInv, StepKeeps, PTL DEF OSpec

-----------------------------------------------------------------------------
(* The safety properties.                                                  *)

\* However many processes of sms-send write while the daemon scans, it reads no job
\* that is still being written: what it reads in part is what a write left that
\* failed, because SaveSMS does not look at the results of fputs and fclose.
THEOREM NothingIsTornButByFailedWrites == OSpec => []TornOnlyIfUnwritten
<1>1. OInv => TornOnlyIfUnwritten
  BY DEF OInv, TornIsCut, TornOnlyIfUnwritten
<1> QED
  BY <1>1, FolderInvariance, PTL

\* The network carries out a job once, whatever answers are lost or late, and again
\* only after a restart of the daemon or an unlink of its file that failed; a
\* call-forwarding code excepted.
THEOREM NothingIsDoneTwice == OSpec => []DoneOncePerRun
<1>1. OInv => DoneOncePerRun
  BY DEF OInv, DoneSoFar, Share, DoneOncePerRun
<1> QED
  BY <1>1, FolderInvariance, PTL

\* A call-forwarding code is carried out twice in one of these runs only if its AT+CCFC was
\* not answered in time.
THEOREM OnlyTheUnheardIsDialledToo == OSpec => []DialledTwiceOnlyIfUnheard
<1>1. OInv => DialledTwiceOnlyIfUnheard
  BY DEF OInv, OTypes, DoneSoFar, Share, Runs, DialledTwiceOnlyIfUnheard
<1> QED
  BY <1>1, FolderInvariance, PTL

-----------------------------------------------------------------------------
(* With at most one late answer, a part whose file is gone was sent or      *)
(* reported: the answer before the prompt is read in asking for the prompt,  *)
(* so an OK that follows can only be the answer to the PDU.                 *)

Answers == {<<>>, <<"prompt">>, <<"ok">>, <<"error">>}

LEMMA ZeroOrOne == \A k : k \in Nat /\ k <= 1 <=> k = 0 \/ k = 1
  OBVIOUS

\* A sequence of at most one answer is one of four.
LEMMA ShortSequences ==
    /\ \A s \in Answers : s \in Seq(Go) /\ Len(s) <= 1
    /\ \A s \in Seq(Go) : Len(s) <= 1 => s \in Answers
    /\ \A s \in Seq(Go) : Len(s) = 0 => s = <<>>
    /\ \A s \in Seq(Go) : Len(s) = 1 => s = <<s[1]>>
<1>1. \A s \in Answers : s \in Seq(Go) /\ Len(s) <= 1
  <2>1. /\ <<>> \in Seq(Go) /\ Len(<<>>) <= 1
        /\ \A a \in Go : <<a>> \in Seq(Go) /\ Len(<<a>>) <= 1
    OBVIOUS
  <2> QED
    BY <2>1 DEF Answers, Go
<1>2. \A s \in Seq(Go) : Len(s) = 0 => s = <<>>
  BY EmptySeq
<1>3. ASSUME NEW s \in Seq(Go), Len(s) = 1 PROVE s = <<s[1]>> /\ s[1] \in Go
  <2>1. s[1] \in Go
    BY <1>3, ElementOfSeq
  <2>2. /\ <<s[1]>> \in Seq(Go) /\ Len(<<s[1]>>) = 1
        /\ \A i \in 1..1 : <<s[1]>>[i] = s[i]
    BY <2>1
  <2> QED
    BY <1>3, <2>1, <2>2, SeqEqual
<1>4. ASSUME NEW s \in Seq(Go), Len(s) <= 1 PROVE s \in Answers
  <2>1. Len(s) = 0 \/ Len(s) = 1
    <3>1. Len(s) \in Nat
      BY LenProperties
    <3> QED
      BY <1>4, <3>1, ZeroOrOne
  <2>2. CASE Len(s) = 0
    BY <1>2, <2>2 DEF Answers
  <2>3. CASE Len(s) = 1
    <3>1. s = <<s[1]>> /\ s[1] \in Go
      BY <1>3, <2>3
    <3>2. \A a \in Go : <<a>> \in Answers
      BY DEF Go, Answers
    <3> QED
      BY <3>1, <3>2
  <2> QED
    BY <2>1, <2>2, <2>3
<1> QED
  BY <1>1, <1>2, <1>3, <1>4

\* What the daemon makes of at most one late answer and the answer itself.
LEMMA OneLateAnswer ==
    ASSUME MaxLate <= 1, late \in Answers,
           NEW answer \in Answers, NEW expected, NEW x \in Expect(answer, expected)
    PROVE  /\ x.late \in Answers
           /\ expected = Go /\ x.got = "prompt" => x.late \in {<<>>, answer}
           /\ x.got = "ok" /\ late # <<"ok">> => answer = <<"ok">>
<1> DEFINE Line(d) == SubSeq(late, d + 1, Len(late)) \o answer
           Rest(q, n) == LET r == SubSeq(q, n + 1, Len(q))
                         IN  SubSeq(r, 1, IF Len(r) > MaxLate THEN MaxLate ELSE Len(r))
           Outcomes(q) ==
             {[got |-> IF n > 0 /\ q[n] \in expected THEN q[n] ELSE "none", late |-> Rest(q, n)] :
                n \in {m \in 0..Len(q) : \A i \in 1..(m - 1) : q[i] \notin expected}}
<1>1. PICK d \in 0..Len(late) : x \in Outcomes(Line(d))
  <2>1. x \in UNION {Outcomes(Line(d)) : d \in 0..Len(late)}
    BY DEF Expect
  <2> HIDE DEF Outcomes, Line
  <2> QED
    BY <2>1
<1>2. /\ late \in Seq(Go) /\ Len(late) <= 1 /\ Len(late) \in Nat
      /\ answer \in Seq(Go) /\ Len(answer) <= 1 /\ Len(answer) \in Nat
  BY ShortSequences, LenProperties
<1>3. PICK w \in {<<>>, late} : Line(d) = w \o answer
  <2>1. CASE d = 0
    <3>1. SubSeq(late, 1, Len(late)) = late
      BY <1>2, SubSeqFull
    <3>2. d + 1 = 1
      BY <2>1
    <3>3. Line(d) = late \o answer
      BY <3>1, <3>2
    <3> HIDE DEF Line
    <3> QED
      BY <3>3
  <2>2. CASE d = Len(late)
    <3>1. SubSeq(late, d + 1, Len(late)) = <<>>
      BY <1>2, <2>2, SubSeqEmpty
    <3>2. Line(d) = <<>> \o answer
      BY <3>1
    <3> HIDE DEF Line
    <3> QED
      BY <3>2
  <2>3. d = 0 \/ d = Len(late)
    BY <1>2
  <2> HIDE DEF Line
  <2> QED
    BY <2>1, <2>2, <2>3
<1>4. w \in Seq(Go) /\ Len(w) <= 1 /\ Len(w) \in Nat
  <2>1. <<>> \in Seq(Go) /\ Len(<<>>) = 0
    BY EmptySeq
  <2>2. CASE w = <<>>
    BY <2>1, <2>2
  <2>3. CASE w = late
    BY <1>2, <2>3
  <2> QED
    BY <2>2, <2>3
<1>5. PICK q : q = w \o answer
  OBVIOUS
<1>6. /\ q \in Seq(Go)
      /\ Len(q) = Len(w) + Len(answer)
      /\ \A i \in 1..Len(q) : q[i] = IF i <= Len(w) THEN w[i] ELSE answer[i - Len(w)]
  BY <1>2, <1>4, <1>5, ConcatProperties
<1>7. PICK n \in 0..Len(q) :
        /\ \A i \in 1..(n - 1) : q[i] \notin expected
        /\ x.got = IF n > 0 /\ q[n] \in expected THEN q[n] ELSE "none"
        /\ x.late = Rest(q, n)
  <2>1. x \in Outcomes(q)
    BY <1>1, <1>3, <1>5
  <2> HIDE DEF Rest
  <2> QED
    BY <2>1
<1>8. /\ Rest(q, n) \in Seq(Go) /\ Len(Rest(q, n)) \in {0, 1}
      /\ Len(Rest(q, n)) = 1 => n < Len(q) /\ Rest(q, n)[1] = q[n + 1]
  <2> DEFINE r == SubSeq(q, n + 1, Len(q))
             k == IF Len(r) > MaxLate THEN MaxLate ELSE Len(r)
  <2>1. /\ r \in Seq(Go) /\ Len(r) = Len(q) - n
        /\ Len(r) > 0 => r[1] = q[n + 1]
    <3>1. \A i \in (n + 1)..Len(q) : q[i] \in Go
      BY <1>6, ElementOfSeq
    <3>2. /\ r \in Seq(Go)
          /\ Len(r) = IF n + 1 <= Len(q) THEN Len(q) - (n + 1) + 1 ELSE 0
          /\ \A i \in 1..(Len(q) - (n + 1) + 1) : r[i] = q[n + 1 + i - 1]
      BY <1>2, <1>4, <1>6, <3>1, SubSeqProperties
    <3> HIDE DEF r
    <3> QED
      BY <1>2, <1>4, <1>6, <3>2
  <2>2. Rest(q, n) = SubSeq(r, 1, k)
    OBVIOUS
  <2> HIDE DEF r, Rest
  <2>3. k \in 0..Len(r) /\ k <= 1
    BY <1>2, <1>4, <1>6, <2>1
  <2> HIDE DEF k
  <2>4. /\ SubSeq(r, 1, k) \in Seq(Go) /\ Len(SubSeq(r, 1, k)) = k
        /\ k = 1 => SubSeq(r, 1, k)[1] = r[1]
    <3>1. \A i \in 1..k : r[i] \in Go
      BY <2>1, <2>3, ElementOfSeq
    <3>2. /\ SubSeq(r, 1, k) \in Seq(Go)
          /\ Len(SubSeq(r, 1, k)) = IF 1 <= k THEN k - 1 + 1 ELSE 0
          /\ \A i \in 1..(k - 1 + 1) : SubSeq(r, 1, k)[i] = r[1 + i - 1]
      BY <2>1, <2>3, <3>1, SubSeqProperties
    <3> QED
      BY <2>1, <2>3, <3>2
  <2> QED
    BY <1>2, <1>4, <1>6, <2>1, <2>2, <2>3, <2>4
<1> HIDE DEF Rest, Line, Outcomes
<1>9. x.late \in Answers
  <2>1. Rest(q, n) \in Seq(Go) /\ Len(Rest(q, n)) <= 1
    BY <1>8, ZeroOrOne
  <2> QED
    BY <1>7, <2>1, ShortSequences
<1>10. ASSUME expected = Go, x.got = "prompt" PROVE x.late \in {<<>>, answer}
  <2>1. n = 1
    <3>1. n > 0
      BY <1>7, <1>10
    <3>2. CASE n > 1
      <4>1. q[1] \notin Go /\ q[1] \in Go
        BY <1>2, <1>4, <1>6, <1>7, <1>10, <3>2, ElementOfSeq
      <4> QED
        BY <4>1
    <3> QED
      BY <1>7, <1>2, <1>4, <1>6, <3>1, <3>2
  <2>2. CASE Len(Rest(q, n)) = 0
    BY <1>7, <1>8, <2>2, ShortSequences
  <2>3. CASE Len(Rest(q, n)) = 1
    <3>1. Len(w) = 1 /\ Len(answer) = 1 /\ Rest(q, n)[1] = answer[1]
      BY <1>2, <1>4, <1>6, <1>8, <2>1, <2>3
    <3>2. Rest(q, n) = <<answer[1]>> /\ answer = <<answer[1]>>
      BY <1>2, <1>8, <2>3, <3>1, ShortSequences
    <3> QED
      BY <1>7, <3>2
  <2> QED
    BY <1>8, <2>2, <2>3
<1>11. ASSUME x.got = "ok", late # <<"ok">> PROVE answer = <<"ok">>
  <2>1. n > 0 /\ q[n] = "ok"
    BY <1>7, <1>11
  <2>2. ASSUME n <= Len(w) PROVE FALSE
    <3>1. n = 1 /\ Len(w) = 1 /\ w[1] = "ok"
      <4> DEFINE k == Len(w)
      <4>1. n \in Nat /\ n > 0 /\ n <= k /\ k <= 1 /\ k \in Nat
        <5>1. Len(q) \in Nat
          BY <1>6, LenProperties
        <5> QED
          BY <1>4, <1>7, <2>1, <2>2, <5>1
      <4> HIDE DEF k
      <4>3. n = 1 /\ k = 1
        BY <4>1
      <4>2. 1 \in 1..Len(q) /\ q[1] = w[1]
        BY <1>2, <1>6, <4>3 DEF k
      <4> QED
        BY <2>1, <4>3, <4>2 DEF k
    <3>2. w = <<"ok">>
      BY <1>4, <3>1, ShortSequences
    <3> QED
      BY <1>11, <3>1, <3>2, EmptySeq
  <2>3. Len(answer) = 1 /\ answer[1] = "ok"
    <3>1. n > Len(w) /\ n <= Len(q) /\ n \in Nat
      BY <1>2, <1>4, <1>6, <1>7, <2>2
    <3>2. Len(answer) = 1 /\ n - Len(w) = 1
      <4> DEFINE k == Len(w)
                 l == Len(answer)
      <4>1. n > k /\ n <= k + l /\ n \in Nat /\ k \in Nat /\ l \in Nat /\ l <= 1
        BY <1>2, <1>4, <1>6, <3>1
      <4> HIDE DEF k, l
      <4>2. l = 1 /\ n - k = 1
        BY <4>1
      <4> QED
        BY <4>2 DEF k, l
    <3>3. q[n] = answer[n - Len(w)]
      BY <1>2, <1>4, <1>6, <3>1
    <3> QED
      BY <2>1, <3>2, <3>3
  <2> QED
    BY <1>2, <2>3, ShortSequences
<1> QED
  BY <1>9, <1>10, <1>11

\* The answers of the modem: none to AT+CMGS is "ok", and "ok" to the PDU means
\* that the part was sent.
LEMMA ReactionAnswers ==
    ASSUME NEW command, NEW r \in Reactions(command)
    PROVE  /\ r.answer \in Answers
           /\ command = "cmgs" => r.answer # <<"ok">>
           /\ command = "pdu" /\ r.answer = <<"ok">> => r.does
<1> USE DEF Reaction, Refusals
<1>1. /\ <<"prompt">> # <<"ok">> /\ <<"error">> # <<"ok">> /\ <<>> # <<"ok">>
      /\ {<<>>, <<"prompt">>, <<"ok">>, <<"error">>} \subseteq Answers
  BY DEF Answers
<1>2. CASE prompt # <<>> /\ command # "pdu"
  <2>1. Reactions(command) = {Reaction(<<NoJob>>, a, FALSE) : a \in {<<>>, <<"prompt">>}}
    BY <1>2 DEF Reactions
  <2> QED
    BY <1>1, <1>2, <2>1
<1>3. CASE command = "pdu"
  <2>1. r \in {Reaction(<<>>, <<"ok">>, TRUE)} \cup Refusals(<<>>)
    BY <1>3 DEF Reactions
  <2> QED
    BY <1>1, <1>3, <2>1
<1>4. CASE prompt = <<>> /\ command = "cmgs"
  <2>1. Reactions(command) = {Reaction(<<cur>>, <<"prompt">>, FALSE)} \cup Refusals(<<>>)
    BY <1>4 DEF Reactions
  <2> QED
    BY <1>1, <1>4, <2>1
<1>5. CASE prompt = <<>> /\ command \notin {"cmgs", "pdu"}
  <2>1. Reactions(command) = {Reaction(<<>>, <<"ok">>, command # "other")} \cup Refusals(<<>>)
    BY <1>5 DEF Reactions
  <2> QED
    BY <1>1, <1>5, <2>1
<1> QED
  BY <1>2, <1>3, <1>4, <1>5

LEMMA CommandAnswers ==
    ASSUME MaxLate <= 1, late \in Answers,
           NEW command, NEW expected, NEW got, Command(command, expected, got)
    PROVE  /\ late' \in Answers
           /\ command = "cmgs" /\ expected = Go /\ got = "prompt" => late' # <<"ok">>
           /\ command = "pdu" /\ got = "ok" /\ late # <<"ok">>
                => done' = [done EXCEPT ![cur] = @ + 1]
<1>1. PICK r \in Reactions(command) :
        /\ \E y \in Expect(r.answer, expected) : y.got = got /\ late' = y.late
        /\ done' = IF r.does THEN [done EXCEPT ![cur] = @ + 1] ELSE done
  BY DEF Command
<1>2. PICK x \in Expect(r.answer, expected) : x.got = got /\ late' = x.late
  BY <1>1
<1>3. /\ r.answer \in Answers
      /\ command = "cmgs" => r.answer # <<"ok">>
      /\ command = "pdu" /\ r.answer = <<"ok">> => r.does
  BY ReactionAnswers
<1>4. /\ x.late \in Answers
      /\ expected = Go /\ x.got = "prompt" => x.late \in {<<>>, r.answer}
      /\ x.got = "ok" /\ late # <<"ok">> => r.answer = <<"ok">>
  <2>1. PICK a \in Answers : a = r.answer
    BY <1>3
  <2>2. x \in Expect(a, expected)
    BY <2>1
  <2>3. /\ x.late \in Answers
        /\ expected = Go /\ x.got = "prompt" => x.late \in {<<>>, a}
        /\ x.got = "ok" /\ late # <<"ok">> => a = <<"ok">>
    BY <2>2, OneLateAnswer
  <2> QED
    BY <2>1, <2>3
<1>5. <<>> # <<"ok">>
  OBVIOUS
<1>6. late' \in Answers
  BY <1>4, <1>2
<1>7. ASSUME command = "cmgs", expected = Go, got = "prompt" PROVE late' # <<"ok">>
  BY <1>3, <1>4, <1>5, <1>2, <1>7
<1>8. ASSUME command = "pdu", got = "ok", late # <<"ok">>
      PROVE  done' = [done EXCEPT ![cur] = @ + 1]
  <2>1. r.does
    BY <1>3, <1>4, <1>2, <1>8
  <2> QED
    BY <1>1, <2>1
<1> QED
  BY <1>6, <1>7, <1>8

\* What is known of the answers under way and of the parts that are through.
LostInv ==
    /\ late \in Answers
    /\ pc = "pdu" => late # <<"ok">>
    /\ \A j \in Jobs :
        Kind[j] = "sms" /\ (file[j].name = "gone" \/ (cur = j /\ pc = "unlink"))
            => done[j] > 0 \/ j \in failed

LEMMA InitLost == OInit => LostInv
  BY DEF OInit, LostInv, Answers

\* A step that leaves the files, or makes none disappear, and ends no part.
LEMMA QuietStep ==
    ASSUME OInv, LostInv, late' \in Answers, pc' # "pdu" \/ late' # <<"ok">>,
           \A j \in Jobs : done'[j] \in Nat /\ done'[j] >= done[j],
           failed \subseteq failed',
           \A j \in Jobs : file'[j].name = "gone" => file[j].name = "gone",
           \A j \in Jobs : cur' = j /\ pc' = "unlink" /\ Kind[j] = "sms"
                             => done'[j] > 0 \/ j \in failed'
    PROVE  LostInv'
<1>1. \A j \in Jobs : done[j] \in Nat
  BY DEF OInv, OTypes
<1> QED
  BY <1>1 DEF LostInv

LEMMA LostStep == MaxLate <= 1 /\ OInv /\ LostInv /\ [ONext]_ovars => LostInv'
<1> SUFFICES ASSUME MaxLate <= 1, OInv, LostInv, [ONext]_ovars PROVE LostInv'
  OBVIOUS
<1>1. \A j \in Jobs : done[j] \in Nat /\ done[j] >= done[j]
  BY DEF OInv, OTypes
<1>2. late \in Answers /\ (pc = "pdu" => late # <<"ok">>)
  BY DEF LostInv
<1>3. ASSUME NEW j \in Jobs, SaveSMS(j) PROVE LostInv'
  <2>1. UNCHANGED <<pc, cur, late, done, failed>>
    BY <1>3 DEF SaveSMS, Create, WriteText, Publish, folder, history
  <2>2. \A i \in Jobs : file'[i].name = "gone" => file[i].name = "gone"
    BY <1>3 DEF SaveSMS, Create, WriteText, Publish, OInv, OTypes, Files
  <2> QED
    BY <1>2, <2>1, <2>2 DEF LostInv
<1>4. ASSUME NEW command, NEW expected, NEW got, Command(command, expected, got)
      PROVE  /\ late' \in Answers
             /\ \A j \in Jobs : done'[j] \in Nat /\ done'[j] >= done[j]
  BY <1>1, <1>2, <1>4, CommandAnswers, CommandCounts DEF OInv
<1>5. CASE RestOfCycle
  BY <1>4, <1>5, QuietStep DEF RestOfCycle, folder
<1>6. CASE OpenDir \/ ScanEnds \/ PromptExpires
  <2>1. /\ UNCHANGED <<file, cur, late, done, failed>>
        /\ pc' = pc \/ pc' \in Idle
    BY <1>6 DEF OpenDir, ScanEnds, PromptExpires, folder, history, Idle
  <2> QED
    BY <1>2, <2>1 DEF LostInv, Idle
<1>7. ASSUME NEW j \in Jobs, NextEntry(j) PROVE LostInv'
  <2>1. /\ UNCHANGED <<file, late, done, failed>> /\ cur' = j
        /\ pc' # "pdu" /\ (pc' = "unlink" => Kind[j] # "sms")
    <3>1. UNCHANGED <<file, late, done, failed>> /\ cur' = j
      BY <1>7 DEF NextEntry
    <3>2. PICK kind \in KindsRead(j) : pc' = FirstStep(kind)
      BY <1>7 DEF NextEntry
    <3>3. kind \in Kinds /\ (kind = "unreadable" => Kind[j] = "unreadable")
      BY DEF KindsRead
    <3>4. pc' # "pdu" /\ (pc' = "unlink" => kind = "unreadable")
      BY <3>2, <3>3 DEF FirstStep
    <3> QED
      BY <3>1, <3>3, <3>4
  <2> QED
    BY <1>2, <2>1 DEF LostInv
<1>8. CASE AskPrompt
  <2>1. PICK got \in Go \cup {"none"} :
            /\ Command("cmgs", Go, got)
            /\ pc' = IF got = "prompt" THEN "pdu" ELSE "failed"
    BY <1>8 DEF AskPrompt
  <2>2. pc' # "pdu" \/ late' # <<"ok">>
    BY <1>2, <2>1, CommandAnswers
  <2>3. /\ UNCHANGED <<file, cur, failed>> /\ pc' # "unlink"
        /\ late' \in Answers
        /\ \A j \in Jobs : done'[j] \in Nat /\ done'[j] >= done[j]
    BY <1>4, <1>8, <2>1 DEF AskPrompt, folder
  <2> QED
    BY <2>2, <2>3, QuietStep
<1>9. CASE SendPdu
  <2>1. PICK got \in Final \cup {"none"} :
            /\ Command("pdu", Final, got)
            /\ pc' = IF got = "ok" THEN "unlink" ELSE "failed"
    BY <1>9 DEF SendPdu
  <2>2. /\ UNCHANGED <<file, cur, failed>> /\ pc = "pdu" /\ cur \in Jobs
        /\ late' \in Answers
        /\ \A j \in Jobs : done'[j] \in Nat /\ done'[j] >= done[j]
    BY <1>4, <1>9, <2>1 DEF SendPdu, folder, OInv, OTypes, JobAtHand, Idle
  <2>3. pc' = "unlink" => done'[cur] > 0
    <3>1. got = "ok" => done' = [done EXCEPT ![cur] = @ + 1]
      BY <1>2, <2>1, <2>2, CommandAnswers
    <3> QED
      BY <1>1, <2>1, <2>2, <3>1 DEF OInv, OTypes
  <2>4. pc' # "pdu"
    BY <2>1
  <2> QED
    BY <2>2, <2>3, <2>4, QuietStep
<1>10. CASE SendUssd \/ QueryCallForwarding \/ Dial
  <2>1. \E command, expected, got : Command(command, expected, got)
    BY <1>10 DEF SendUssd, QueryCallForwarding, Dial
  <2>2. /\ UNCHANGED <<file, cur, failed>> /\ pc' # "pdu"
        /\ cur \in Jobs => Kind[cur] # "sms"
    BY <1>10 DEF SendUssd, QueryCallForwarding, Dial, AfterCcfc, folder, OInv, JobAtHand
  <2> QED
    BY <1>4, <2>1, <2>2, QuietStep
<1>11. CASE Report
  BY <1>1, <1>2, <1>11, QuietStep DEF Report, folder
<1>12. CASE Unlink
  <2>1. /\ UNCHANGED <<late, done, failed>> /\ pc = "unlink" /\ cur \in Jobs
        /\ file' = [file EXCEPT ![cur].name = "gone"] \/ file' = file
        /\ pc' = "readdir"
    BY <1>12 DEF Unlink, OInv, OTypes, JobAtHand, Idle
  <2>2. \A j \in Jobs : file'[j].name = "gone" => file[j].name = "gone" \/ j = cur
    BY <2>1 DEF OInv, OTypes
  <2> QED
    BY <1>2, <2>1, <2>2 DEF LostInv
<1>13. CASE DaemonRestarts
  <2>1. late' = <<>> /\ <<>> \in Answers /\ <<>> # <<"ok">>
    BY <1>13 DEF DaemonRestarts, Answers
  <2> QED
    BY <1>1, <1>13, <2>1, QuietStep DEF DaemonRestarts
<1>14. CASE UNCHANGED ovars
  BY <1>14 DEF ovars, LostInv
<1> QED
  BY <1>3, <1>5, <1>6, <1>7, <1>8, <1>9, <1>10, <1>11, <1>12, <1>13, <1>14 DEF ONext

\* With at most one late answer, no refusal of a part is taken for its sending: it
\* is sent, as it was read, or the operator is told.
THEOREM NoPartIsLostSilently ==
    ASSUME MaxLate <= 1 PROVE OSpec => []NoSilentLoss
<1>1. OInit => LostInv
  BY InitLost
<1>2. OInv /\ LostInv /\ [ONext]_ovars => LostInv'
  BY LostStep
<1>3. LostInv => NoSilentLoss
  BY DEF LostInv, NoSilentLoss
<1> QED
  BY <1>1, <1>2, <1>3, FolderInvariance, PTL DEF OSpec

-----------------------------------------------------------------------------
(* The steps of a job are those of a message in Mailbox.  That every one    *)
(* is taken (ImplementsMailbox) is left to the model checker.               *)

LEMMA LifeInit == OInit => Life!Init
  BY DEF OInit, Life!Init, LifeOfJob

\* If one job's life goes on, that is a step of Mailbox.
LEMMA LifeMoves ==
    ASSUME NEW j \in Jobs, NEW from, NEW to, LifeOfJob(j) = from, LifeOfJob(j)' = to,
           \A i \in Jobs \ {j} : LifeOfJob(i)' = LifeOfJob(i)
    PROVE  Life!Moves(j, from, to)
  BY DEF Life!Moves

LEMMA LifeNext ==
    ASSUME OInv, [ONext]_ovars
    PROVE  [Life!Next]_([j \in Jobs |-> LifeOfJob(j)])
<1>1. SUFFICES ASSUME ~(\A j \in Jobs : LifeOfJob(j)' = LifeOfJob(j)) PROVE Life!Next
  OBVIOUS
<1>2. ASSUME NEW j \in Jobs, SaveSMS(j) PROVE Life!Next
  <2>1. UNCHANGED <<pc, cur>>
    BY <1>2 DEF SaveSMS, Create, WriteText, Publish, folder
  <2>2. \A i \in Jobs \ {j} : LifeOfJob(i)' = LifeOfJob(i)
    <3>1. \A i \in Jobs \ {j} : file'[i] = file[i]
      BY <1>2 DEF SaveSMS, Create, WriteText, Publish, OInv, OTypes
    <3> QED
      BY <2>1, <3>1 DEF LifeOfJob
  <2>3. CASE Publish(j)
    <3>1. file[j].name = "hidden" /\ file'[j].name = "visible"
      BY <2>3 DEF Publish, OInv, OTypes
    <3>2. cur # j \/ pc # "unlink"
      BY <3>1 DEF OInv, JobAtHand, Idle
    <3>3. LifeOfJob(j) = "absent" /\ LifeOfJob(j)' = "waiting"
      BY <2>1, <3>1, <3>2 DEF LifeOfJob
    <3> QED
      BY <2>2, <3>3, LifeMoves DEF Life!Next, Life!Store
  <2>4. CASE Create(j) \/ WriteText(j)
    <3>1. file'[j].name = file[j].name \/ (file[j].name = "none" /\ file'[j].name = "hidden")
      BY <2>4 DEF Create, WriteText, OInv, OTypes, Files
    <3>2. LifeOfJob(j)' = LifeOfJob(j)
      BY <2>1, <3>1 DEF LifeOfJob
    <3> QED
      BY <1>1, <2>2, <3>2
  <2> QED
    BY <1>2, <2>3, <2>4 DEF SaveSMS
<1>3. CASE \/ RestOfCycle \/ OpenDir \/ ScanEnds \/ PromptExpires
  <2>1. UNCHANGED <<file, cur>> /\ (pc = "unlink" <=> pc' = "unlink")
    BY <1>3 DEF RestOfCycle, OpenDir, ScanEnds, PromptExpires, folder
  <2> QED
    BY <1>1, <2>1 DEF LifeOfJob
<1>4. ASSUME UNCHANGED file, cur \in Jobs \/ cur' \in Jobs,
             cur' = cur \/ (cur = NoJob /\ cur' \in Jobs),
             pc # "unlink", file[cur'].name = "visible"
      PROVE  Life!Next
  \* The job at hand is handled when the loop comes to its unlink.
  <2>1. cur' \in Jobs
    BY <1>4
  <2>2. \A i \in Jobs \ {cur'} : LifeOfJob(i)' = LifeOfJob(i)
    BY <1>4 DEF LifeOfJob
  <2>3. LifeOfJob(cur') = "waiting"
    BY <1>4 DEF LifeOfJob
  <2>4. pc' = "unlink"
    BY <1>1, <1>4, <2>1, <2>2 DEF LifeOfJob
  <2>5. PICK j \in Jobs : j = cur'
    BY <2>1
  <2>6. LifeOfJob(j) = "waiting" /\ LifeOfJob(j)' = "handled"
    BY <1>4, <2>3, <2>4, <2>5 DEF LifeOfJob
  <2> QED
    BY <2>2, <2>5, <2>6, LifeMoves DEF Life!Next, Life!Handle
<1>5. ASSUME NEW j \in Jobs, NextEntry(j) PROVE Life!Next
  <2>1. /\ file' = file /\ cur' = j /\ pc # "unlink" /\ file[j].name = "visible"
        /\ cur = NoJob
    BY <1>5 DEF NextEntry, Visible, OInv, JobAtHand, Idle
  <2> QED
    BY <1>4, <2>1
<1>6. CASE AskPrompt \/ SendPdu \/ SendUssd \/ QueryCallForwarding \/ Dial \/ Report
  <2>1. UNCHANGED <<file, cur>> /\ pc \notin Idle \cup {"unlink"}
    BY <1>6 DEF AskPrompt, SendPdu, SendUssd, QueryCallForwarding, Dial, Report, folder, Idle
  <2>2. cur \in Jobs /\ file[cur].name = "visible"
    BY <2>1 DEF OInv, OTypes, JobAtHand
  <2> QED
    BY <1>4, <2>1, <2>2
<1>7. CASE Unlink /\ file' = [file EXCEPT ![cur].name = "gone"]
  <2>1. /\ pc = "unlink" /\ cur \in Jobs /\ cur # NoJob /\ file[cur].name = "visible"
        /\ file' = [file EXCEPT ![cur].name = "gone"] /\ cur' = NoJob /\ pc' = "readdir"
    BY <1>7 DEF Unlink, OInv, OTypes, JobAtHand, Idle
  <2>2. PICK j \in Jobs : j = cur
    BY <2>1
  <2>3. /\ \A i \in Jobs \ {j} : file'[i] = file[i]
        /\ file'[j].name = "gone"
    BY <2>1, <2>2 DEF OInv, OTypes
  <2>4. LifeOfJob(j) = "handled" /\ LifeOfJob(j)' = "freed"
    BY <2>1, <2>2, <2>3 DEF LifeOfJob
  <2>5. \A i \in Jobs \ {j} : LifeOfJob(i)' = LifeOfJob(i)
    BY <2>1, <2>2, <2>3 DEF LifeOfJob
  <2> QED
    BY <2>4, <2>5, LifeMoves DEF Life!Next, Life!Free
\* A restart, or an unlink that fails: the job at hand is waiting again.
<1>8. CASE DaemonRestarts \/ (Unlink /\ file' = file)
  <2>1. file' = file /\ pc' # "unlink" /\ cur' = NoJob
    BY <1>8 DEF DaemonRestarts, Unlink
  <2>2. \A j \in Jobs :
          LifeOfJob(j)' = IF LifeOfJob(j) = "handled" THEN "waiting" ELSE LifeOfJob(j)
    <3> SUFFICES ASSUME NEW j \in Jobs
                 PROVE  LifeOfJob(j)' = IF LifeOfJob(j) = "handled" THEN "waiting" ELSE LifeOfJob(j)
      OBVIOUS
    <3>1. cur' # j /\ (cur = j /\ pc = "unlink" => file[j].name = "visible")
      BY <2>1 DEF OInv, JobAtHand, Idle
    <3>2. file[j].name \in {"none", "hidden", "visible", "gone"}
      BY DEF OInv, OTypes, Files
    <3>3. CASE file[j].name = "visible"
      BY <2>1, <3>1, <3>3 DEF LifeOfJob
    <3>4. CASE file[j].name # "visible"
      BY <2>1, <3>1, <3>2, <3>4 DEF LifeOfJob
    <3> QED
      BY <3>3, <3>4
  <2> QED
    BY <2>2 DEF Life!Next, Life!Forget
<1>9. CASE UNCHANGED ovars
  BY <1>1, <1>9 DEF ovars, LifeOfJob
<1> QED
  BY <1>2, <1>3, <1>5, <1>6, <1>7, <1>8, <1>9 DEF ONext, Unlink

\* A job is unlinked only when it was carried out or given up, and that happens
\* once, unless the daemon is restarted between the two or the unlink fails.
THEOREM JobsLiveAsInMailbox == OSpec => Life!Spec
<1>1. OInit => Life!Init
  BY LifeInit
<1>2. OInv /\ [ONext]_ovars => [Life!Next]_([j \in Jobs |-> LifeOfJob(j)])
  BY LifeNext
<1> QED
  BY <1>1, <1>2, FolderInvariance, PTL DEF OSpec, Life!Spec
=============================================================================
