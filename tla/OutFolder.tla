----------------------------- MODULE OutFolder ------------------------------
(***************************************************************************)
(* The outgoing half of sms-daemon: processes of sms-send publish job      *)
(* files in job_dir (src/src/SendSMS.cpp, SaveSMS); once per cycle the     *)
(* daemon walks through the directory, carries out each job over the       *)
(* modem's command line and unlinks it (src/src/sms-daemon-mdm.cpp,        *)
(* DoProcessOutSmsFolder, SendSmsPart, SendUssd, SendMmi).                 *)
(*                                                                         *)
(* The modem refuses, executes, or does neither; its answers may come      *)
(* after the daemon has stopped waiting; between '>' and Ctrl-Z it takes   *)
(* whatever comes for message text.                                        *)
(***************************************************************************)
EXTENDS Naturals, Sequences, SequencesExt

CONSTANTS
    Jobs,
    Kind,         \* what the daemon makes of the first line, as it was meant to be
    NoJob,        \* no job is being carried out; a prompt whose text is not one PDU
    MaxLate,      \* bound: answers under way after their timeout; later ones are lost
    MaxCrashes,   \* bound on restarts of the daemon
    MaxKept       \* bound on failing unlinks

\* "bad": a file that is empty or holds less than a PDU.
\* "cf": an M job BuildCallForwardCommand knows; "mmi": one that it does not.
Kinds == {"sms", "ussd", "cf", "mmi", "bad", "unreadable"}

ASSUME JobAssumption == Kind \in [Jobs -> Kinds] /\ NoJob \notin Jobs
ASSUME LateAssumption == MaxLate \in Nat /\ MaxCrashes \in Nat /\ MaxKept \in Nat

VARIABLES
    file,      \* file[j]: the name the job's file has, and what is in it: "open"
               \* while it is being written, "whole", or "cut" by a failing write
    pc,        \* where the main loop is
    cur,       \* the directory entry being processed, or NoJob
    seen,      \* entries readdir has returned since opendir
    due,       \* entries that were there at opendir
    prompt,    \* the modem: <<>> in command mode, <<j>> waiting for j's PDU,
               \* <<NoJob>> when other text has been typed at the prompt
    late,      \* answers of the modem that are still to arrive, in order
    \* History, read by no action:
    done,      \* done[j]: times the network carried j out
    failed,    \* jobs the daemon reported on stderr
    unheard,   \* jobs whose AT+CCFC got no answer in time
    torn,      \* files taken up that were not whole
    crashes,   \* number of restarts
    kept       \* kept[j]: failing unlinks of j's file

ovars == <<file, pc, cur, seen, due, prompt, late, done, failed, unheard, torn, crashes, kept>>
folder == <<cur, seen, due>>
history == <<done, failed, unheard, torn, crashes, kept>>

-----------------------------------------------------------------------------
(* sms-send.  A process may die between any two steps.                     *)

Visible == {j \in Jobs : file[j].name = "visible"}

\* Bug: the file is written under its final name.
CreateInPlace(j) ==
    /\ file[j].name = "none"
    /\ file' = [file EXCEPT ![j].name = "visible"]
    /\ UNCHANGED <<pc, folder, prompt, late, history>>

\* fopen of ".tmp_<id>"; ids are unique, so no two jobs share a name.
Create(j) ==
    /\ file[j].name = "none"
    /\ file' = [file EXCEPT ![j].name = "hidden"]
    /\ UNCHANGED <<pc, folder, prompt, late, history>>

\* fputs and fclose.  Their results are not looked at: on a full disk the file
\* ends anywhere.
WriteText(j) ==
    /\ file[j].name \in {"hidden", "visible"}
    /\ file[j].text = "open"
    /\ \E written \in {"whole", "cut"} : file' = [file EXCEPT ![j].text = written]
    /\ UNCHANGED <<pc, folder, prompt, late, history>>

\* rename, whatever has been written.
Publish(j) ==
    /\ file[j].name = "hidden"
    /\ file[j].text # "open"
    /\ file' = [file EXCEPT ![j].name = "visible"]
    /\ UNCHANGED <<pc, folder, prompt, late, history>>

SaveSMS(j) == Create(j) \/ WriteText(j) \/ Publish(j)

-----------------------------------------------------------------------------
(* The modem.  A reaction is its next mode, its answer (<<>>: none that    *)
(* the daemon knows, as "+CMS ERROR: 38"), and if the network did the job. *)

Reaction(mode, answer, does) == [prompt |-> mode, answer |-> answer, does |-> does]

Refusals(mode) == {Reaction(mode, a, FALSE) : a \in {<<>>, <<"error">>}}

\* "other" stands for every command but the jobs' own.
Reactions(command) ==
    CASE prompt # <<>> /\ command # "pdu" ->
            \* The line is text, after which some modems prompt again.
            {Reaction(<<NoJob>>, a, FALSE) : a \in {<<>>, <<"prompt">>}}
      [] prompt = <<cur>> /\ command = "pdu" ->
            {Reaction(<<>>, <<"ok">>, TRUE)} \cup Refusals(<<>>)
      [] prompt # <<cur>> /\ command = "pdu" ->
            \* Not a PDU of the announced length.
            Refusals(<<>>)
      [] prompt = <<>> /\ command = "cmgs" ->
            {Reaction(<<cur>>, <<"prompt">>, FALSE)} \cup Refusals(<<>>)
      [] OTHER ->
            {Reaction(<<>>, <<"ok">>, command # "other")} \cup Refusals(<<>>)

\* SendExpect: ClearRX discards what has arrived by now (any part of the late
\* answers); then the first expected answer counts and what came before it is
\* read and forgotten, or nothing expected comes in time.
Expect(answer, expected) ==
    LET line(d)  == SubSeq(late, d + 1, Len(late)) \o answer
        rest(q, n) == LET r == SubSeq(q, n + 1, Len(q))
                      IN  SubSeq(r, 1, IF Len(r) > MaxLate THEN MaxLate ELSE Len(r))
        outcomes(q) ==
            {[got |-> IF n > 0 /\ q[n] \in expected THEN q[n] ELSE "none", late |-> rest(q, n)] :
                n \in {m \in 0..Len(q) : \A i \in 1..(m - 1) : q[i] \notin expected}}
    IN  UNION {outcomes(line(d)) : d \in 0..Len(late)}

Final == {"ok", "error"}
Go == {"prompt", "ok", "error"}

\* One command: the modem's reaction and what the daemon makes of it.
Command(command, expected, got) ==
    \E r \in Reactions(command) :
        /\ prompt' = r.prompt
        /\ \E x \in Expect(r.answer, expected) : x.got = got /\ late' = x.late
        /\ done' = IF r.does THEN [done EXCEPT ![cur] = @ + 1] ELSE done

-----------------------------------------------------------------------------
(* The daemon.                                                             *)

OInit ==
    /\ file = [j \in Jobs |-> [name |-> "none", text |-> "open"]]
    /\ pc = "loop"
    /\ cur = NoJob
    /\ seen = {}
    /\ due = {}
    /\ prompt = <<>>
    /\ late = <<>>
    /\ done = [j \in Jobs |-> 0]
    /\ failed = {}
    /\ unheard = {}
    /\ torn = {}
    /\ crashes = 0
    /\ kept = [j \in Jobs |-> 0]

\* The rest of the cycle sends at least one command, AT+CMGL.
RestOfCycle ==
    /\ pc = "loop"
    /\ \E got \in Final \cup {"none"} : Command("other", Final, got)
    /\ pc' = "opendir"
    /\ UNCHANGED <<file, folder, failed, unheard, torn, crashes, kept>>

OpenDir ==
    /\ pc = "opendir"
    /\ pc' = "readdir"
    /\ seen' = {}
    /\ due' = Visible
    /\ UNCHANGED <<file, cur, prompt, late, history>>

\* What the daemon takes the file for.  Of a text that is cut a beginning is left,
\* or nothing; a call-forwarding code without its final '#' is not known as one.
KindsRead(j) ==
    IF file[j].text = "whole" \/ Kind[j] \in {"bad", "unreadable"} THEN {Kind[j]}
    ELSE {"bad", IF Kind[j] = "cf" THEN "mmi" ELSE Kind[j]}

\* Bug: a file without a usable job is passed over (continue) and not unlinked.
FirstStepSkipsBad(kind) ==
    CASE kind = "sms"  -> "cmgs"
      [] kind = "ussd" -> "ussd"
      [] kind = "cf"   -> "ccfc"
      [] kind = "mmi"  -> "atd"
      [] kind \in {"bad", "unreadable"} -> "readdir"

\* The step a job begins with: its kind decides, then SendSmsPart's length.
FirstStep(kind) ==
    CASE kind = "sms"  -> "cmgs"
      [] kind = "ussd" -> "ussd"
      [] kind = "cf"   -> "ccfc"
      [] kind = "mmi"  -> "atd"
      [] kind = "bad"  -> "failed"
      [] kind = "unreadable" -> "unlink"    \* fopen fails: nothing is reported

\* Bug: the file is unlinked once it is read, before the job is carried out.
NextEntryUnlinks(j) ==
    /\ pc = "readdir"
    /\ j \in Visible \ seen
    /\ cur' = j
    /\ seen' = seen \cup {j}
    /\ torn' = IF file[j].text = "whole" THEN torn ELSE torn \cup {j}
    /\ \E kind \in KindsRead(j) : pc' = FirstStep(kind)
    /\ file' = [file EXCEPT ![j].name = "gone"]
    /\ UNCHANGED <<due, prompt, late, done, failed, unheard, crashes, kept>>

\* readdir returns an entry: the file is read as it is.  An entry made after
\* opendir may or may not be returned.
NextEntry(j) ==
    /\ pc = "readdir"
    /\ j \in Visible \ seen
    /\ cur' = j
    /\ seen' = seen \cup {j}
    /\ torn' = IF file[j].text = "whole" THEN torn ELSE torn \cup {j}
    /\ \E kind \in KindsRead(j) : pc' = FirstStep(kind)
    /\ UNCHANGED <<file, due, prompt, late, done, failed, unheard, crashes, kept>>

ScanEnds ==
    /\ pc = "readdir"
    /\ due \cap Visible \subseteq seen
    /\ pc' = "loop"
    /\ UNCHANGED <<file, folder, prompt, late, history>>

\* SendSmsPart: anything but the prompt ends it, with no ESC to leave a prompt
\* that comes later.
AskPrompt ==
    /\ pc = "cmgs"
    /\ \E got \in Go \cup {"none"} :
        /\ Command("cmgs", Go, got)
        /\ pc' = IF got = "prompt" THEN "pdu" ELSE "failed"
    /\ UNCHANGED <<file, folder, failed, unheard, torn, crashes, kept>>

\* Bug: the answer to the PDU is not looked at.
SendPduUnchecked ==
    /\ pc = "pdu"
    /\ \E got \in Final \cup {"none"} : Command("pdu", Final, got)
    /\ pc' = "unlink"
    /\ UNCHANGED <<file, folder, failed, unheard, torn, crashes, kept>>

SendPdu ==
    /\ pc = "pdu"
    /\ \E got \in Final \cup {"none"} :
        /\ Command("pdu", Final, got)
        /\ pc' = IF got = "ok" THEN "unlink" ELSE "failed"
    /\ UNCHANGED <<file, folder, failed, unheard, torn, crashes, kept>>

SendUssd ==
    /\ pc = "ussd"
    /\ \E got \in Final \cup {"none"} :
        /\ Command("ussd", Final, got)
        /\ pc' = IF got = "ok" THEN "unlink" ELSE "failed"
    /\ UNCHANGED <<file, folder, failed, unheard, torn, crashes, kept>>

\* Bug: only an error is final (ccfcErr > 0).
AfterCcfcErrorOnly(got) ==
    CASE got = "error" -> "failed" [] OTHER -> "atd"

\* SendMmi dials the code unless the AT+CCFC command got an answer.
AfterCcfc(got) ==
    CASE got = "ok" -> "unlink" [] got = "error" -> "failed" [] OTHER -> "atd"

QueryCallForwarding ==
    /\ pc = "ccfc"
    /\ \E got \in Final \cup {"none"} :
        /\ Command("ccfc", Final, got)
        /\ pc' = AfterCcfc(got)
        /\ unheard' = IF got = "none" THEN unheard \cup {cur} ELSE unheard
    /\ UNCHANGED <<file, folder, failed, torn, crashes, kept>>

\* SendMmi's ATD; NO CARRIER counts as success, as OK does.
Dial ==
    /\ pc = "atd"
    /\ \E got \in Final \cup {"none"} :
        /\ Command("atd", Final, got)
        /\ pc' = IF got = "ok" THEN "unlink" ELSE "failed"
    /\ UNCHANGED <<file, folder, failed, unheard, torn, crashes, kept>>

\* "Can not process job" on stderr.
Report ==
    /\ pc = "failed"
    /\ failed' = failed \cup {cur}
    /\ pc' = "unlink"
    /\ UNCHANGED <<file, folder, prompt, late, done, unheard, torn, crashes, kept>>

\* Bug: a job that failed stays in the directory.
UnlinkIfDone ==
    /\ pc = "unlink"
    /\ file' = IF cur \in failed THEN file ELSE [file EXCEPT ![cur].name = "gone"]
    /\ cur' = NoJob
    /\ pc' = "readdir"
    /\ UNCHANGED <<seen, due, prompt, late, history>>

FailingUnlinks == FoldFunction(+, 0, kept)

\* The file goes, whatever became of the job, unless unlink fails: nobody looks,
\* and the next scan finds the job again.
Unlink ==
    /\ pc = "unlink"
    /\ \/ /\ file' = [file EXCEPT ![cur].name = "gone"]
          /\ UNCHANGED kept
       \/ /\ FailingUnlinks < MaxKept
          /\ kept' = [kept EXCEPT ![cur] = @ + 1]
          /\ UNCHANGED file
    /\ cur' = NoJob
    /\ pc' = "readdir"
    /\ UNCHANGED <<seen, due, prompt, late, done, failed, unheard, torn, crashes>>

\* The modem leaves a forgotten prompt by itself, if it does.
PromptExpires ==
    /\ prompt # <<>>
    /\ prompt' = <<>>
    /\ UNCHANGED <<file, pc, folder, late, history>>

\* Killed at any point, started again; what Init() asks discards late answers.
\* The modem keeps its mode; the commands of Init() are text to a prompt.
DaemonRestarts ==
    /\ crashes < MaxCrashes
    /\ crashes' = crashes + 1
    /\ pc' = "loop"
    /\ cur' = NoJob
    /\ seen' = {}
    /\ due' = {}
    /\ prompt' = IF prompt = <<>> THEN <<>> ELSE <<NoJob>>
    /\ late' = <<>>
    /\ UNCHANGED <<file, done, failed, unheard, torn, kept>>

ONext ==
    \/ \E j \in Jobs : SaveSMS(j)
    \/ RestOfCycle
    \/ OpenDir
    \/ \E j \in Jobs : NextEntry(j)
    \/ ScanEnds
    \/ AskPrompt
    \/ SendPdu
    \/ SendUssd
    \/ QueryCallForwarding
    \/ Dial
    \/ Report
    \/ Unlink
    \/ PromptExpires
    \/ DaemonRestarts

OSpec == OInit /\ [][ONext]_ovars

\* The daemon's own steps go on for ever: every wait in them has a timeout.
\* A scan ends because readdir does not return entries for ever (bounded here by
\* Jobs).  Nothing is assumed of sms-send or of the modem; restarts and failing
\* unlinks end (MaxCrashes, MaxKept).
DaemonStep ==
    \/ RestOfCycle \/ OpenDir \/ (\E j \in Jobs : NextEntry(j)) \/ ScanEnds
    \/ AskPrompt \/ SendPdu \/ SendUssd \/ QueryCallForwarding \/ Dial
    \/ Report \/ Unlink

FairOSpec == OSpec /\ WF_ovars(DaemonStep)

-----------------------------------------------------------------------------
(* Properties.                                                             *)

\* The daemon never reads a job that sms-send is still writing, at whatever moment
\* it scans the directory: what it reads is whole, unless the write itself failed.
TornOnlyIfUnwritten == \A j \in torn : file[j].text = "cut"

\* The runs in which j was found: one, one more for each restart, and one more for
\* each time its file could not be unlinked.
Runs(j) == crashes + kept[j] + 1

\* The network carries a job out once, whatever answers are lost or late, and again
\* only after a restart or an unlink that failed...
DoneOncePerRun ==
    \A j \in Jobs : Kind[j] # "cf" => done[j] <= Runs(j)

\* ... except a call-forwarding code: twice, and only after an AT+CCFC that was
\* not answered in time.
DialledTwiceOnlyIfUnheard ==
    \A j \in Jobs : Kind[j] = "cf" =>
        done[j] <= Runs(j) * (IF j \in unheard THEN 2 ELSE 1)

\* An SMS part whose file is gone was sent, as it was read, or the operator was told
\* on stderr: no late answer to another command makes a part that the modem refused
\* look sent, because the prompt must come before the final answer.
NoSilentLoss ==
    \A j \in Jobs : Kind[j] = "sms" /\ file[j].name = "gone" => done[j] > 0 \/ j \in failed

\* Every published job leaves the directory, carried out or reported: one that
\* fails does not hold up the others, and none is tried for ever, unless its file
\* cannot be unlinked for ever.
EveryJobLeaves == \A j \in Jobs : file[j].name = "visible" ~> file[j].name = "gone"

\* A job in its life as Mailbox describes it: waiting while it is published,
\* handled when the daemon is through with it, freed when it is unlinked.
LifeOfJob(j) ==
    CASE file[j].name = "gone" -> "freed"
      [] file[j].name \in {"none", "hidden"} -> "absent"
      [] cur = j /\ pc = "unlink" -> "handled"
      [] OTHER -> "waiting"

Life == INSTANCE Mailbox WITH Pdus <- Jobs, state <- [j \in Jobs |-> LifeOfJob(j)]

ImplementsMailbox == Life!FairSpec
=============================================================================
