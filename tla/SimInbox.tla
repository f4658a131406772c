------------------------------ MODULE SimInbox ------------------------------
(***************************************************************************)
(* The incoming half of CSmsDaemon's main loop (src/src/sms-daemon-mdm.cpp,*)
(* DoProcessInSmsBlock): list the messages on the SIM, hand each one that  *)
(* is not flagged in m_DirtySimSlots to the reassembly, expire old parts,  *)
(* erase what is flagged.                                                  *)
(*                                                                         *)
(* Around it: the network stores messages at any moment, the modem refuses *)
(* or executes a command, its answer is lost or comes after the timeout,   *)
(* and the process is restarted.                                           *)
(***************************************************************************)
EXTENDS Reassembly, Sequences

CONSTANTS
    SimSize,       \* number of storage locations on the SIM
    MaxSmsIndex,   \* maxSmsIndex, the number of flags (128)
    CmgrLimit,     \* indexes tried by GetSmsBlockByCMGR (255)
    Garbage,       \* flags whose uninitialised memory may read true
    ListMayFail,   \* AT+CMGL may end in an error or a timeout
    AckMayBeLost,  \* the answer to an erase that was executed may be lost
    MaxLate,       \* answers under way after their timeout; 0: such answers are lost
    MaxRestarts    \* bound on restarts

Slots == 0..(SimSize - 1)
Flags == 0..(MaxSmsIndex - 1)

\* The indexes read by GetSmsBlockByCMGR are not tested against MaxSmsIndex: a
\* SIM that has more locations is outside the model unless AT+CMGL works.
ASSUME SizeAssumption ==
    /\ SimSize \in Nat /\ MaxSmsIndex \in Nat /\ CmgrLimit \in Nat \ {0}
    /\ MaxLate \in Nat /\ MaxRestarts \in Nat
    /\ Garbage \subseteq Flags
    /\ ListMayFail \in BOOLEAN /\ AckMayBeLost \in BOOLEAN
    /\ ListMayFail \/ MaxLate > 0 => SimSize + MaxLate <= MaxSmsIndex

VARIABLES
    sim,         \* sim[s]: the message stored at location s, or NoPdu
    dirty,       \* m_DirtySimSlots
    pc,          \* the function the main loop is in
    block,       \* TSmsBlock::sms: the messages read in this cycle
    todo,        \* those that the loop at pc has not come to yet
    next,        \* the loop index of GetSmsBlockByCMGR
    late,        \* answers of the modem that are still to arrive, in order
    \* History, read by no action:
    arrived,     \* messages the network has stored
    times,       \* times[p]: calls of processPDU with p
    handed,      \* messages that were part of a delivered SMS
    erased,      \* messages the modem has erased
    misflagged,  \* messages whose slot was flagged, but not for them
    restarts     \* number of restarts

vars == <<cache, out, sim, dirty, pc, block, todo, next, late,
          arrived, times, handed, erased, misflagged, restarts>>
history == <<arrived, times, handed, erased, misflagged, restarts>>

-----------------------------------------------------------------------------
(* The modem's answers.  What SendExpect returns is the answer's final     *)
(* line; msgs is what the log holds.  An AT+CMGR answer does not name the  *)
(* location: its index is there for the listing only.                      *)

Answer(kind, msgs) == [kind |-> kind, msgs |-> msgs]
Ok == Answer("ok", {})
NoAnswer == Answer("none", {})     \* ERROR, a final line not expected, or nothing

On(s) == [index |-> s, pdu |-> sim[s]]
Stored == {s \in Slots : sim[s] # NoPdu}

ListAnswer == Answer("list", {On(s) : s \in Stored})

\* Modems differ in what they say of an empty location.
ReadAnswers(i) ==
    IF i \in Stored THEN {Answer("msg", {On(i)})}
    ELSE IF i \in Slots THEN {Ok, NoAnswer} ELSE {NoAnswer}

\* SendExpect: ClearRX discards the late answers that have arrived by now; then
\* the first answer to arrive is taken for the answer of this command, or none
\* arrives in time and the command's own answer is late or lost.
Exchanges(a) ==
    LET queues == {SubSeq(late, d + 1, Len(late)) : d \in 0..Len(late)}
    IN  {[got |-> Head(Append(q, a)), late |-> Tail(Append(q, a))] : q \in queues}
        \cup {[got |-> NoAnswer, late |-> q] : q \in queues}
        \cup {[got |-> NoAnswer, late |-> Append(q, a)] :
                q \in {r \in queues : Len(r) < MaxLate}}

-----------------------------------------------------------------------------

CleanFlags == {f \in [Flags -> BOOLEAN] : \A i \in Flags \ Garbage : ~f[i]}

IInit ==
    /\ Init
    /\ sim = [s \in Slots |-> NoPdu]
    /\ dirty \in CleanFlags
    /\ pc = "list"
    /\ block = {}
    /\ todo = {}
    /\ next = 0
    /\ late = <<>>
    /\ arrived = {}
    /\ times = [p \in Pdus |-> 0]
    /\ handed = {}
    /\ erased = {}
    /\ misflagged = {}
    /\ restarts = 0

\* What onSmsCallBack was given in this step.
NoteHanded == handed' = handed \cup (UNION {{m.parts[i] : i \in HeldIn(m.parts)} : m \in out'})

\* Bug: index > 0 instead of index >= 0.
ListedFromOne(answer) ==
    IF answer.kind = "list" THEN {r \in answer.msgs : 0 < r.index /\ r.index < MaxSmsIndex} ELSE {}

\* GetSmsBlockByCMGL keeps the indexes below maxSmsIndex; an answer that is not a
\* listing holds no "CMGL:".
Listed(answer) ==
    IF answer.kind = "list" THEN {r \in answer.msgs : r.index < MaxSmsIndex} ELSE {}

GetSmsBlockByCMGL ==
    /\ pc = "list"
    /\ \E x \in Exchanges(ListAnswer) :
        /\ x.got.kind # "none"
        /\ late' = x.late
        /\ block' = Listed(x.got)
        /\ todo' = Listed(x.got)
    /\ pc' = "process"
    /\ UNCHANGED <<rvars, sim, dirty, next, history>>

\* GetSmsBlockFromModem falls back to reading one location after the other.
ListFails ==
    /\ pc = "list"
    /\ ListMayFail
    /\ \E x \in Exchanges(ListAnswer) : x.got.kind = "none" /\ late' = x.late
    /\ pc' = "read"
    /\ next' = 0
    /\ UNCHANGED <<rvars, sim, dirty, block, todo, history>>

\* Bug: an error does not end the loop.
ReadOnePastErrors ==
    /\ pc = "read"
    /\ next < CmgrLimit
    /\ \E a \in ReadAnswers(next) : \E x \in Exchanges(a) :
        /\ late' = x.late
        /\ block' = block \cup {[index |-> next, pdu |-> r.pdu] : r \in x.got.msgs}
    /\ next' = next + 1
    /\ UNCHANGED <<rvars, sim, dirty, pc, todo, history>>

\* One round of GetSmsBlockByCMGR: the PDU in the log is taken for the one at
\* index next.
ReadOne ==
    /\ pc = "read"
    /\ next < CmgrLimit
    /\ \E a \in ReadAnswers(next) : \E x \in Exchanges(a) :
        /\ x.got.kind # "none"
        /\ late' = x.late
        /\ block' = block \cup
             (IF x.got.kind = "msg" THEN {[index |-> next, pdu |-> r.pdu] : r \in x.got.msgs}
              ELSE {})
    /\ next' = next + 1
    /\ UNCHANGED <<rvars, sim, dirty, pc, todo, history>>

\* The first error, or the last index, ends GetSmsBlockByCMGR; what was read
\* before counts.
ReadEnds ==
    /\ pc = "read"
    /\ IF next < CmgrLimit
       THEN \E a \in ReadAnswers(next) : \E x \in Exchanges(a) :
                x.got.kind = "none" /\ late' = x.late
       ELSE UNCHANGED late
    /\ pc' = "process"
    /\ todo' = block
    /\ UNCHANGED <<rvars, sim, dirty, block, next, history>>

First(r) == r \in todo /\ \A q \in todo : r.index <= q.index

\* One more call of processPDU; counting ends one beyond what OncePerRun allows.
Counted(p) == [times EXCEPT ![p] = IF @ < MaxRestarts + 2 THEN @ + 1 ELSE @]

\* Bug: the flag is not set.
ProcessUnmarked(r) ==
    IF dirty[r.index]
    THEN UNCHANGED <<rvars, dirty, times, handed>>
    ELSE /\ ProcessPDU(r.pdu)
         /\ times' = Counted(r.pdu)
         /\ NoteHanded
         /\ UNCHANGED dirty

\* ProcessSmsBlock, for one message: skipped when the flag of its slot is set.
Process(r) ==
    IF dirty[r.index]
    THEN UNCHANGED <<rvars, dirty, times, handed>>
    ELSE /\ ProcessPDU(r.pdu)
         /\ dirty' = [dirty EXCEPT ![r.index] = TRUE]
         /\ times' = Counted(r.pdu)
         /\ NoteHanded

\* The message on the slot of r, when it is not the one that was read there.
Mistaken(r) == {sim[s] : s \in Stored \cap {r.index}} \ {r.pdu}

ProcessNext ==
    /\ pc = "process"
    /\ \E r \in todo :
        /\ First(r)
        /\ Process(r)
        /\ todo' = todo \ {r}
        /\ misflagged' = misflagged \cup Mistaken(r)
    /\ UNCHANGED <<sim, pc, block, next, late, arrived, erased, restarts>>

\* The end of ProcessSmsBlock: clearCache, then DelSmsBlock begins.
ProcessEnds ==
    /\ pc = "process"
    /\ todo = {}
    /\ ClearCache
    /\ NoteHanded
    /\ todo' = block
    /\ pc' = "delete"
    /\ UNCHANGED <<sim, dirty, block, next, late, arrived, times, erased, misflagged, restarts>>

\* Bug: the flag is cleared whatever the modem answered.
ClearAnyway(i, answer) == [dirty EXCEPT ![i] = FALSE]

\* Bug: the flag is never cleared.
ClearNever(i, answer) == dirty

\* DelSms clears the flag when the answer is OK, anyone's OK.
FlagsAfter(i, answer) ==
    IF answer.kind = "none" THEN dirty ELSE [dirty EXCEPT ![i] = FALSE]

\* Bug: the whole SIM is erased (at+cmgd=i,4).
EraseAll(i) ==
    /\ i \in Slots
    /\ \E x \in Exchanges(Ok) :
        /\ AckMayBeLost \/ x.got = Ok
        /\ late' = x.late
        /\ dirty' = FlagsAfter(i, x.got)
    /\ sim' = [s \in Slots |-> NoPdu]
    /\ erased' = erased \cup {sim[s] : s \in Stored}

\* DelSms, the modem erases the location.
Erase(i) ==
    /\ i \in Slots
    /\ \E x \in Exchanges(Ok) :
        /\ AckMayBeLost \/ x.got = Ok
        /\ late' = x.late
        /\ dirty' = FlagsAfter(i, x.got)
    /\ sim' = [sim EXCEPT ![i] = NoPdu]
    /\ erased' = erased \cup ({sim[i]} \ {NoPdu})

\* DelSms, the modem refuses or does not react.
Refuse(i) ==
    /\ \E x \in Exchanges(NoAnswer) :
        late' = x.late /\ dirty' = FlagsAfter(i, x.got)
    /\ UNCHANGED <<sim, erased>>

DelSms(i) == Erase(i) \/ Refuse(i)

\* DelSmsBlock, for one message: only flagged slots are erased.
Delete(r) ==
    IF dirty[r.index] THEN DelSms(r.index) ELSE UNCHANGED <<sim, dirty, late, erased>>

DeleteNext ==
    /\ pc = "delete"
    /\ \E r \in todo : First(r) /\ Delete(r) /\ todo' = todo \ {r}
    /\ UNCHANGED <<rvars, pc, block, next, arrived, times, handed, misflagged, restarts>>

\* DoProcessInSmsBlock returns; the loop comes back after the outgoing jobs and
\* the pause.
CycleEnds ==
    /\ pc = "delete"
    /\ todo = {}
    /\ block' = {}
    /\ pc' = "list"
    /\ UNCHANGED <<rvars, sim, dirty, todo, next, late, history>>

-----------------------------------------------------------------------------
(* The environment.                                                        *)

\* The network stores p in a free location, whatever the daemon is doing.
Arrive(p, s) ==
    /\ p \notin arrived
    /\ sim[s] = NoPdu
    /\ sim' = [sim EXCEPT ![s] = p]
    /\ arrived' = arrived \cup {p}
    /\ misflagged' = IF s \in Flags /\ dirty[s] THEN misflagged \cup {p} ELSE misflagged
    /\ UNCHANGED <<rvars, dirty, pc, block, todo, next, late, times, handed, erased, restarts>>

Time ==
    /\ \E d \in 1..Stale : TimePasses(d)
    /\ UNCHANGED <<sim, dirty, pc, block, todo, next, late, history>>

\* The service is restarted (Restart=on-failure, or a reboot): everything in
\* memory is lost, the flags are what the stack holds; the commands of Init()
\* discard late answers.
DaemonRestarts ==
    /\ restarts < MaxRestarts
    /\ Restart
    /\ dirty' \in CleanFlags
    /\ misflagged' = misflagged \cup
         {sim[s] : s \in {t \in Stored : t \in Flags /\ dirty'[t]}}
    /\ pc' = "list"
    /\ block' = {}
    /\ todo' = {}
    /\ next' = 0
    /\ late' = <<>>
    /\ restarts' = restarts + 1
    /\ UNCHANGED <<sim, arrived, times, handed, erased>>

INext ==
    \/ GetSmsBlockByCMGL
    \/ ListFails
    \/ ReadOne
    \/ ReadEnds
    \/ ProcessNext
    \/ ProcessEnds
    \/ DeleteNext
    \/ CycleEnds
    \/ \E p \in Pdus, s \in Slots : Arrive(p, s)
    \/ Time
    \/ DaemonRestarts

ISpec == IInit /\ [][INext]_vars

\* The main loop never stops by itself; listing and erasing succeed now and then
\* (strong fairness), although any single attempt may fail.  Time passes.
\* Nothing is assumed of the network and of restarts.
Fair ==
    /\ SF_vars(GetSmsBlockByCMGL)
    /\ WF_vars(ListFails \/ ReadOne \/ ReadEnds)
    /\ WF_vars(ProcessNext)
    /\ WF_vars(ProcessEnds)
    /\ WF_vars(DeleteNext)
    /\ SF_vars(DeleteNext /\ dirty' # dirty)
    /\ WF_vars(CycleEnds)
    /\ WF_vars(Time)

FairISpec == ISpec /\ Fair

-----------------------------------------------------------------------------
(* Properties.                                                             *)

\* Type invariant.  Every index that reaches m_DirtySimSlots is one of its 128,
\* also when the answers of GetSmsBlockByCMGR come late and are taken for those
\* of later locations.
ITypeOK ==
    /\ sim \in [Slots -> Pdus \cup {NoPdu}]
    /\ dirty \in [Flags -> BOOLEAN]
    /\ pc \in {"list", "read", "process", "delete"}
    /\ block \subseteq [index : Flags, pdu : Pdus]
    /\ todo \subseteq block
    /\ next \in 0..CmgrLimit
    /\ Len(late) <= MaxLate
    /\ arrived \subseteq Pdus /\ erased \subseteq arrived /\ handed \subseteq arrived

\* src/README.md:21: "Each configured program is run for every received SMS."
\* What is erased from the SIM has been given to the reassembly before, also if
\* it arrived between the listing and the erase, and whatever failed in between.
ErasedOnlyIfProcessed == \A p \in erased : times[p] > 0

\* With memory that is not clean, acknowledgements that are lost and answers that
\* come late, the only messages erased unread are those that met a stale flag on
\* their slot, or whose slot was flagged for a PDU that was not theirs.
OnlyMisflaggedLost == \A p \in erased : times[p] > 0 \/ p \in misflagged

\* Between two restarts a message is processed at most once, however often its
\* erase is refused and it is listed again.
OncePerRun == \A p \in Pdus : times[p] <= restarts + 1

\* Every message that is stored is in the end handed to the callbacks, alone, in
\* its complete message or, when parts stay away, in an incomplete one.  Only a
\* part that is erased already can be lost, to a restart.
EveryMessageHanded ==
    \A p \in Pdus : p \in arrived ~> p \in handed \/ (p \in erased /\ restarts > 0)

\* ... and erased, so that the SIM does not stay full.
EveryMessageErased == \A p \in Pdus : p \in arrived ~> p \in erased

\* The flags implement the life of a message as Mailbox describes it.
LifeOf(p) ==
    IF p \in erased THEN "freed"
    ELSE IF p \notin arrived THEN "absent"
    ELSE IF \E s \in Slots \cap Flags : sim[s] = p /\ dirty[s] THEN "handled"
    ELSE "waiting"

Life == INSTANCE Mailbox WITH state <- [p \in Pdus |-> LifeOf(p)]

ImplementsMailbox == Life!Spec
=============================================================================
