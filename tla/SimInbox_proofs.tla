--------------------------- MODULE SimInbox_proofs ---------------------------
(* Proofs about SimInbox, for every SIM, every number of flags and every     *)
(* number of restarts.  First what holds however many answers come late;     *)
(* then, for a modem whose late answers are lost (MaxLate = 0), that nothing *)
(* is processed twice; then what clean memory adds.                          *)
EXTENDS SimInbox, Reassembly_proofs

USE PduAssumption, NoPduAssumption, SizeAssumption

-----------------------------------------------------------------------------
(* With any number of late answers.                                        *)

\* What the modem can have said: of messages that are, or were, on the SIM.
Known == [kind : {"list", "msg", "ok", "none"}, msgs : SUBSET [index : Slots, pdu : arrived]]

LateTypes ==
    /\ sim \in [Slots -> arrived \cup {NoPdu}]
    /\ dirty \in [Flags -> BOOLEAN]
    /\ times \in [Pdus -> Nat]
    /\ next \in 0..CmgrLimit
    /\ late \in Seq(Known) /\ Len(late) <= MaxLate
    /\ arrived \subseteq Pdus /\ erased \subseteq arrived /\ handed \subseteq arrived

\* What was read has arrived, and stands at an index that has a flag.
BlockKnown ==
    /\ pc \in {"list", "read", "process", "delete"}
    /\ pc = "read" => ListMayFail
    /\ block \subseteq [index : Flags, pdu : arrived]
    /\ todo \subseteq block

\* Beyond the SIM's last location only answers that are late already keep
\* GetSmsBlockByCMGR going, each of them for one location.
ReadsAhead ==
    pc = "read" /\ next > SimSize =>
        \A j \in 1..Len(late) : late[j].kind # "none" => j + next <= SimSize + MaxLate

\* A set flag is about the message on its slot, or that message is misflagged.
FlagsSound ==
    \A s \in Slots \cap Flags : dirty[s] /\ sim[s] # NoPdu =>
        times[sim[s]] > 0 \/ sim[s] \in misflagged

\* What the reassembly holds has arrived.
PartsArrived ==
    \A k \in Keys : cache[k] # NoEntry =>
        \A i \in HeldIn(cache[k].parts) : cache[k].parts[i] \in arrived

LateInv ==
    /\ IInv /\ LateTypes /\ BlockKnown /\ ReadsAhead /\ PartsArrived
    /\ FlagsSound /\ OnlyMisflaggedLost

\* What SendExpect returns was said before or now; an answer got for a command that
\* has none stood in the queue, which moves up.
LEMMA WhatArrives ==
    ASSUME late \in Seq(Known), Len(late) <= MaxLate, NEW a \in Known, NEW x \in Exchanges(a)
    PROVE  /\ x.got \in Known /\ x.late \in Seq(Known) /\ Len(x.late) <= MaxLate
           /\ a.kind = "none" /\ x.got.kind # "none" =>
                \E d \in 1..Len(late) :
                    /\ x.got = late[d]
                    /\ \A j \in 1..Len(x.late) : x.late[j].kind # "none" =>
                            d + j <= Len(late) /\ x.late[j] = late[d + j]
<1> DEFINE queue(d) == SubSeq(late, d + 1, Len(late))
<1>1. ASSUME NEW d \in 0..Len(late)
      PROVE  /\ queue(d) \in Seq(Known) /\ Len(queue(d)) = Len(late) - d
             /\ \A j \in 1..Len(queue(d)) : queue(d)[j] = late[d + j]
  <2>1. Len(late) \in Nat
    OBVIOUS
  <2>2. CASE d = Len(late)
    BY <2>1, <2>2
  <2>3. CASE d < Len(late)
    BY <2>1, <2>3
  <2> QED
    BY <2>1, <2>2, <2>3
<1> HIDE DEF queue
<1>2. NoAnswer \in Known /\ NoAnswer.kind = "none"
  BY DEF NoAnswer, Answer, Known
<1>3. PICK d \in 0..Len(late) :
        \/ x = [got |-> Head(Append(queue(d), a)), late |-> Tail(Append(queue(d), a))]
        \/ x = [got |-> NoAnswer, late |-> queue(d)]
        \/ /\ x = [got |-> NoAnswer, late |-> Append(queue(d), a)]
           /\ Len(queue(d)) < MaxLate
  BY DEF Exchanges, queue
<1>4. CASE x = [got |-> NoAnswer, late |-> queue(d)]
  BY <1>1, <1>2, <1>4
<1>5. CASE x = [got |-> NoAnswer, late |-> Append(queue(d), a)] /\ Len(queue(d)) < MaxLate
  BY <1>1, <1>2, <1>5
<1>6. CASE x = [got |-> Head(Append(queue(d), a)), late |-> Tail(Append(queue(d), a))]
  <2> DEFINE both == Append(queue(d), a)
  <2>1. /\ both \in Seq(Known) /\ Len(both) = Len(queue(d)) + 1
        /\ both[Len(both)] = a
        /\ \A j \in 1..Len(queue(d)) : both[j] = late[d + j]
    BY <1>1
  <2> HIDE DEF both
  <2>2. /\ Head(both) = both[1] /\ both[1] \in Known
        /\ Tail(both) \in Seq(Known) /\ Len(Tail(both)) = Len(queue(d))
        /\ \A j \in 1..Len(queue(d)) : Tail(both)[j] = both[j + 1]
    <3>1. Len(queue(d)) \in Nat
      BY <1>1
    <3>2. Len(both) \in Nat /\ Len(both) >= 1 /\ both # <<>>
      BY <2>1, <3>1
    <3>3. Head(both) = both[1] /\ both[1] \in Known
      BY <2>1, <3>2
    <3>4. Tail(both) \in Seq(Known) /\ Len(Tail(both)) = Len(both) - 1
      BY <2>1, <3>2
    <3>5. \A j \in 1..(Len(both) - 1) : Tail(both)[j] = both[j + 1]
      BY <2>1, <3>2
    <3> QED
      BY <2>1, <3>1, <3>3, <3>4, <3>5
  <2>3. x.got = both[1] /\ x.late = Tail(both)
    BY <1>6, <2>2 DEF both
  <2>4. /\ x.got \in Known /\ x.late \in Seq(Known) /\ Len(x.late) <= MaxLate
    BY <1>1, <2>2, <2>3
  <2>5. ASSUME a.kind = "none", x.got.kind # "none"
        PROVE  \E c \in 1..Len(late) :
                    /\ x.got = late[c]
                    /\ \A j \in 1..Len(x.late) : x.late[j].kind # "none" =>
                            c + j <= Len(late) /\ x.late[j] = late[c + j]
    <3>1. Len(queue(d)) # 0
      BY <2>1, <2>3, <2>5
    <3>2. d + 1 \in 1..Len(late) /\ x.got = late[d + 1]
      BY <1>1, <2>1, <2>3, <3>1
    <3>3. ASSUME NEW j \in 1..Len(x.late), x.late[j].kind # "none"
          PROVE  (d + 1) + j <= Len(late) /\ x.late[j] = late[(d + 1) + j]
      <4>1. j \in 1..Len(queue(d)) /\ x.late[j] = both[j + 1]
        BY <2>2, <2>3
      <4>2. j # Len(queue(d))
        BY <2>1, <2>5, <3>3, <4>1
      <4>3. j + 1 \in 1..Len(queue(d)) /\ Len(queue(d)) = Len(late) - d
        BY <1>1, <4>1, <4>2
      <4>4. both[j + 1] = late[d + (j + 1)]
        BY <2>1, <4>3
      <4>5. d + (j + 1) = (d + 1) + j /\ d + (j + 1) <= Len(late)
        BY <4>1, <4>3
      <4> QED
        BY <4>1, <4>4, <4>5
    <3> QED
      BY <3>2, <3>3
  <2> QED
    BY <2>4, <2>5
<1> QED
  BY <1>3, <1>4, <1>5, <1>6

\* The modem speaks of what is on the SIM.
LEMMA WhatIsSaid ==
    ASSUME LateTypes
    PROVE  /\ ListAnswer \in Known /\ Ok \in Known /\ NoAnswer \in Known
           /\ \A i \in Nat : ReadAnswers(i) \subseteq Known
<1>1. ASSUME NEW s \in Stored PROVE On(s) \in [index : Slots, pdu : arrived]
  BY <1>1 DEF On, Stored, LateTypes
<1>2. ListAnswer \in Known /\ Ok \in Known /\ NoAnswer \in Known
  BY <1>1 DEF ListAnswer, Ok, NoAnswer, Answer, Known
<1>3. ASSUME NEW i \in Nat, NEW a \in ReadAnswers(i) PROVE a \in Known
  <2>1. CASE i \in Stored
    BY <1>1, <1>3, <2>1 DEF ReadAnswers, Answer, Known
  <2>2. CASE i \notin Stored
    BY <1>2, <1>3, <2>2 DEF ReadAnswers
  <2> QED
    BY <2>1, <2>2
<1> QED
  BY <1>2, <1>3

LEMMA LateInit == IInit => LateInv
<1> SUFFICES ASSUME IInit PROVE LateInv
  OBVIOUS
<1>1. IInv
  BY InitSound DEF IInit
<1>2. LateTypes
  BY DEF IInit, LateTypes, CleanFlags
<1> QED
  BY <1>1, <1>2
     DEF IInit, Init, LateInv, BlockKnown, ReadsAhead, PartsArrived, FlagsSound, OnlyMisflaggedLost

-----------------------------------------------------------------------------

\* The cycle drives the reassembly only through its operations.
LEMMA CycleSteps ==
    ASSUME BlockKnown, arrived \subseteq Pdus, [INext]_vars
    PROVE  [Next]_rvars
<1>1. CASE ProcessNext
  <2>1. PICK r \in todo : Process(r)
    BY <1>1 DEF ProcessNext
  <2>2. r.pdu \in Pdus
    BY DEF BlockKnown
  <2> QED
    BY <2>1, <2>2 DEF Process, Next, rvars
<1>2. CASE ProcessEnds
  BY <1>2 DEF ProcessEnds, Next
<1>3. CASE Time
  BY <1>3 DEF Time, Next
<1>4. CASE DaemonRestarts
  BY <1>4 DEF DaemonRestarts, Next
<1>5. CASE \/ GetSmsBlockByCMGL \/ ListFails \/ ReadOne \/ ReadEnds \/ DeleteNext
           \/ CycleEnds \/ UNCHANGED vars \/ \E p \in Pdus, s \in Slots : Arrive(p, s)
  BY <1>5 DEF GetSmsBlockByCMGL, ListFails, ReadOne, ReadEnds, DeleteNext, CycleEnds,
              Arrive, vars, rvars
<1> QED
  BY <1>1, <1>2, <1>3, <1>4, <1>5 DEF INext

\* Reading of the SIM changes neither what is on it nor the flags.
LEMMA LateList ==
    ASSUME LateInv, GetSmsBlockByCMGL
    PROVE  LateTypes' /\ BlockKnown' /\ ReadsAhead' /\ PartsArrived' /\ FlagsSound'
           /\ OnlyMisflaggedLost'
<1>1. PICK x \in Exchanges(ListAnswer) :
        late' = x.late /\ block' = Listed(x.got) /\ todo' = Listed(x.got)
  BY DEF GetSmsBlockByCMGL
<1>2. UNCHANGED <<rvars, sim, dirty, next, history>> /\ pc' = "process"
  BY DEF GetSmsBlockByCMGL
<1>3. LateTypes
  BY DEF LateInv
<1>4. x.got \in Known /\ x.late \in Seq(Known) /\ Len(x.late) <= MaxLate
  BY <1>3, WhatArrives, WhatIsSaid DEF LateTypes
<1>5. Listed(x.got) \subseteq [index : Flags, pdu : arrived]
  BY <1>4 DEF Listed, Known, Slots, Flags
<1>6. LateTypes'
  BY <1>1, <1>2, <1>3, <1>4 DEF LateTypes, Known, history
<1>7. BlockKnown'
  BY <1>1, <1>2, <1>5 DEF BlockKnown, history
<1> QED
  BY <1>2, <1>6, <1>7
     DEF LateInv, ReadsAhead, PartsArrived, FlagsSound, OnlyMisflaggedLost, history, rvars

LEMMA LateListFails ==
    ASSUME LateInv, ListFails
    PROVE  LateTypes' /\ BlockKnown' /\ ReadsAhead' /\ PartsArrived' /\ FlagsSound'
           /\ OnlyMisflaggedLost'
<1>1. PICK x \in Exchanges(ListAnswer) : late' = x.late
  BY DEF ListFails
<1>2. UNCHANGED <<rvars, sim, dirty, block, todo, history>> /\ pc' = "read" /\ next' = 0 /\ ListMayFail
  BY DEF ListFails
<1>3. LateTypes
  BY DEF LateInv
<1>4. x.late \in Seq(Known) /\ Len(x.late) <= MaxLate
  BY <1>3, WhatArrives, WhatIsSaid DEF LateTypes
<1>6. LateTypes'
  BY <1>1, <1>2, <1>3, <1>4 DEF LateTypes, Known, history
<1>7. BlockKnown'
  BY <1>2 DEF LateInv, BlockKnown, history
<1>8. ReadsAhead'
  BY <1>2 DEF ReadsAhead
<1> QED
  BY <1>2, <1>6, <1>7, <1>8
     DEF LateInv, PartsArrived, FlagsSound, OnlyMisflaggedLost, history, rvars

\* An answer got for location next keeps the index within the flags: it is that
\* location's, or one of the late ones that are left.
LEMMA LateReadOne ==
    ASSUME LateInv, ReadOne
    PROVE  LateTypes' /\ BlockKnown' /\ ReadsAhead' /\ PartsArrived' /\ FlagsSound'
           /\ OnlyMisflaggedLost'
<1>0. PICK a \in ReadAnswers(next) : \E x \in Exchanges(a) :
        /\ x.got.kind # "none"
        /\ late' = x.late
        /\ block' = block \cup
             (IF x.got.kind = "msg" THEN {[index |-> next, pdu |-> r.pdu] : r \in x.got.msgs}
              ELSE {})
  BY DEF ReadOne
<1>1. PICK x \in Exchanges(a) :
        /\ x.got.kind # "none"
        /\ late' = x.late
        /\ block' = block \cup
             (IF x.got.kind = "msg" THEN {[index |-> next, pdu |-> r.pdu] : r \in x.got.msgs}
              ELSE {})
  BY <1>0
<1>2. /\ UNCHANGED <<rvars, sim, dirty, pc, todo, history>>
      /\ next' = next + 1 /\ pc = "read" /\ next < CmgrLimit
  BY DEF ReadOne
<1>3. LateTypes /\ next \in Nat
  BY DEF LateInv, LateTypes
<1>4. a \in Known
  BY <1>3, WhatIsSaid
<1>5. /\ x.got \in Known /\ x.late \in Seq(Known) /\ Len(x.late) <= MaxLate
      /\ a.kind = "none" =>
            \E d \in 1..Len(late) :
                /\ x.got = late[d]
                /\ \A j \in 1..Len(x.late) : x.late[j].kind # "none" =>
                        d + j <= Len(late) /\ x.late[j] = late[d + j]
  BY <1>1, <1>3, <1>4, WhatArrives DEF LateTypes
<1>6. Len(late) \in Nat /\ Len(late) <= MaxLate /\ Len(x.late) \in Nat
  BY <1>3, <1>5 DEF LateTypes
<1>7. SimSize + MaxLate <= MaxSmsIndex
  BY <1>2 DEF LateInv, BlockKnown
<1>8. ASSUME next < SimSize
      PROVE  next < MaxSmsIndex /\ ReadsAhead'
  <2>1. next < MaxSmsIndex /\ ~(next' > SimSize)
    BY <1>2, <1>3, <1>7, <1>8
  <2> QED
    BY <2>1 DEF ReadsAhead
<1>9. ASSUME next >= SimSize
      PROVE  next < MaxSmsIndex /\ ReadsAhead'
  <2>1. a.kind = "none"
    BY <1>3, <1>9 DEF ReadAnswers, Stored, Slots, NoAnswer, Answer
  <2>2. PICK d \in 1..Len(late) :
            /\ x.got = late[d]
            /\ \A j \in 1..Len(x.late) : x.late[j].kind # "none" =>
                    d + j <= Len(late) /\ x.late[j] = late[d + j]
    BY <1>5, <2>1
  <2>3. ASSUME NEW j \in 1..Len(late), late[j].kind # "none"
        PROVE  j + next <= SimSize + MaxLate
    <3>1. CASE next = SimSize
      BY <1>6, <3>1
    <3>2. CASE next > SimSize
      BY <1>2, <2>3, <3>2 DEF LateInv, ReadsAhead
    <3> QED
      BY <1>3, <1>9, <3>1, <3>2
  <2>4. next < MaxSmsIndex
    <3>1. d + next <= SimSize + MaxLate
      BY <1>1, <2>2, <2>3
    <3> QED
      BY <1>3, <1>6, <1>7, <3>1
  <2>5. ASSUME NEW j \in 1..Len(late'), late'[j].kind # "none"
        PROVE  j + next' <= SimSize + MaxLate
    <3>1. d + j \in 1..Len(late) /\ late'[j] = late[d + j]
      BY <1>1, <1>6, <2>2, <2>5
    <3>2. (d + j) + next <= SimSize + MaxLate
      BY <2>3, <2>5, <3>1
    <3> QED
      BY <1>1, <1>2, <1>3, <1>6, <3>2
  <2> QED
    BY <2>4, <2>5 DEF ReadsAhead
<1>10. next < MaxSmsIndex /\ ReadsAhead'
  BY <1>3, <1>8, <1>9
<1>11. LateTypes'
  <2>1. next' \in 0..CmgrLimit
    BY <1>2, <1>3
  <2> QED
    BY <1>1, <1>2, <1>3, <1>5, <2>1 DEF LateTypes, Known, history
<1>12. block' \subseteq [index : Flags, pdu : arrived]
  <2>1. next \in Flags
    BY <1>3, <1>10 DEF Flags
  <2>2. \A r \in x.got.msgs : r.pdu \in arrived
    BY <1>5 DEF Known
  <2>3. block \subseteq [index : Flags, pdu : arrived]
    BY DEF LateInv, BlockKnown
  <2> QED
    BY <1>1, <2>1, <2>2, <2>3
<1>13. BlockKnown'
  BY <1>1, <1>2, <1>12 DEF LateInv, BlockKnown, history
<1> QED
  BY <1>2, <1>10, <1>11, <1>13
     DEF LateInv, PartsArrived, FlagsSound, OnlyMisflaggedLost, history, rvars

LEMMA LateReadEnds ==
    ASSUME LateInv, ReadEnds
    PROVE  LateTypes' /\ BlockKnown' /\ ReadsAhead' /\ PartsArrived' /\ FlagsSound'
           /\ OnlyMisflaggedLost'
<1>1. LateTypes /\ next \in Nat
  BY DEF LateInv, LateTypes
<1>2. UNCHANGED <<rvars, sim, dirty, block, next, history>> /\ pc' = "process" /\ todo' = block
  BY DEF ReadEnds
<1>3. late' \in Seq(Known) /\ Len(late') <= MaxLate
  <2>1. CASE next < CmgrLimit
    <3>1. PICK a \in ReadAnswers(next) : \E x \in Exchanges(a) : late' = x.late
      BY <2>1 DEF ReadEnds
    <3>2. PICK x \in Exchanges(a) : late' = x.late
      BY <3>1
    <3>3. a \in Known
      BY <1>1, WhatIsSaid
    <3> QED
      BY <1>1, <3>2, <3>3, WhatArrives DEF LateTypes
  <2>2. CASE ~(next < CmgrLimit)
    BY <1>1, <2>2 DEF ReadEnds, LateTypes
  <2> QED
    BY <2>1, <2>2
<1>4. LateTypes'
  BY <1>1, <1>2, <1>3 DEF LateTypes, Known, history
<1>5. BlockKnown' /\ ReadsAhead'
  BY <1>2 DEF LateInv, BlockKnown, ReadsAhead, history
<1> QED
  BY <1>2, <1>4, <1>5
     DEF LateInv, PartsArrived, FlagsSound, OnlyMisflaggedLost, history, rvars

-----------------------------------------------------------------------------

\* A part that is added takes its place; the others stay.
LEMMA PartsOfEntry ==
    ASSUME IInv, PartsArrived, NEW p \in Pdus, p \in arrived, TotalOf[p] > 1
    PROVE  \A i \in HeldIn(AddPart(EntryFor(p), p).parts) : AddPart(EntryFor(p), p).parts[i] \in arrived
<1> DEFINE e == EntryFor(p)
           f == AddPart(EntryFor(p), p)
<1>1. \A i \in HeldIn(e.parts) : e.parts[i] \in arrived
  <2>1. CASE cache[KeyOf[p]] = NoEntry
    BY <2>1 DEF EntryFor, NewEntry, HeldIn
  <2>2. CASE cache[KeyOf[p]] # NoEntry
    <3>1. KeyOf[p] \in Keys
      OBVIOUS
    <3> QED
      BY <2>2, <3>1 DEF EntryFor, PartsArrived
  <2> QED
    BY <2>1, <2>2
<1>2. e \in Entries
  BY IInvParts, EntryForSound DEF Sound
<1>3. PICK n \in 2..MaxTotal : e \in EntriesOf(n)
  BY <1>2 DEF Entries
<1>4. e.parts \in [1..n -> Pdus \cup {NoPdu}]
  BY <1>3 DEF EntriesOf
<1>5. f.parts = e.parts \/ f.parts = [e.parts EXCEPT ![NumberOf[p]] = p]
  BY <1>3 DEF AddPart, EntriesOf
<1> QED
  BY <1>1, <1>4, <1>5 DEF HeldIn

LEMMA PartsOfPdu ==
    ASSUME IInv, PartsArrived, NEW p \in Pdus, p \in arrived, ProcessPDU(p), arrived' = arrived
    PROVE  /\ PartsArrived'
           /\ \A m \in out' : \A i \in HeldIn(m.parts) : m.parts[i] \in arrived
<1>1. CASE ProcessSingle(p)
  BY <1>1 DEF ProcessSingle, Message, HeldIn, PartsArrived
<1>2. CASE ProcessPart(p)
  <2> DEFINE e == AddPart(EntryFor(p), p)
  <2>1. \A i \in HeldIn(e.parts) : e.parts[i] \in arrived
    BY <1>2, PartsOfEntry DEF ProcessPart
  <2>2. /\ cache' = [cache EXCEPT ![KeyOf[p]] = NoEntry] \/ cache' = [cache EXCEPT ![KeyOf[p]] = e]
        /\ out' \subseteq {Message(KeyOf[p], e.parts)}
    BY <1>2 DEF ProcessPart
  <2>3. cache \in [Keys -> Entries \cup {NoEntry}]
    BY DEF IInv, TypeOK
  <2> HIDE DEF e
  <2>4. PartsArrived'
    BY <2>1, <2>2, <2>3 DEF PartsArrived
  <2>5. Message(KeyOf[p], e.parts).parts = e.parts
    BY DEF Message
  <2> QED
    BY <2>1, <2>2, <2>4, <2>5
<1> QED
  BY <1>1, <1>2 DEF ProcessPDU

\* A flag is set for the message that was read there; another one that stands there
\* by now is misflagged.
LEMMA LateProcess ==
    ASSUME LateInv, ProcessNext
    PROVE  LateTypes' /\ BlockKnown' /\ ReadsAhead' /\ PartsArrived' /\ FlagsSound'
           /\ OnlyMisflaggedLost'
<1>1. PICK r \in todo :
        Process(r) /\ todo' = todo \ {r} /\ misflagged' = misflagged \cup Mistaken(r)
  BY DEF ProcessNext
<1>2. pc = "process" /\ UNCHANGED <<sim, pc, block, next, late, arrived, erased, restarts>>
  BY DEF ProcessNext
<1>3. r.index \in Flags /\ r.pdu \in arrived /\ r.pdu \in Pdus
  BY DEF LateInv, BlockKnown, LateTypes
<1>4. BlockKnown' /\ ReadsAhead'
  BY <1>1, <1>2 DEF LateInv, BlockKnown, ReadsAhead
<1>5. CASE dirty[r.index]
  <2>1. UNCHANGED <<rvars, dirty, times, handed>>
    BY <1>1, <1>5 DEF Process
  <2>2. LateTypes' /\ PartsArrived'
    BY <1>2, <2>1 DEF LateInv, LateTypes, PartsArrived, Known, rvars
  <2>3. FlagsSound' /\ OnlyMisflaggedLost'
    BY <1>1, <1>2, <2>1 DEF LateInv, FlagsSound, OnlyMisflaggedLost
  <2> QED
    BY <1>4, <2>2, <2>3
<1>6. CASE ~dirty[r.index]
  <2>1. /\ ProcessPDU(r.pdu) /\ NoteHanded
        /\ dirty' = [dirty EXCEPT ![r.index] = TRUE]
        /\ times' = Counted(r.pdu)
    BY <1>1, <1>6 DEF Process
  <2>2. /\ PartsArrived'
        /\ \A m \in out' : \A i \in HeldIn(m.parts) : m.parts[i] \in arrived
    BY <1>2, <1>3, <2>1, PartsOfPdu DEF LateInv
  <2>3. handed' \subseteq arrived
    BY <2>1, <2>2 DEF NoteHanded, LateInv, LateTypes
  <2>4. /\ times \in [Pdus -> Nat] /\ dirty \in [Flags -> BOOLEAN]
        /\ sim \in [Slots -> arrived \cup {NoPdu}]
        /\ arrived \subseteq Pdus /\ erased \subseteq arrived
    BY DEF LateInv, LateTypes
  <2>5. /\ times' \in [Pdus -> Nat] /\ times'[r.pdu] > 0
        /\ \A p \in Pdus : times[p] > 0 => times'[p] > 0
    BY <1>3, <2>1, <2>4 DEF Counted
  <2>6. /\ dirty' \in [Flags -> BOOLEAN]
        /\ \A s \in Flags : s # r.index => dirty'[s] = dirty[s]
    BY <1>3, <2>1, <2>4
  <2>7. LateTypes'
    BY <1>2, <2>3, <2>5, <2>6 DEF LateInv, LateTypes, Known
  <2>8. FlagsSound'
    <3> SUFFICES ASSUME NEW s \in Slots \cap Flags, dirty'[s], sim[s] # NoPdu
                 PROVE  times'[sim[s]] > 0 \/ sim[s] \in misflagged'
      BY <1>2 DEF FlagsSound
    <3>1. CASE s = r.index
      <4>1. CASE sim[s] = r.pdu
        BY <2>5, <4>1
      <4>2. CASE sim[s] # r.pdu
        BY <1>1, <3>1, <4>2 DEF Mistaken, Stored
      <4> QED
        BY <4>1, <4>2
    <3>2. CASE s # r.index
      <4>1. dirty[s] /\ sim[s] \in Pdus
        BY <2>4, <2>6, <3>2
      <4>2. times[sim[s]] > 0 \/ sim[s] \in misflagged
        BY <4>1 DEF LateInv, FlagsSound
      <4> QED
        BY <1>1, <2>5, <4>1, <4>2
    <3> QED
      BY <3>1, <3>2
  <2>9. OnlyMisflaggedLost'
    BY <1>1, <1>2, <2>4, <2>5 DEF LateInv, OnlyMisflaggedLost
  <2> QED
    BY <1>4, <2>2, <2>7, <2>8, <2>9
<1> QED
  BY <1>5, <1>6

LEMMA LateProcessEnds ==
    ASSUME LateInv, ProcessEnds
    PROVE  LateTypes' /\ BlockKnown' /\ ReadsAhead' /\ PartsArrived' /\ FlagsSound'
           /\ OnlyMisflaggedLost'
<1>1. /\ pc' = "delete" /\ todo' = block /\ ClearCache /\ NoteHanded
      /\ UNCHANGED <<sim, dirty, block, next, late, arrived, times, erased, misflagged, restarts>>
  BY DEF ProcessEnds
<1>2. \A k \in Keys : cache'[k] = NoEntry \/ cache'[k] = cache[k]
  BY <1>1 DEF ClearCache
<1>3. PartsArrived'
  BY <1>1, <1>2 DEF LateInv, PartsArrived
<1>4. ASSUME NEW m \in out', NEW i \in HeldIn(m.parts)
      PROVE  m.parts[i] \in arrived
  <2>1. PICK k \in Expired : m = Message(k, cache[k].parts)
    BY <1>1 DEF ClearCache
  <2>2. m.parts = cache[k].parts
    BY <2>1 DEF Message
  <2> QED
    BY <1>4, <2>1, <2>2 DEF LateInv, PartsArrived, Expired
<1>5. handed' \subseteq arrived
  BY <1>1, <1>4 DEF NoteHanded, LateInv, LateTypes
<1>6. LateTypes'
  BY <1>1, <1>5 DEF LateInv, LateTypes, Known
<1> QED
  BY <1>1, <1>3, <1>6 DEF LateInv, BlockKnown, ReadsAhead, FlagsSound, OnlyMisflaggedLost

\* A location is erased only if its flag is set, so what is lost was misflagged.
LEMMA LateDelete ==
    ASSUME LateInv, DeleteNext
    PROVE  LateTypes' /\ BlockKnown' /\ ReadsAhead' /\ PartsArrived' /\ FlagsSound'
           /\ OnlyMisflaggedLost'
<1>1. PICK r \in todo : Delete(r) /\ todo' = todo \ {r}
  BY DEF DeleteNext
<1>2. pc = "delete" /\ UNCHANGED <<rvars, pc, block, next, arrived, times, handed, misflagged, restarts>>
  BY DEF DeleteNext
<1>3. r.index \in Flags
  BY DEF LateInv, BlockKnown
<1>4. BlockKnown' /\ ReadsAhead' /\ PartsArrived'
  BY <1>1, <1>2 DEF LateInv, BlockKnown, ReadsAhead, PartsArrived, rvars
<1>5. LateTypes
  BY DEF LateInv
<1>6. ASSUME NEW a \in {Ok, NoAnswer}, NEW x \in Exchanges(a), late' = x.late,
             dirty' = FlagsAfter(r.index, x.got)
      PROVE  /\ late' \in Seq(Known) /\ Len(late') <= MaxLate
             /\ dirty' \in [Flags -> BOOLEAN] /\ \A s \in Flags : dirty'[s] => dirty[s]
  <2>1. late' \in Seq(Known) /\ Len(late') <= MaxLate
    BY <1>5, <1>6, WhatArrives, WhatIsSaid DEF LateTypes
  <2>2. dirty' = dirty \/ dirty' = [dirty EXCEPT ![r.index] = FALSE]
    BY <1>6 DEF FlagsAfter
  <2> QED
    BY <1>3, <1>5, <2>1, <2>2 DEF LateTypes
<1>7. CASE UNCHANGED <<sim, dirty, late, erased>>
  BY <1>2, <1>4, <1>5, <1>7
     DEF LateInv, LateTypes, Known, FlagsSound, OnlyMisflaggedLost
<1>8. CASE Refuse(r.index)
  <2>1. UNCHANGED <<sim, erased>>
    BY <1>8 DEF Refuse
  <2>2. /\ late' \in Seq(Known) /\ Len(late') <= MaxLate
        /\ dirty' \in [Flags -> BOOLEAN] /\ \A s \in Flags : dirty'[s] => dirty[s]
    BY <1>6, <1>8 DEF Refuse
  <2> QED
    BY <1>2, <1>4, <1>5, <2>1, <2>2
       DEF LateInv, LateTypes, Known, FlagsSound, OnlyMisflaggedLost
<1>9. CASE dirty[r.index] /\ Erase(r.index)
  <2>1. /\ r.index \in Slots
        /\ sim' = [sim EXCEPT ![r.index] = NoPdu]
        /\ erased' = erased \cup ({sim[r.index]} \ {NoPdu})
    BY <1>9 DEF Erase
  <2>2. /\ late' \in Seq(Known) /\ Len(late') <= MaxLate
        /\ dirty' \in [Flags -> BOOLEAN] /\ \A s \in Flags : dirty'[s] => dirty[s]
    BY <1>6, <1>9 DEF Erase
  <2>3. /\ sim' \in [Slots -> arrived \cup {NoPdu}] /\ erased' \subseteq arrived
        /\ \A s \in Slots : sim'[s] # NoPdu => sim'[s] = sim[s]
    BY <1>5, <2>1 DEF LateTypes
  <2>4. LateTypes'
    BY <1>2, <1>5, <2>2, <2>3 DEF LateTypes, Known
  <2>5. FlagsSound'
    BY <1>2, <2>2, <2>3 DEF LateInv, FlagsSound
  <2>6. sim[r.index] # NoPdu => times[sim[r.index]] > 0 \/ sim[r.index] \in misflagged
    BY <1>3, <1>9, <2>1 DEF LateInv, FlagsSound
  <2>7. OnlyMisflaggedLost'
    BY <1>2, <2>1, <2>6 DEF LateInv, OnlyMisflaggedLost
  <2> QED
    BY <1>4, <2>4, <2>5, <2>7
<1> QED
  BY <1>1, <1>7, <1>8, <1>9 DEF Delete, DelSms

LEMMA LateCycleEnds ==
    ASSUME LateInv, CycleEnds
    PROVE  LateTypes' /\ BlockKnown' /\ ReadsAhead' /\ PartsArrived' /\ FlagsSound'
           /\ OnlyMisflaggedLost'
BY DEF CycleEnds, LateInv, LateTypes, Known, BlockKnown, ReadsAhead, PartsArrived, FlagsSound,
       OnlyMisflaggedLost, rvars, history

-----------------------------------------------------------------------------

LEMMA LateArrive ==
    ASSUME LateInv, NEW p \in Pdus, NEW s \in Slots, Arrive(p, s)
    PROVE  LateTypes' /\ BlockKnown' /\ ReadsAhead' /\ PartsArrived' /\ FlagsSound'
           /\ OnlyMisflaggedLost'
<1>1. /\ p \notin arrived /\ sim[s] = NoPdu
      /\ sim' = [sim EXCEPT ![s] = p] /\ arrived' = arrived \cup {p}
      /\ misflagged' = IF s \in Flags /\ dirty[s] THEN misflagged \cup {p} ELSE misflagged
      /\ UNCHANGED <<rvars, dirty, pc, block, todo, next, late, times, handed, erased, restarts>>
  BY DEF Arrive
<1>2. LateTypes
  BY DEF LateInv
<1>3. Known \subseteq Known'
  BY <1>1 DEF Known
<1>4. late' \in Seq(Known') /\ Len(late') <= MaxLate
  BY <1>1, <1>2, <1>3 DEF LateTypes
<1>5. sim' \in [Slots -> arrived' \cup {NoPdu}]
  BY <1>1, <1>2 DEF LateTypes
<1>6. LateTypes'
  BY <1>1, <1>2, <1>4, <1>5 DEF LateTypes
<1>7. BlockKnown' /\ ReadsAhead' /\ PartsArrived'
  BY <1>1 DEF LateInv, BlockKnown, ReadsAhead, PartsArrived, rvars
<1>8. \A t \in Slots : sim'[t] = IF t = s THEN p ELSE sim[t]
  BY <1>1, <1>2 DEF LateTypes
<1>9. FlagsSound'
  BY <1>1, <1>8 DEF LateInv, FlagsSound
<1>10. OnlyMisflaggedLost'
  BY <1>1 DEF LateInv, OnlyMisflaggedLost
<1> QED
  BY <1>6, <1>7, <1>9, <1>10

LEMMA LateTime ==
    ASSUME LateInv, Time
    PROVE  LateTypes' /\ BlockKnown' /\ ReadsAhead' /\ PartsArrived' /\ FlagsSound'
           /\ OnlyMisflaggedLost'
<1>1. PICK d \in 1..Stale : TimePasses(d)
  BY DEF Time
<1>2. UNCHANGED <<sim, dirty, pc, block, todo, next, late, history>>
  BY DEF Time
<1>3. cache \in [Keys -> Entries \cup {NoEntry}]
  BY DEF LateInv, IInv, TypeOK
<1>4. ASSUME NEW k \in Keys, cache'[k] # NoEntry
      PROVE  cache[k] # NoEntry /\ cache'[k].parts = cache[k].parts
  <2>1. cache'[k] = IF cache[k] = NoEntry THEN NoEntry
                    ELSE [cache[k] EXCEPT !.age = IF @ + d > Stale THEN Stale ELSE @ + d]
    BY <1>1 DEF TimePasses
  <2>2. cache[k] # NoEntry
    BY <1>4, <2>1
  <2>3. PICK n \in 2..MaxTotal : cache[k] \in EntriesOf(n)
    BY <1>3, <2>2 DEF Entries
  <2> QED
    BY <2>1, <2>2, <2>3 DEF EntriesOf
<1>5. PartsArrived'
  BY <1>2, <1>4 DEF LateInv, PartsArrived, history
<1> QED
  BY <1>2, <1>5
     DEF LateInv, LateTypes, Known, BlockKnown, ReadsAhead, FlagsSound, OnlyMisflaggedLost, history

LEMMA LateRestart ==
    ASSUME LateInv, DaemonRestarts
    PROVE  LateTypes' /\ BlockKnown' /\ ReadsAhead' /\ PartsArrived' /\ FlagsSound'
           /\ OnlyMisflaggedLost'
<1>1. /\ dirty' \in [Flags -> BOOLEAN] /\ Restart
      /\ misflagged' = misflagged \cup {sim[s] : s \in {t \in Stored : t \in Flags /\ dirty'[t]}}
      /\ pc' = "list" /\ block' = {} /\ todo' = {} /\ next' = 0 /\ late' = <<>>
      /\ UNCHANGED <<sim, arrived, times, handed, erased>>
  BY DEF DaemonRestarts, CleanFlags
<1>2. LateTypes'
  BY <1>1 DEF LateInv, LateTypes, Known
<1>3. BlockKnown' /\ ReadsAhead' /\ PartsArrived'
  BY <1>1 DEF BlockKnown, ReadsAhead, PartsArrived, Restart
<1>4. FlagsSound'
  BY <1>1 DEF FlagsSound, Stored
<1>5. OnlyMisflaggedLost'
  BY <1>1 DEF LateInv, OnlyMisflaggedLost
<1> QED
  BY <1>2, <1>3, <1>4, <1>5

LEMMA LateNext ==
    ASSUME LateInv, [INext]_vars
    PROVE  LateInv'
<1>1. IInv'
  <2>1. [Next]_rvars
    BY CycleSteps DEF LateInv, LateTypes
  <2> QED
    BY <2>1, NextSound DEF LateInv
<1>2. CASE UNCHANGED vars
  BY <1>1, <1>2 DEF vars, LateInv, LateTypes, Known, BlockKnown, ReadsAhead, PartsArrived,
                    FlagsSound, OnlyMisflaggedLost
<1> QED
  BY <1>1, <1>2, LateList, LateListFails, LateReadOne, LateReadEnds, LateProcess,
     LateProcessEnds, LateDelete, LateCycleEnds, LateArrive, LateTime, LateRestart
     DEF INext, LateInv

\* However many answers come late, in whatever memory the flags start and whichever
\* acknowledgements are lost.
THEOREM LateInvariance == ISpec => []LateInv
<1>1. IInit => LateInv
  BY LateInit
<1>2. LateInv /\ [INext]_vars => LateInv'
  BY LateNext
<1> QED
  BY <1>1, <1>2, PTL DEF ISpec

\* Every index that reaches the flags has one, also when late answers lead
\* GetSmsBlockByCMGR beyond the locations of the SIM.
THEOREM IndexesCorrect == ISpec => []ITypeOK
<1>1. LateInv => ITypeOK
  <2> SUFFICES ASSUME LateInv PROVE ITypeOK
    OBVIOUS
  <2>1. sim \in [Slots -> Pdus \cup {NoPdu}]
    BY DEF LateInv, LateTypes
  <2> QED
    BY <2>1 DEF LateInv, LateTypes, BlockKnown, ITypeOK
<1> QED
  BY <1>1, LateInvariance, PTL

\* Only a message that met a stale flag, or whose slot was flagged for another PDU,
\* is erased without being processed.
THEOREM LossCorrect == ISpec => []OnlyMisflaggedLost
<1>1. LateInv => OnlyMisflaggedLost
  BY DEF LateInv
<1> QED
  BY <1>1, LateInvariance, PTL

\* What Reassembly_proofs shows of every behaviour of Reassembly holds in the cycle.
THEOREM ReassemblyUsed == ISpec => Spec
<1>1. IInit => Init
  BY DEF IInit
<1>2. LateInv /\ [INext]_vars => [Next]_rvars
  BY CycleSteps DEF LateInv, LateTypes
<1> QED
  BY <1>1, <1>2, LateInvariance, PTL DEF ISpec, Spec

-----------------------------------------------------------------------------
(* Without late answers.                                                   *)

\* A command gets its own answer or none.
LEMMA NoLate ==
    ASSUME MaxLate = 0, late = <<>>, NEW a
    PROVE  Exchanges(a) = {[got |-> a, late |-> <<>>], [got |-> NoAnswer, late |-> <<>>]}
<1> DEFINE queues == {SubSeq(late, d + 1, Len(late)) : d \in 0..Len(late)}
<1>1. queues = {<<>>}
  <2>1. Len(late) = 0 /\ SubSeq(<<>>, 1, 0) = <<>>
    OBVIOUS
  <2>2. \A d \in 0..Len(late) : SubSeq(late, d + 1, Len(late)) = <<>>
    <3>1. \A d \in 0..Len(late) : d = 0
      BY <2>1
    <3> QED
      BY <2>1, <3>1
  <2>3. 0 \in 0..Len(late)
    BY <2>1
  <2> QED
    BY <2>2, <2>3
<1>2. {r \in queues : Len(r) < MaxLate} = {}
  BY <1>1
<1>3. Head(Append(<<>>, a)) = a /\ Tail(Append(<<>>, a)) = <<>>
  OBVIOUS
<1> QED
  BY <1>1, <1>2, <1>3 DEF Exchanges

-----------------------------------------------------------------------------
(* The invariant when late answers are lost, part by part.                 *)

InTypes ==
    /\ sim \in [Slots -> Pdus \cup {NoPdu}]
    /\ dirty \in [Flags -> BOOLEAN]
    /\ times \in [Pdus -> Nat]
    /\ restarts \in Nat
    /\ next \in Nat
    /\ late = <<>>
    /\ erased \subseteq arrived
    /\ arrived \subseteq Pdus

\* A location holds one message, which has arrived and is not erased; no message
\* is on two locations.
SimSound ==
    /\ \A s \in Slots : sim[s] # NoPdu => sim[s] \in arrived /\ sim[s] \notin erased
    /\ \A s, t \in Slots : sim[s] # NoPdu /\ sim[s] = sim[t] => s = t

\* What is still to be processed or deleted is still on the SIM, where it was
\* read: nobody but this loop erases.
BlockSound ==
    /\ pc \in {"list", "read", "process", "delete"}
    /\ pc = "list" => block = {}
    /\ pc = "read" => ListMayFail
    /\ pc = "read" => todo = {}
    /\ block \subseteq [index : Flags, pdu : Pdus]
    /\ todo \subseteq block
    /\ pc \in {"read", "process"} =>
          \A r \in block : r.index \in Slots /\ sim[r.index] = r.pdu
    /\ pc = "delete" =>
          \A r \in todo : r.index \in Slots /\ sim[r.index] = r.pdu

\* A message whose flag is not set has not been processed in this run.
TimesSound ==
    /\ \A p \in Pdus : times[p] <= restarts + 1
    /\ \A p \in Pdus : p \notin arrived => times[p] = 0
    /\ \A s \in Slots \cap Flags : sim[s] # NoPdu /\ ~dirty[s] => times[sim[s]] <= restarts

InboxInv ==
    /\ InTypes /\ SimSound /\ BlockSound /\ FlagsSound /\ TimesSound
    /\ OnlyMisflaggedLost

-----------------------------------------------------------------------------

LEMMA SlotsAndFlags == Slots \subseteq Nat /\ Flags \subseteq Nat
BY DEF Slots, Flags

LEMMA InboxInit == IInit => InboxInv
<1> SUFFICES ASSUME IInit PROVE InboxInv
  OBVIOUS
<1>1. InTypes
  BY DEF IInit, InTypes, CleanFlags
<1> QED
  BY <1>1 DEF IInit, InboxInv, SimSound, BlockSound, FlagsSound, TimesSound, OnlyMisflaggedLost

\* The listing: what it returns is on the SIM.
LEMMA ListKeeps ==
    ASSUME MaxLate = 0, InboxInv, GetSmsBlockByCMGL
    PROVE  InboxInv'
<1>1. PICK x \in Exchanges(ListAnswer) :
        x.got.kind # "none" /\ late' = x.late /\ block' = Listed(x.got) /\ todo' = Listed(x.got)
  BY DEF GetSmsBlockByCMGL
<1>2. x.late = <<>> /\ x.got \in {ListAnswer, NoAnswer}
  BY NoLate DEF InboxInv, InTypes
<1>3. x.got = ListAnswer
  BY <1>1, <1>2 DEF NoAnswer, Answer
<1>4. \A r \in Listed(ListAnswer) :
        r \in [index : Flags, pdu : Pdus] /\ r.index \in Slots /\ sim[r.index] = r.pdu
  <2> SUFFICES ASSUME NEW s \in Slots, sim[s] # NoPdu, s < MaxSmsIndex
               PROVE  On(s) \in [index : Flags, pdu : Pdus] /\ On(s).index = s /\ On(s).pdu = sim[s]
    BY DEF Listed, ListAnswer, Answer, Stored, On
  <2>1. s \in Flags
    BY SlotsAndFlags DEF Flags
  <2>2. sim[s] \in Pdus
    BY DEF InboxInv, InTypes
  <2> QED
    BY <2>1, <2>2 DEF On
<1>5. UNCHANGED <<sim, dirty, next, history>> /\ pc' = "process"
  BY DEF GetSmsBlockByCMGL
<1>6. BlockSound'
  BY <1>1, <1>3, <1>4, <1>5 DEF BlockSound
<1> QED
  BY <1>1, <1>2, <1>5, <1>6
     DEF InboxInv, InTypes, SimSound, FlagsSound, TimesSound, OnlyMisflaggedLost, history

\* The fallback begins with an empty block.
LEMMA ListFailsKeeps ==
    ASSUME MaxLate = 0, InboxInv, ListFails
    PROVE  InboxInv'
<1>1. late' = <<>>
  BY NoLate DEF ListFails, InboxInv, InTypes
<1>2. /\ UNCHANGED <<sim, dirty, block, todo, history>> /\ pc' = "read" /\ next' = 0
      /\ pc = "list" /\ ListMayFail
  BY DEF ListFails
<1>3. BlockSound'
  BY <1>2 DEF InboxInv, BlockSound
<1> QED
  BY <1>1, <1>2, <1>3
     DEF InboxInv, InTypes, SimSound, FlagsSound, TimesSound, OnlyMisflaggedLost, history

\* Reading location next: the answer is its own, so the PDU is the one stored there.
LEMMA ReadOneKeeps ==
    ASSUME MaxLate = 0, InboxInv, ReadOne
    PROVE  InboxInv'
<1>0. PICK a \in ReadAnswers(next) : \E x \in Exchanges(a) :
        /\ x.got.kind # "none"
        /\ late' = x.late
        /\ block' = block \cup
             (IF x.got.kind = "msg" THEN {[index |-> next, pdu |-> r.pdu] : r \in x.got.msgs}
              ELSE {})
  BY DEF ReadOne
<1>1. PICK x \in Exchanges(a) :
        /\ x.got.kind # "none"
        /\ late' = x.late
        /\ block' = block \cup
             (IF x.got.kind = "msg" THEN {[index |-> next, pdu |-> r.pdu] : r \in x.got.msgs}
              ELSE {})
  BY <1>0
<1>2. x.late = <<>> /\ x.got \in {a, NoAnswer}
  BY NoLate DEF InboxInv, InTypes
<1>3. x.got = a
  BY <1>1, <1>2 DEF NoAnswer, Answer
<1>4. \A b \in block' \ block : b = [index |-> next, pdu |-> sim[next]] /\ next \in Stored
  <2>1. CASE next \in Stored
    <3>1. x.got.msgs = {On(next)} /\ On(next).pdu = sim[next]
      BY <1>3, <2>1 DEF ReadAnswers, Answer, On
    <3> QED
      BY <1>1, <2>1, <3>1
  <2>2. CASE next \notin Stored
    BY <1>1, <1>3, <2>2 DEF ReadAnswers, Ok, NoAnswer, Answer
  <2> QED
    BY <2>1, <2>2
<1>5. next \in Stored => next \in Slots /\ next \in Flags /\ sim[next] \in Pdus
  BY DEF Stored, InboxInv, InTypes, BlockSound, ReadOne, Slots, Flags
<1>6. /\ UNCHANGED <<sim, dirty, pc, todo, history>>
      /\ next' = next + 1 /\ pc = "read"
  BY DEF ReadOne
<1>7. \A b \in block' : b \in [index : Flags, pdu : Pdus] /\ b.index \in Slots /\ sim[b.index] = b.pdu
  BY <1>4, <1>5, <1>6 DEF InboxInv, BlockSound
<1>8. BlockSound'
  BY <1>6, <1>7 DEF InboxInv, BlockSound
<1> QED
  BY <1>1, <1>2, <1>6, <1>8
     DEF InboxInv, InTypes, SimSound, FlagsSound, TimesSound, OnlyMisflaggedLost, history

LEMMA ReadEndsKeeps ==
    ASSUME MaxLate = 0, InboxInv, ReadEnds
    PROVE  InboxInv'
<1>1. late' = <<>>
  BY NoLate DEF ReadEnds, InboxInv, InTypes
<1>2. /\ UNCHANGED <<sim, dirty, block, next, history>> /\ pc' = "process" /\ todo' = block
      /\ pc = "read"
  BY DEF ReadEnds
<1>3. BlockSound'
  BY <1>2 DEF InboxInv, BlockSound
<1> QED
  BY <1>1, <1>2, <1>3
     DEF InboxInv, InTypes, SimSound, FlagsSound, TimesSound, OnlyMisflaggedLost, history

-----------------------------------------------------------------------------

\* Processing one message of the block: its flag and its count rise together.
LEMMA ProcessKeeps ==
    ASSUME InboxInv, ProcessNext
    PROVE  InboxInv'
<1>1. PICK r \in todo :
        Process(r) /\ todo' = todo \ {r} /\ misflagged' = misflagged \cup Mistaken(r)
  BY DEF ProcessNext
<1>9. pc = "process" /\ UNCHANGED <<sim, pc, block, next, late, arrived, erased, restarts>>
  BY DEF ProcessNext
<1>10. sim[r.index] = r.pdu
  BY <1>9 DEF InboxInv, BlockSound
<1>2. /\ pc = "process"
      /\ UNCHANGED <<sim, pc, block, next, late, arrived, erased, misflagged, restarts>>
  BY <1>1, <1>9, <1>10 DEF Mistaken
<1>3. /\ r.index \in Slots \cap Flags /\ r.pdu \in Pdus
      /\ sim[r.index] = r.pdu /\ sim[r.index] # NoPdu
  BY <1>2 DEF InboxInv, BlockSound
<1>4. r.pdu \in arrived
  BY <1>3 DEF InboxInv, SimSound
<1>5. BlockSound'
  BY <1>1, <1>2 DEF InboxInv, BlockSound
<1>6. SimSound'
  BY <1>2 DEF InboxInv, SimSound
<1>7. CASE dirty[r.index]
  <2>1. UNCHANGED <<dirty, times>>
    BY <1>1, <1>7 DEF Process
  <2> QED
    BY <2>1, <1>2, <1>5, <1>6
       DEF InboxInv, InTypes, FlagsSound, TimesSound, OnlyMisflaggedLost
<1>8. CASE ~dirty[r.index]
  <2>1. /\ dirty' = [dirty EXCEPT ![r.index] = TRUE]
        /\ times' = Counted(r.pdu)
    BY <1>1, <1>8 DEF Process
  <2>2. InTypes'
    BY <2>1, <1>2, <1>3 DEF InboxInv, InTypes, Counted
  <2>3. /\ \A p \in Pdus \ {r.pdu} : times'[p] = times[p]
        /\ times'[r.pdu] \in 1..(times[r.pdu] + 1)
    BY <2>1, <1>3 DEF InboxInv, InTypes, Counted
  <2>4. \A s \in Flags : dirty'[s] = (s = r.index \/ dirty[s])
    BY <2>1, <1>3 DEF InboxInv, InTypes
  <2>11. /\ restarts \in Nat
         /\ \A p \in Pdus : times[p] \in Nat
         /\ \A s \in Slots : sim[s] # NoPdu => sim[s] \in Pdus
         /\ \A p \in erased : p \in Pdus
    BY DEF InboxInv, InTypes
  <2>10. times'[r.pdu] > 0 /\ \A p \in Pdus : times[p] > 0 => times'[p] > 0
    BY <2>3, <2>11, <1>3
  <2>5. FlagsSound'
    <3> SUFFICES ASSUME NEW s \in Slots \cap Flags, dirty'[s], sim[s] # NoPdu
                 PROVE  times'[sim[s]] > 0 \/ sim[s] \in misflagged
      BY <1>2 DEF FlagsSound
    <3>1. CASE s = r.index
      BY <3>1, <2>10, <1>3
    <3>2. CASE s # r.index
      BY <3>2, <2>4, <2>11, <2>10 DEF InboxInv, FlagsSound
    <3> QED
      BY <3>1, <3>2
  <2>6. times[r.pdu] <= restarts
    BY <1>3, <1>8 DEF InboxInv, TimesSound
  <2>7. TimesSound'
    <3>1. \A p \in Pdus : times'[p] <= restarts' + 1
      BY <2>3, <2>6, <2>11, <1>2, <1>3 DEF InboxInv, TimesSound
    <3>2. \A p \in Pdus : p \notin arrived' => times'[p] = 0
      BY <2>3, <1>2, <1>4 DEF InboxInv, TimesSound
    <3>3. ASSUME NEW s \in Slots \cap Flags, sim'[s] # NoPdu, ~dirty'[s]
          PROVE  times'[sim'[s]] <= restarts'
      <4>1. s # r.index /\ ~dirty[s]
        BY <2>4, <3>3
      <4>2. sim[s] # r.pdu /\ sim[s] \in Pdus
        BY <3>3, <4>1, <1>2, <1>3 DEF InboxInv, SimSound, InTypes
      <4> QED
        BY <2>3, <3>3, <4>1, <4>2, <1>2 DEF InboxInv, TimesSound
    <3> QED
      BY <3>1, <3>2, <3>3 DEF TimesSound
  <2>8. OnlyMisflaggedLost'
    BY <2>11, <2>10, <1>2 DEF InboxInv, OnlyMisflaggedLost
  <2> QED
    BY <2>2, <2>5, <2>7, <2>8, <1>5, <1>6 DEF InboxInv
<1> QED
  BY <1>7, <1>8

LEMMA ProcessEndsKeeps ==
    ASSUME InboxInv, ProcessEnds
    PROVE  InboxInv'
<1>1. /\ pc = "process" /\ pc' = "delete" /\ todo' = block
      /\ UNCHANGED <<sim, dirty, block, next, late, arrived, times, erased, misflagged, restarts>>
  BY DEF ProcessEnds
<1>2. BlockSound'
  BY <1>1 DEF InboxInv, BlockSound
<1> QED
  BY <1>1, <1>2 DEF InboxInv, InTypes, SimSound, FlagsSound, TimesSound, OnlyMisflaggedLost

LEMMA CycleEndsKeeps ==
    ASSUME InboxInv, CycleEnds
    PROVE  InboxInv'
<1>1. /\ todo = {} /\ block' = {} /\ pc' = "list"
      /\ UNCHANGED <<sim, dirty, todo, next, late, history>>
  BY DEF CycleEnds
<1>2. BlockSound'
  BY <1>1 DEF InboxInv, BlockSound
<1> QED
  BY <1>1, <1>2
     DEF InboxInv, InTypes, SimSound, FlagsSound, TimesSound, OnlyMisflaggedLost, history

\* What Delete(r) does without late answers: nothing, or the location is emptied
\* and the flag perhaps cleared, or only the command fails.
LEMMA DeleteCases ==
    ASSUME MaxLate = 0, InboxInv, NEW r \in todo, Delete(r), pc = "delete"
    PROVE  /\ late' = <<>>
           /\ \/ UNCHANGED <<sim, dirty, erased>>
              \/ /\ dirty[r.index]
                 /\ sim' = [sim EXCEPT ![r.index] = NoPdu]
                 /\ erased' = erased \cup {r.pdu}
                 /\ \/ dirty' = [dirty EXCEPT ![r.index] = FALSE]
                    \/ AckMayBeLost /\ dirty' = dirty
<1>1. late = <<>>
  BY DEF InboxInv, InTypes
<1>2. r.index \in Slots /\ sim[r.index] = r.pdu /\ r.pdu \in Pdus
  BY DEF InboxInv, BlockSound
<1>3. NoAnswer.kind = "none" /\ Ok.kind = "ok" /\ Ok # NoAnswer
  BY DEF NoAnswer, Ok, Answer
<1>4. CASE ~dirty[r.index]
  BY <1>1, <1>4 DEF Delete
<1>5. CASE dirty[r.index] /\ Erase(r.index)
  <2>1. PICK x \in Exchanges(Ok) :
          (AckMayBeLost \/ x.got = Ok) /\ late' = x.late /\ dirty' = FlagsAfter(r.index, x.got)
    BY <1>5 DEF Erase
  <2>2. x.late = <<>> /\ x.got \in {Ok, NoAnswer}
    BY <1>1, NoLate
  <2>3. sim' = [sim EXCEPT ![r.index] = NoPdu] /\ erased' = erased \cup {r.pdu}
    BY <1>2, <1>5 DEF Erase
  <2> QED
    BY <2>1, <2>2, <2>3, <1>3, <1>5 DEF FlagsAfter
<1>6. CASE dirty[r.index] /\ Refuse(r.index)
  <2>1. PICK x \in Exchanges(NoAnswer) : late' = x.late /\ dirty' = FlagsAfter(r.index, x.got)
    BY <1>6 DEF Refuse
  <2>2. x.late = <<>> /\ x.got = NoAnswer
    BY <1>1, NoLate
  <2> QED
    BY <2>1, <2>2, <1>3, <1>6 DEF FlagsAfter, Refuse
<1> QED
  BY <1>4, <1>5, <1>6 DEF Delete, DelSms

\* Erasing one message of the block: its flag was set, so it was processed or is
\* one of the misflagged.
LEMMA DeleteKeeps ==
    ASSUME MaxLate = 0, InboxInv, DeleteNext
    PROVE  InboxInv'
<1>1. PICK r \in todo : Delete(r) /\ todo' = todo \ {r}
  BY DEF DeleteNext
<1>2. pc = "delete" /\ UNCHANGED <<pc, block, next, arrived, times, misflagged, restarts>>
  BY DEF DeleteNext
<1>3. /\ r.index \in Slots \cap Flags /\ r.pdu \in Pdus
      /\ sim[r.index] = r.pdu /\ sim[r.index] # NoPdu
  BY <1>2 DEF InboxInv, BlockSound
<1>4. late' = <<>>
  BY <1>1, <1>2, DeleteCases
<1>5. CASE UNCHANGED <<sim, dirty, erased>>
  <2>1. BlockSound'
    BY <1>1, <1>2, <1>5 DEF InboxInv, BlockSound
  <2> QED
    BY <2>1, <1>2, <1>4, <1>5
       DEF InboxInv, InTypes, SimSound, FlagsSound, TimesSound, OnlyMisflaggedLost
<1>6. CASE /\ dirty[r.index]
           /\ sim' = [sim EXCEPT ![r.index] = NoPdu]
           /\ erased' = erased \cup {r.pdu}
           /\ \/ dirty' = [dirty EXCEPT ![r.index] = FALSE]
              \/ AckMayBeLost /\ dirty' = dirty
  <2>1. \A s \in Slots : sim'[s] = IF s = r.index THEN NoPdu ELSE sim[s]
    BY <1>6 DEF InboxInv, InTypes
  <2>2. \A s \in Flags : s # r.index => dirty'[s] = dirty[s]
    BY <1>6 DEF InboxInv, InTypes
  <2>3. r.pdu \in arrived
    BY <1>3 DEF InboxInv, SimSound
  <2>4. InTypes'
    BY <1>2, <1>4, <1>6, <2>3 DEF InboxInv, InTypes
  <2>5. SimSound'
    BY <1>2, <1>3, <1>6, <2>1 DEF InboxInv, SimSound
  <2>6. \A q \in todo' : q \in todo /\ q.index # r.index
    <3> SUFFICES ASSUME NEW q \in todo, q # r PROVE q.index # r.index
      BY <1>1
    <3>1. /\ q \in [index : Flags, pdu : Pdus] /\ r \in [index : Flags, pdu : Pdus]
          /\ sim[q.index] = q.pdu
      BY <1>2 DEF InboxInv, BlockSound
    <3> QED
      BY <3>1, <1>3
  <2>7. BlockSound'
    BY <1>1, <1>2, <2>1, <2>6 DEF InboxInv, BlockSound
  <2>8. FlagsSound'
    BY <1>2, <2>1, <2>2 DEF InboxInv, FlagsSound
  <2>9. TimesSound'
    BY <1>2, <2>1, <2>2 DEF InboxInv, TimesSound
  <2>10. OnlyMisflaggedLost'
    BY <1>2, <1>3, <1>6 DEF InboxInv, FlagsSound, OnlyMisflaggedLost
  <2> QED
    BY <2>4, <2>5, <2>7, <2>8, <2>9, <2>10 DEF InboxInv
<1> QED
  BY <1>1, <1>2, <1>5, <1>6, DeleteCases

-----------------------------------------------------------------------------

\* A message that arrives on a slot with a set flag is misflagged from then on.
LEMMA ArriveKeeps ==
    ASSUME InboxInv, NEW p \in Pdus, NEW s \in Slots, Arrive(p, s)
    PROVE  InboxInv'
<1>1. /\ p \notin arrived /\ sim[s] = NoPdu
      /\ sim' = [sim EXCEPT ![s] = p] /\ arrived' = arrived \cup {p}
      /\ misflagged' = IF s \in Flags /\ dirty[s] THEN misflagged \cup {p} ELSE misflagged
      /\ UNCHANGED <<dirty, pc, block, todo, next, late, times, erased, restarts>>
  BY DEF Arrive
<1>2. \A t \in Slots : sim'[t] = IF t = s THEN p ELSE sim[t]
  BY <1>1 DEF InboxInv, InTypes
<1>3. InTypes'
  BY <1>1 DEF InboxInv, InTypes
<1>4. p \notin erased /\ \A t \in Slots : sim[t] # p
  BY <1>1 DEF InboxInv, InTypes, SimSound
<1>5. SimSound'
  BY <1>1, <1>2, <1>4 DEF InboxInv, SimSound
<1>6. BlockSound'
  BY <1>1, <1>2 DEF InboxInv, BlockSound
<1>7. FlagsSound'
  BY <1>1, <1>2 DEF InboxInv, FlagsSound
<1>8. TimesSound'
  <2>1. times[p] <= restarts
    BY <1>1 DEF InboxInv, InTypes, TimesSound
  <2> QED
    BY <2>1, <1>1, <1>2 DEF InboxInv, TimesSound
<1>9. OnlyMisflaggedLost'
  BY <1>1 DEF InboxInv, OnlyMisflaggedLost
<1> QED
  BY <1>3, <1>5, <1>6, <1>7, <1>8, <1>9 DEF InboxInv

LEMMA TimeKeeps ==
    ASSUME InboxInv, Time
    PROVE  InboxInv'
BY DEF Time, InboxInv, InTypes, SimSound, BlockSound, FlagsSound, TimesSound,
       OnlyMisflaggedLost, history

LEMMA RestartKeeps ==
    ASSUME InboxInv, DaemonRestarts
    PROVE  InboxInv'
<1>1. /\ dirty' \in [Flags -> BOOLEAN]
      /\ misflagged' = misflagged \cup {sim[s] : s \in {t \in Stored : t \in Flags /\ dirty'[t]}}
      /\ pc' = "list" /\ block' = {} /\ todo' = {} /\ next' = 0 /\ late' = <<>>
      /\ restarts' = restarts + 1
      /\ UNCHANGED <<sim, arrived, times, erased>>
  BY DEF DaemonRestarts, CleanFlags
<1>2. InTypes'
  BY <1>1 DEF InboxInv, InTypes
<1>3. BlockSound'
  BY <1>1 DEF BlockSound
<1>4. FlagsSound'
  BY <1>1 DEF FlagsSound, Stored
<1>5. TimesSound'
  <2>1. restarts \in Nat /\ \A p \in Pdus : times[p] \in Nat /\ times[p] <= restarts + 1
    BY DEF InboxInv, InTypes, TimesSound
  <2>2. \A s \in Slots : sim[s] # NoPdu => sim[s] \in Pdus
    BY DEF InboxInv, InTypes
  <2>3. \A p \in Pdus : p \notin arrived => times[p] = 0
    BY DEF InboxInv, TimesSound
  <2> QED
    BY <1>1, <2>1, <2>2, <2>3 DEF TimesSound
<1>6. SimSound' /\ OnlyMisflaggedLost'
  BY <1>1 DEF InboxInv, SimSound, OnlyMisflaggedLost
<1> QED
  BY <1>2, <1>3, <1>4, <1>5, <1>6 DEF InboxInv

-----------------------------------------------------------------------------

LEMMA InboxNext ==
    ASSUME MaxLate = 0, InboxInv, [INext]_vars
    PROVE  InboxInv'
<1>1. CASE UNCHANGED vars
  BY <1>1 DEF vars, InboxInv, InTypes, SimSound, BlockSound, FlagsSound, TimesSound,
              OnlyMisflaggedLost
<1> QED
  BY <1>1, ListKeeps, ListFailsKeeps, ReadOneKeeps, ReadEndsKeeps, ProcessKeeps,
     ProcessEndsKeeps, DeleteKeeps, CycleEndsKeeps, ArriveKeeps, TimeKeeps, RestartKeeps
     DEF INext

\* The inductive invariant of the incoming cycle.
THEOREM InboxInvariance ==
    ASSUME MaxLate = 0 PROVE ISpec => []InboxInv
<1>1. IInit => InboxInv
  BY InboxInit
<1>2. InboxInv /\ [INext]_vars => InboxInv'
  BY InboxNext
<1> QED
  BY <1>1, <1>2, PTL DEF ISpec

\* No message is processed twice between two restarts.
THEOREM OnceCorrect ==
    ASSUME MaxLate = 0 PROVE ISpec => []OncePerRun
<1>1. InboxInv => OncePerRun
  BY DEF InboxInv, TimesSound, OncePerRun
<1> QED
  BY <1>1, InboxInvariance, PTL

-----------------------------------------------------------------------------
(* With flags that start clear and acknowledgements that are not lost, the *)
(* flags are exactly the life of the messages that Mailbox describes.      *)

Clean == MaxLate = 0 /\ Garbage = {} /\ ~AckMayBeLost

\* A flag is set only for a slot that holds a message, and none is stale.
FlagsExact ==
    /\ \A s \in Flags : dirty[s] => s \in Slots /\ sim[s] # NoPdu
    /\ misflagged = {}

CleanInv == InboxInv /\ FlagsExact

LEMMA CleanMemory ==
    ASSUME Garbage = {}, NEW f \in CleanFlags
    PROVE  \A s \in Flags : ~f[s]
BY DEF CleanFlags

LEMMA CleanInit == ASSUME Clean, IInit PROVE CleanInv
BY CleanMemory, InboxInit DEF Clean, IInit, CleanInv, FlagsExact

\* Arrivals meet clear flags; a successful erase clears the flag it empties.
LEMMA CleanNext ==
    ASSUME Clean, CleanInv, [INext]_vars
    PROVE  CleanInv'
<1>1. InboxInv /\ InboxInv'
  BY InboxNext DEF Clean, CleanInv
<1>2. CASE ProcessNext
  <2>1. PICK r \in todo : Process(r) /\ misflagged' = misflagged \cup Mistaken(r)
    BY <1>2 DEF ProcessNext
  <2>4. /\ r.index \in Slots \cap Flags /\ sim[r.index] # NoPdu
        /\ sim[r.index] = r.pdu /\ sim' = sim
    BY <1>1, <1>2 DEF ProcessNext, InboxInv, BlockSound
  <2>2. /\ r.index \in Slots \cap Flags /\ sim[r.index] # NoPdu
        /\ UNCHANGED <<sim, misflagged>>
    BY <2>1, <2>4 DEF Mistaken
  <2>3. dirty' = dirty \/ dirty' = [dirty EXCEPT ![r.index] = TRUE]
    BY <2>1 DEF Process
  <2> QED
    BY <1>1, <2>2, <2>3 DEF CleanInv, FlagsExact, InboxInv, InTypes
<1>3. CASE DeleteNext
  <2>1. PICK r \in todo : Delete(r)
    BY <1>3 DEF DeleteNext
  <2>2. pc = "delete" /\ misflagged' = misflagged /\ r.index \in Slots \cap Flags
    BY <1>1, <1>3 DEF DeleteNext, InboxInv, BlockSound
  <2>3. \/ UNCHANGED <<sim, dirty>>
        \/ /\ sim' = [sim EXCEPT ![r.index] = NoPdu]
           /\ dirty' = [dirty EXCEPT ![r.index] = FALSE]
    BY <1>1, <2>1, <2>2, DeleteCases DEF Clean
  <2> QED
    BY <1>1, <2>2, <2>3 DEF CleanInv, FlagsExact, InboxInv, InTypes
<1>4. CASE \E p \in Pdus, s \in Slots : Arrive(p, s)
  <2>1. PICK p \in Pdus, s \in Slots : Arrive(p, s)
    BY <1>4
  <2>2. /\ sim[s] = NoPdu /\ sim' = [sim EXCEPT ![s] = p] /\ dirty' = dirty
        /\ misflagged' = IF s \in Flags /\ dirty[s] THEN misflagged \cup {p} ELSE misflagged
    BY <2>1 DEF Arrive
  <2>3. \A t \in Slots : sim'[t] = IF t = s THEN p ELSE sim[t]
    BY <1>1, <2>2 DEF InboxInv, InTypes
  <2> QED
    BY <1>1, <2>2, <2>3 DEF CleanInv, FlagsExact
<1>5. CASE DaemonRestarts
  <2>1. \A s \in Flags : ~dirty'[s]
    BY <1>5, CleanMemory DEF Clean, DaemonRestarts
  <2>2. misflagged' = misflagged
    BY <1>5, <2>1 DEF DaemonRestarts
  <2> QED
    BY <1>1, <2>1, <2>2 DEF CleanInv, FlagsExact
<1>6. CASE UNCHANGED <<sim, dirty, misflagged>>
  BY <1>1, <1>6 DEF CleanInv, FlagsExact
<1>7. CASE \/ GetSmsBlockByCMGL \/ ListFails \/ ReadOne \/ ReadEnds \/ ProcessEnds
           \/ CycleEnds \/ Time \/ UNCHANGED vars
  BY <1>6, <1>7 DEF GetSmsBlockByCMGL, ListFails, ReadOne, ReadEnds, ProcessEnds, CycleEnds,
                    Time, vars, history
<1> QED
  BY <1>2, <1>3, <1>4, <1>5, <1>7 DEF INext

\* Nothing is erased from the SIM before it was processed.
THEOREM ErasedCorrect ==
    ASSUME Clean PROVE ISpec => []ErasedOnlyIfProcessed
<1>1. IInit => CleanInv
  BY CleanInit
<1>2. CleanInv /\ [INext]_vars => CleanInv'
  BY CleanNext
<1>3. CleanInv => ErasedOnlyIfProcessed
  BY DEF CleanInv, FlagsExact, InboxInv, OnlyMisflaggedLost, ErasedOnlyIfProcessed
<1> QED
  BY <1>1, <1>2, <1>3, PTL DEF ISpec

-----------------------------------------------------------------------------

LEMMA LifeInit == IInit => Life!Init
BY DEF IInit, Life!Init, LifeOf

\* The flag of the slot that holds p decides whether p is handled.
LEMMA LifeOnSlot ==
    ASSUME InboxInv, NEW s \in Slots \cap Flags, sim[s] # NoPdu
    PROVE  LifeOf(sim[s]) = IF dirty[s] THEN "handled" ELSE "waiting"
<1>1. sim[s] \in arrived /\ sim[s] \notin erased
  BY DEF InboxInv, SimSound
<1>2. \A t \in Slots \cap Flags : sim[t] = sim[s] => t = s
  BY DEF InboxInv, SimSound
<1> QED
  BY <1>1, <1>2 DEF LifeOf

\* If one entry of the mapped state moves, that is a step of Mailbox.
LEMMA LifeMoves ==
    ASSUME NEW p \in Pdus, NEW from, NEW to, LifeOf(p) = from, LifeOf(p)' = to,
           \A q \in Pdus \ {p} : LifeOf(q)' = LifeOf(q)
    PROVE  Life!Moves(p, from, to)
BY DEF Life!Moves

\* Every step of the incoming cycle is a step of Mailbox or leaves it alone.
LEMMA LifeNext ==
    ASSUME Clean, CleanInv, [INext]_vars
    PROVE  [Life!Next]_([p \in Pdus |-> LifeOf(p)])
<1>1. InboxInv /\ InboxInv'
  BY InboxNext DEF Clean, CleanInv
<1>2. CASE ProcessNext
  <2>1. PICK r \in todo : Process(r)
    BY <1>2 DEF ProcessNext
  <2>2. /\ r.index \in Slots \cap Flags /\ sim[r.index] = r.pdu /\ r.pdu \in Pdus
        /\ UNCHANGED <<sim, arrived, erased>>
    BY <1>1, <1>2 DEF ProcessNext, InboxInv, BlockSound
  <2>3. CASE dirty' = dirty
    BY <2>2, <2>3 DEF LifeOf
  <2>4. CASE ~dirty[r.index] /\ dirty' = [dirty EXCEPT ![r.index] = TRUE]
    <3>1. \A s \in Flags : dirty'[s] = (s = r.index \/ dirty[s])
      BY <1>1, <2>2, <2>4 DEF InboxInv, InTypes
    <3>2. LifeOf(r.pdu) = "waiting"
      BY <1>1, <2>2, <2>4, LifeOnSlot
    <3>3. LifeOf(r.pdu)' = "handled"
      <4>1. r.pdu \in arrived /\ r.pdu \notin erased
        BY <1>1, <2>2 DEF InboxInv, SimSound
      <4> QED
        BY <4>1, <2>2, <3>1 DEF LifeOf
    <3>4. \A q \in Pdus \ {r.pdu} : LifeOf(q)' = LifeOf(q)
      BY <2>2, <3>1 DEF LifeOf
    <3> QED
      BY <2>2, <3>2, <3>3, <3>4, LifeMoves DEF Life!Next, Life!Handle
  <2> QED
    BY <2>1, <2>3, <2>4 DEF Process
<1>3. CASE DeleteNext
  <2>1. PICK r \in todo : Delete(r)
    BY <1>3 DEF DeleteNext
  <2>2. /\ pc = "delete" /\ arrived' = arrived
        /\ r.index \in Slots \cap Flags /\ sim[r.index] = r.pdu /\ r.pdu \in Pdus
    BY <1>1, <1>3 DEF DeleteNext, InboxInv, BlockSound
  <2>3. CASE UNCHANGED <<sim, dirty, erased>>
    BY <2>2, <2>3 DEF LifeOf
  <2>4. CASE /\ dirty[r.index]
             /\ sim' = [sim EXCEPT ![r.index] = NoPdu]
             /\ erased' = erased \cup {r.pdu}
             /\ dirty' = [dirty EXCEPT ![r.index] = FALSE]
    <3>1. /\ \A s \in Slots : s # r.index => sim'[s] = sim[s]
          /\ sim'[r.index] = NoPdu
      BY <1>1, <2>2, <2>4 DEF InboxInv, InTypes
    <3>2. \A s \in Flags : s # r.index => dirty'[s] = dirty[s]
      BY <1>1, <2>4 DEF InboxInv, InTypes
    <3>3. LifeOf(r.pdu) = "handled"
      BY <1>1, <2>2, <2>4, LifeOnSlot
    <3>4. LifeOf(r.pdu)' = "freed"
      BY <2>4 DEF LifeOf
    <3>5. \A q \in Pdus \ {r.pdu} : LifeOf(q)' = LifeOf(q)
      BY <2>2, <2>4, <3>1, <3>2 DEF LifeOf
    <3> QED
      BY <2>2, <3>3, <3>4, <3>5, LifeMoves DEF Life!Next, Life!Free
  <2> QED
    BY <1>1, <2>1, <2>2, <2>3, <2>4, DeleteCases DEF Clean
<1>4. CASE \E p \in Pdus, s \in Slots : Arrive(p, s)
  <2>1. PICK p \in Pdus, s \in Slots : Arrive(p, s)
    BY <1>4
  <2>2. /\ p \notin arrived /\ sim[s] = NoPdu
        /\ sim' = [sim EXCEPT ![s] = p] /\ arrived' = arrived \cup {p}
        /\ UNCHANGED <<dirty, erased>>
    BY <2>1 DEF Arrive
  <2>3. \A t \in Slots : sim'[t] = IF t = s THEN p ELSE sim[t]
    BY <1>1, <2>2 DEF InboxInv, InTypes
  <2>4. p \notin erased /\ \A t \in Slots : sim[t] # p
    BY <1>1, <2>2 DEF InboxInv, InTypes, SimSound
  <2>5. s \in Flags => ~dirty[s]
    BY <2>2 DEF CleanInv, FlagsExact
  <2>6. LifeOf(p) = "absent" /\ LifeOf(p)' = "waiting"
    BY <2>2, <2>3, <2>4, <2>5 DEF LifeOf
  <2>7. \A q \in Pdus \ {p} : LifeOf(q)' = LifeOf(q)
    BY <2>2, <2>3, <2>5 DEF LifeOf
  <2> QED
    BY <2>6, <2>7, LifeMoves DEF Life!Next, Life!Store
<1>5. CASE DaemonRestarts
  <2>1. \A s \in Flags : ~dirty'[s]
    BY <1>5, CleanMemory DEF Clean, DaemonRestarts
  <2>2. UNCHANGED <<sim, arrived, erased>>
    BY <1>5 DEF DaemonRestarts
  <2>3. \A p \in Pdus : LifeOf(p)' = IF LifeOf(p) = "handled" THEN "waiting" ELSE LifeOf(p)
    BY <2>1, <2>2 DEF LifeOf
  <2>4. Life!Forget
    BY <2>3 DEF Life!Forget
  <2> QED
    BY <2>4 DEF Life!Next
<1>6. CASE UNCHANGED <<sim, dirty, arrived, erased>>
  BY <1>6 DEF LifeOf
<1>7. CASE \/ GetSmsBlockByCMGL \/ ListFails \/ ReadOne \/ ReadEnds \/ ProcessEnds
           \/ CycleEnds \/ Time \/ UNCHANGED vars
  BY <1>6, <1>7 DEF GetSmsBlockByCMGL, ListFails, ReadOne, ReadEnds, ProcessEnds, CycleEnds,
                    Time, vars, history
<1> QED
  BY <1>2, <1>3, <1>4, <1>5, <1>7 DEF INext

\* The incoming cycle implements Mailbox: every message is handled once per run
\* and freed only after it was handled.
THEOREM MailboxImplemented ==
    ASSUME Clean PROVE ISpec => ImplementsMailbox
<1>1. IInit => CleanInv /\ Life!Init
  BY CleanInit, LifeInit
<1>2. CleanInv /\ [INext]_vars => CleanInv'
  BY CleanNext
<1>3. CleanInv /\ [INext]_vars => [Life!Next]_([p \in Pdus |-> LifeOf(p)])
  BY LifeNext
<1> QED
  BY <1>1, <1>2, <1>3, PTL DEF ISpec, ImplementsMailbox, Life!Spec
=============================================================================
