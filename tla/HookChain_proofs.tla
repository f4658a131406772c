--------------------------- MODULE HookChain_proofs --------------------------
(* Proofs about HookChain, for every set of messages, requests and hooks,   *)
(* and any number of restarts, and about the dispatcher of one of the hooks *)
(* (CommandTable), for any modules, access levels and senders.              *)
EXTENDS HookChain, CommandTable, Integers, FiniteSetTheorems, SequenceTheorems,
        WellFoundedInduction, TLAPS

-----------------------------------------------------------------------------
(* The inductive invariant.                                                *)

HTypes ==
    /\ sim \subseteq Messages /\ arrived \subseteq Messages /\ flagged \subseteq Messages
    /\ cur \in Messages \cup {NoMsg}
    /\ running \in Nat
    /\ executed \in [Messages -> Seq(Nat)] /\ unrun \in [Messages -> SUBSET Nat]

FileTypes ==
    /\ IsFiniteSet(DOMAIN files)
    /\ \A n \in DOMAIN files : files[n] \in [of : Messages, whole : BOOLEAN]

Callbacks == {"write", "hook", "wait"}

\* A message in the loop's hands is on the SIM, and nobody erases it there.
OnSim ==
    /\ todo \subseteq sim /\ sim \subseteq arrived
    /\ pc \in Callbacks \cup {"process"} => block \subseteq sim
    /\ pc \in {"list", "jobs", "down"} => todo = {}
    /\ pc \in Callbacks => cur \in sim \ flagged

\* Of the first n hooks, h is what ran, once each and in order, and u what could not.
FirstHooks(n, h, u) ==
    /\ \A i, j \in DOMAIN h : i < j => h[i] < h[j]
    /\ {h[i] : i \in DOMAIN h} = (1..n) \ u
    /\ u \subseteq 1..n

HookedUpTo(n, m) == FirstHooks(n, executed[m], unrun[m])

\* Which hooks have been run for the message at hand, and for those that may be, or
\* have been, erased.
HooksTried ==
    /\ \A m \in Gone \cup flagged : m \in misflagged \/ HookedUpTo(Len(Hooks), m)
    /\ pc = "hook" => running \in 1..(Len(Hooks) + 1) /\ HookedUpTo(running - 1, cur)
    /\ pc = "wait" => running \in 1..Len(Hooks) /\ HookedUpTo(running, cur)

\* A connection of before that is still there behind the pause outlived it.
OldLinkIsKnown == step \in {"gprs", "address"} /\ ppp0 = "old" => outlived

\* A file at rest is whole, or its writing is known to have failed.
AtRestWhole ==
    \A n \in DOMAIN files : files[n].whole \/ (pc = "write" /\ n = path) \/ n \in spoilt

HInv ==
    HTypes /\ FileTypes /\ OnSim /\ HooksTried /\ OldLinkIsKnown /\ VpnOverALink /\ AtRestWhole

-----------------------------------------------------------------------------
(* The number of a file's name.                                            *)

\* A finite set does not have all numbers up to its size.
LEMMA NotAllTaken ==
    ASSUME NEW D, IsFiniteSet(D), NEW stamp
    PROVE  \E i \in 0..Cardinality(D) : <<stamp, i>> \notin D
<1> SUFFICES ASSUME \A i \in 0..Cardinality(D) : <<stamp, i>> \in D PROVE FALSE
  OBVIOUS
<1> DEFINE n == Cardinality(D)
           T == 0..n
           f == [i \in T |-> <<stamp, i>>]
<1>1. n \in Nat
  BY FS_CardinalityType
<1>2. IsFiniteSet(T) /\ Cardinality(T) = n + 1
  BY <1>1, FS_Interval
<1>3. Cardinality(D) < Cardinality(T)
  BY <1>1, <1>2
<1>4. f \in [T -> D]
  OBVIOUS
<1>5. \A x, y \in T : f[x] = f[y] => x = y
  OBVIOUS
<1> HIDE DEF f, T
<1> QED
  BY <1>2, <1>3, <1>4, <1>5, FS_PigeonHole

\* MakeUniqueOutputXmlPath finds a name that no file has.
LEMMA FreeNumberIsFree ==
    ASSUME IsFiniteSet(DOMAIN files), NEW stamp
    PROVE  /\ FreeNumber(stamp) \in Nat
           /\ <<stamp, FreeNumber(stamp)>> \notin DOMAIN files
<1> DEFINE n == Cardinality(DOMAIN files)
           free == {i \in 0..n : <<stamp, i>> \notin DOMAIN files}
<1>1. n \in Nat
  BY FS_CardinalityType
<1>2. free # {}
  BY NotAllTaken
<1>3. \E i \in free : \A j \in free : i <= j
  <2>1. free \in SUBSET Nat
    BY <1>1
  <2> HIDE DEF free
  <2>2. \E i \in free : \A j \in free : <<j, i>> \notin OpToRel(<, Nat)
    BY <1>2, <2>1, NatLessThanWellFounded, WFMin
  <2>3. \A i, j \in free : <<j, i>> \notin OpToRel(<, Nat) => i <= j
    BY <2>1 DEF OpToRel
  <2> QED
    BY <2>2, <2>3
<1>4. PICK i \in free : \A j \in free : i <= j
  BY <1>3
<1>5. /\ i \in 0..n
      /\ <<stamp, i>> \notin DOMAIN files
      /\ \A j \in 0..(i - 1) : <<stamp, j>> \in DOMAIN files
  BY <1>1, <1>4
<1> QED
  BY <1>1, <1>5 DEF FreeNumber

-----------------------------------------------------------------------------
(* Types.                                                                  *)

LEMMA OpenFileTypes ==
    ASSUME FileTypes, NEW m \in Messages, OpenFile(m)
    PROVE  /\ IsFiniteSet(DOMAIN files')
           /\ \A n \in DOMAIN files' : files'[n] \in [of : Messages, whole : BOOLEAN]
           /\ path' \notin DOMAIN files
           /\ DOMAIN files' = DOMAIN files \cup {path'}
           /\ \A n \in DOMAIN files : files'[n] = files[n]
<1>1. PICK stamp \in Stamps :
        /\ path' = <<stamp, FreeNumber(stamp)>>
        /\ files' = [n \in DOMAIN files \cup {path'} |->
                        IF n = path' THEN [of |-> m, whole |-> FALSE] ELSE files[n]]
  BY DEF OpenFile
<1>2. path' \notin DOMAIN files
  BY <1>1, FreeNumberIsFree DEF FileTypes
<1>3. DOMAIN files' = DOMAIN files \cup {path'}
  BY <1>1
<1>4. \A n \in DOMAIN files : files'[n] = files[n]
  BY <1>1, <1>2
<1>5. files'[path'] = [of |-> m, whole |-> FALSE]
  BY <1>1
<1>6. IsFiniteSet(DOMAIN files')
  <2>1. IsFiniteSet(DOMAIN files)
    BY DEF FileTypes
  <2> DEFINE D == DOMAIN files
             E == DOMAIN files'
  <2>2. IsFiniteSet(D) /\ E = D \cup {path'}
    BY <1>3, <2>1
  <2>3. IsFiniteSet(E)
    <3> HIDE DEF D, E
    <3> QED
      BY <2>2, FS_AddElement
  <2> QED
    BY <2>3
<1>7. \A n \in DOMAIN files' : files'[n] \in [of : Messages, whole : BOOLEAN]
  <2>1. \A n \in DOMAIN files : files[n] \in [of : Messages, whole : BOOLEAN]
    BY DEF FileTypes
  <2>2. \A n \in DOMAIN files : files'[n] \in [of : Messages, whole : BOOLEAN]
    BY <1>4, <2>1
  <2>3. files'[path'] \in [of : Messages, whole : BOOLEAN]
    BY <1>5
  <2> QED
    BY <1>3, <2>2, <2>3
<1> QED
  BY <1>2, <1>3, <1>4, <1>6, <1>7

LEMMA WriteFileTypes ==
    ASSUME FileTypes, WriteFile
    PROVE  /\ DOMAIN files' = DOMAIN files
           /\ \A n \in DOMAIN files' : files'[n] \in [of : Messages, whole : BOOLEAN]
           /\ \A n \in DOMAIN files : files[n].whole => files'[n] = files[n]
           /\ \A n \in DOMAIN files : n = path => files'[n].whole \/ n \in spoilt'
<1>1. \A n \in DOMAIN files : files[n] \in [of : Messages, whole : BOOLEAN]
  BY DEF FileTypes
<1>2. CASE files' = [n \in DOMAIN files |->
                        IF n = path THEN [files[n] EXCEPT !.whole = TRUE] ELSE files[n]]
  BY <1>1, <1>2
<1>3. CASE files' = files /\ spoilt' = spoilt \cup ({path} \cap DOMAIN files)
  BY <1>1, <1>3
<1> QED
  BY <1>2, <1>3 DEF WriteFile

LEMMA TakeTypes ==
    ASSUME FileTypes, NEW name, Take(name)
    PROVE  /\ DOMAIN files' = DOMAIN files \ {name}
           /\ \A n \in DOMAIN files' : files'[n] = files[n]
           /\ IsFiniteSet(DOMAIN files')
<1>1. /\ DOMAIN files' = DOMAIN files \ {name}
      /\ \A n \in DOMAIN files' : files'[n] = files[n]
  BY DEF Take, Restrict
<1>2. IsFiniteSet(DOMAIN files')
  <2>1. IsFiniteSet(DOMAIN files)
    BY DEF FileTypes
  <2> DEFINE D == DOMAIN files
             E == DOMAIN files'
  <2>2. IsFiniteSet(D) /\ E = D \ {name}
    BY <1>1, <2>1
  <2>3. IsFiniteSet(E)
    <3> HIDE DEF D, E
    <3> QED
      BY <2>2, FS_RemoveElement
  <2> QED
    BY <2>3
<1> QED
  BY <1>1, <1>2

LEMMA StopFiles ==
    ASSUME FileTypes, Crash \/ Reboot
    PROVE  /\ DOMAIN files' \subseteq DOMAIN files
           /\ \A n \in DOMAIN files' : files'[n] = files[n]
           /\ IsFiniteSet(DOMAIN files')
<1>1. files' = files \/ files' = <<>>
  BY DEF Crash, Reboot
<1>2. CASE files' = <<>>
  <2>1. DOMAIN files' = {}
    BY <1>2
  <2> QED
    BY <2>1, FS_EmptySet
<1> QED
  BY <1>1, <1>2 DEF FileTypes

\* Nothing else touches the output directory.
LEMMA FilesUntouched ==
    ASSUME [HNext]_hvars
    PROVE  \/ \E m \in Messages : OpenFile(m)
           \/ WriteFile
           \/ \E name \in DOMAIN files : Take(name)
           \/ Crash \/ Reboot
           \/ UNCHANGED <<files, spoilt>> /\ path' = path /\ (pc = "write" <=> pc' = "write")
<1> USE DEF disk, loop, hooked, history, hvars
<1>1. CASE \E m \in Messages : Skip(m) \/ Erase(m) \/ SendReply(m) \/ Arrive(m)
  BY <1>1 DEF Skip, Erase, SendReply, Arrive
<1>2. CASE StartHook \/ ExecFails \/ ForkFails \/ WaitEnds \/ HooksEnd
  BY <1>2 DEF NextHook, StartHook, ExecFails, ForkFails, WaitEnds, HooksEnd
<1>3. CASE Start \/ List \/ ProcessEnds \/ EraseEnds \/ CycleEnds
  BY <1>3 DEF Start, List, ProcessEnds, EraseEnds, CycleEnds
<1>4. CASE CommandStep \/ LinkChanges \/ UNCHANGED hvars
  BY <1>4 DEF CommandStep, Poff, Pause, PonGprs, WaitForGprsConnection, PonVpn, StartReboot,
              ReplyReboot, Then, LinkChanges
<1> QED
  BY <1>1, <1>2, <1>3, <1>4 DEF HNext, DaemonStep

LEMMA FileTypesStep ==
    ASSUME FileTypes, [HNext]_hvars
    PROVE  FileTypes'
<1>1. CASE \E m \in Messages : OpenFile(m)
  BY <1>1, OpenFileTypes DEF FileTypes
<1>2. CASE WriteFile
  <2>1. IsFiniteSet(DOMAIN files)
    BY DEF FileTypes
  <2> QED
    BY <1>2, <2>1, WriteFileTypes DEF FileTypes
<1>3. CASE \E name \in DOMAIN files : Take(name)
  <2>1. \A n \in DOMAIN files : files[n] \in [of : Messages, whole : BOOLEAN]
    BY DEF FileTypes
  <2> QED
    BY <1>3, <2>1, TakeTypes DEF FileTypes
<1>4. CASE Crash \/ Reboot
  <2>1. \A n \in DOMAIN files : files[n] \in [of : Messages, whole : BOOLEAN]
    BY DEF FileTypes
  <2> QED
    BY <1>4, <2>1, StopFiles DEF FileTypes
<1>5. CASE UNCHANGED files
  BY <1>5 DEF FileTypes
<1> QED
  BY <1>1, <1>2, <1>3, <1>4, <1>5, FilesUntouched

LEMMA HTypesStep ==
    ASSUME HTypes, OnSim, [HNext]_hvars
    PROVE  HTypes'
<1> USE DEF disk, loop, hooked, history, hvars
<1>1. CASE \E m \in Messages : OpenFile(m) \/ Skip(m) \/ SendReply(m) \/ Arrive(m)
  BY <1>1 DEF HTypes, OpenFile, Skip, SendReply, Arrive
<1>2. CASE \E m \in Messages : Erase(m)
  <2>1. PICK m \in Messages, left \in SUBSET Messages :
            /\ sim' = sim \ {m} /\ flagged' = (flagged \ {m}) \cup left
            /\ UNCHANGED <<arrived, cur, running, executed, unrun>>
    BY <1>2 DEF Erase
  <2> QED
    BY <2>1 DEF HTypes
<1>3. CASE WriteFile
  <2>1. <<>> \in Seq(Nat)
    OBVIOUS
  <2> QED
    BY <1>3, <2>1 DEF HTypes, WriteFile
<1>4. CASE StartHook
  <2>1. \A m \in Messages : Append(executed[m], running) \in Seq(Nat)
    BY DEF HTypes
  <2>2. executed' = [executed EXCEPT ![cur] = Append(executed[cur], running)]
    BY <1>4 DEF StartHook
  <2>3. executed' \in [Messages -> Seq(Nat)]
    BY <2>1, <2>2 DEF HTypes
  <2>4. UNCHANGED <<sim, arrived, flagged, cur, running, unrun>>
    BY <1>4 DEF StartHook
  <2> QED
    BY <2>3, <2>4 DEF HTypes
<1>5. CASE ExecFails \/ ForkFails
  <2>1. /\ unrun' = [unrun EXCEPT ![cur] = unrun[cur] \cup {running}]
        /\ running' \in {running, running + 1}
        /\ UNCHANGED <<sim, arrived, flagged, cur, executed>>
    BY <1>5 DEF ExecFails, ForkFails, NoteUnrun
  <2>2. unrun' \in [Messages -> SUBSET Nat]
    BY <2>1 DEF HTypes
  <2> QED
    BY <2>1, <2>2 DEF HTypes
<1>6. CASE \E name \in DOMAIN files : Take(name)
  BY <1>6 DEF HTypes, Take
<1>7. CASE Crash \/ Reboot
  <2>1. /\ flagged' = {} /\ cur' = NoMsg /\ running' = 0
        /\ executed' = [m \in Messages |-> IF m \in Gone THEN executed[m] ELSE <<>>]
        /\ unrun' = [m \in Messages |-> IF m \in Gone THEN unrun[m] ELSE {}]
        /\ UNCHANGED <<sim, arrived>>
    BY <1>7 DEF Crash, Reboot, Stop
  <2>2. <<>> \in Seq(Nat)
    OBVIOUS
  <2>3. executed' \in [Messages -> Seq(Nat)] /\ unrun' \in [Messages -> SUBSET Nat]
    BY <2>1, <2>2 DEF HTypes
  <2> QED
    BY <2>1, <2>3 DEF HTypes
<1>8. CASE HooksEnd
  BY <1>8 DEF HTypes, HooksEnd, OnSim, Callbacks
<1>9. CASE Start
  BY <1>9 DEF HTypes, Start
<1>10. CASE WaitEnds \/ List \/ ProcessEnds \/ EraseEnds \/ CycleEnds
  <2>1. /\ UNCHANGED <<sim, arrived, executed, unrun, flagged, cur>>
        /\ running' \in {running, running + 1}
    BY <1>10 DEF WaitEnds, List, ProcessEnds, EraseEnds, CycleEnds
  <2> QED
    BY <2>1 DEF HTypes
<1>11. CASE CommandStep \/ LinkChanges \/ UNCHANGED hvars
  <2>1. UNCHANGED <<sim, arrived, executed, unrun, flagged, cur, running>>
    BY <1>11 DEF CommandStep, Poff, Pause, PonGprs, WaitForGprsConnection, PonVpn, StartReboot,
                 ReplyReboot, Then, LinkChanges
  <2> QED
    BY <2>1 DEF HTypes
<1> QED
  BY <1>1, <1>2, <1>3, <1>4, <1>5, <1>6, <1>7, <1>8, <1>9, <1>10, <1>11 DEF HNext, DaemonStep

-----------------------------------------------------------------------------
(* The messages in the loop's hands.                                       *)

LEMMA OnSimStep ==
    ASSUME HTypes, OnSim, [HNext]_hvars
    PROVE  OnSim'
<1> USE DEF OnSim, Callbacks, disk, loop, hooked, history, hvars
<1>1. CASE \E m \in Messages : OpenFile(m)
  BY <1>1 DEF OpenFile
<1>2. CASE \E m \in Messages : Skip(m) \/ SendReply(m)
  BY <1>2 DEF Skip, SendReply
<1>3. CASE \E m \in Messages : Erase(m)
  BY <1>3 DEF Erase
<1>4. CASE \E m \in Messages : Arrive(m)
  BY <1>4 DEF Arrive
<1>5. CASE WriteFile \/ StartHook \/ ExecFails \/ ForkFails \/ WaitEnds
  <2>1. /\ pc \in Callbacks /\ pc' \in Callbacks
        /\ UNCHANGED <<sim, arrived, flagged, block, todo, cur>>
    BY <1>5 DEF WriteFile, NextHook, StartHook, ExecFails, ForkFails, WaitEnds
  <2> QED
    BY <2>1
<1>6. CASE HooksEnd
  BY <1>6 DEF HooksEnd
<1>7. CASE List \/ ProcessEnds \/ EraseEnds \/ CycleEnds \/ Start
  BY <1>7 DEF List, ProcessEnds, EraseEnds, CycleEnds, Start
<1>8. CASE Crash \/ Reboot
  BY <1>8 DEF Crash, Reboot, Stop
<1>9. CASE \E name \in DOMAIN files : Take(name)
  BY <1>9 DEF Take
<1>10. CASE CommandStep \/ LinkChanges \/ UNCHANGED hvars
  <2>1. UNCHANGED <<sim, arrived, loop>>
    BY <1>10 DEF CommandStep, Poff, Pause, PonGprs, WaitForGprsConnection, PonVpn, StartReboot,
                 ReplyReboot, Then, LinkChanges
  <2> QED
    BY <2>1
<1> QED
  BY <1>1, <1>2, <1>3, <1>4, <1>5, <1>6, <1>7, <1>8, <1>9, <1>10 DEF HNext, DaemonStep

-----------------------------------------------------------------------------
(* The hooks.                                                              *)

\* One hook more, which runs or does not.
LEMMA OneHookMore ==
    ASSUME NEW n \in Nat, NEW h \in Seq(Nat), NEW u, FirstHooks(n, h, u)
    PROVE  /\ FirstHooks(n + 1, Append(h, n + 1), u)
           /\ FirstHooks(n + 1, h, u \cup {n + 1})
<1> DEFINE k == Len(h)
           a == Append(h, n + 1)
<1>1. /\ k \in Nat /\ DOMAIN h = 1..k /\ DOMAIN a = 1..(k + 1)
      /\ \A i \in 1..k : a[i] = h[i]
      /\ a[k + 1] = n + 1
  OBVIOUS
<1>2. /\ \A i, j \in DOMAIN h : i < j => h[i] < h[j]
      /\ {h[i] : i \in DOMAIN h} = (1..n) \ u
      /\ u \subseteq 1..n
  BY DEF FirstHooks
<1>3. \A i \in 1..k : h[i] \in 1..n
  BY <1>1, <1>2
<1>4. 1..(n + 1) = (1..n) \cup {n + 1} /\ n + 1 \notin 1..n /\ n + 1 \notin u
  BY <1>2
<1> HIDE DEF k, a
<1>5. FirstHooks(n + 1, a, u)
  <2>1. ASSUME NEW i \in DOMAIN a, NEW j \in DOMAIN a, i < j
        PROVE  a[i] < a[j]
    <3>1. i \in 1..k
      BY <1>1, <2>1
    <3>2. CASE j \in 1..k
      BY <1>1, <1>2, <2>1, <3>1, <3>2
    <3>3. CASE j = k + 1
      BY <1>1, <1>3, <3>1, <3>3
    <3> QED
      BY <1>1, <3>2, <3>3
  <2>2. 1..(k + 1) = (1..k) \cup {k + 1}
    BY <1>1
  <2>3. {a[i] : i \in DOMAIN a} = {h[i] : i \in DOMAIN h} \cup {n + 1}
    BY <1>1, <2>2
  <2>4. ((1..n) \ u) \cup {n + 1} = (1..(n + 1)) \ u
    BY <1>4
  <2>5. u \subseteq 1..(n + 1)
    BY <1>2, <1>4
  <2> QED
    BY <1>2, <2>1, <2>3, <2>4, <2>5 DEF FirstHooks
<1>6. FirstHooks(n + 1, h, u \cup {n + 1})
  <2>1. (1..(n + 1)) \ (u \cup {n + 1}) = (1..n) \ u
    BY <1>4
  <2>2. u \cup {n + 1} \subseteq 1..(n + 1)
    BY <1>2, <1>4
  <2> QED
    BY <1>2, <2>1, <2>2 DEF FirstHooks
<1> QED
  BY <1>5, <1>6 DEF a

\* Before the first hook.
LEMMA NoHookYet == FirstHooks(0, <<>>, {})
<1>1. DOMAIN <<>> = {} /\ 1..0 = {}
  OBVIOUS
<1> QED
  BY <1>1 DEF FirstHooks

\* The hook at hand is run, or cannot be.
LEMMA TryNext ==
    ASSUME HTypes, OnSim, HooksTried, StartHook \/ ExecFails \/ ForkFails
    PROVE  /\ running \in 1..Len(Hooks)
           /\ FirstHooks(running, executed'[cur], unrun'[cur])
           /\ \A m \in Messages \ {cur} : executed'[m] = executed[m] /\ unrun'[m] = unrun[m]
<1>1. Len(Hooks) \in Nat
  BY HookAssumption
<1>2. pc = "hook" /\ running <= Len(Hooks)
  BY DEF StartHook, ExecFails, ForkFails, NextHook
<1>3. running \in 1..Len(Hooks) /\ FirstHooks(running - 1, executed[cur], unrun[cur])
  BY <1>1, <1>2 DEF HooksTried, HookedUpTo
<1>4. cur \in Messages /\ executed \in [Messages -> Seq(Nat)] /\ unrun \in [Messages -> SUBSET Nat]
  BY <1>2 DEF OnSim, Callbacks, HTypes
<1>5. running - 1 \in Nat /\ (running - 1) + 1 = running /\ executed[cur] \in Seq(Nat)
  BY <1>1, <1>3, <1>4
<1> DEFINE n == running - 1
<1>6. n \in Nat /\ n + 1 = running /\ FirstHooks(n, executed[cur], unrun[cur])
  BY <1>3, <1>5
<1> HIDE DEF n
<1>7. /\ FirstHooks(n + 1, Append(executed[cur], n + 1), unrun[cur])
      /\ FirstHooks(n + 1, executed[cur], unrun[cur] \cup {n + 1})
  BY <1>5, <1>6, OneHookMore
<1>8. /\ FirstHooks(running, Append(executed[cur], running), unrun[cur])
      /\ FirstHooks(running, executed[cur], unrun[cur] \cup {running})
  BY <1>6, <1>7
<1>9. CASE StartHook
  <2>1. executed' = [executed EXCEPT ![cur] = Append(executed[cur], running)] /\ unrun' = unrun
    BY <1>9 DEF StartHook
  <2> QED
    BY <1>3, <1>4, <1>8, <2>1
<1>10. CASE ExecFails \/ ForkFails
  <2>1. unrun' = [unrun EXCEPT ![cur] = unrun[cur] \cup {running}] /\ executed' = executed
    BY <1>10 DEF ExecFails, ForkFails, NoteUnrun
  <2> QED
    BY <1>3, <1>4, <1>8, <2>1
<1> QED
  BY <1>9, <1>10

LEMMA HooksTriedStep ==
    ASSUME HTypes, OnSim, HooksTried, [HNext]_hvars
    PROVE  HooksTried'
<1> USE DEF disk, loop, hooked, history, hvars, Gone, HookedUpTo
<1>1. Len(Hooks) \in Nat
  BY HookAssumption
<1>2. CASE WriteFile
  <2>1. cur \in sim \ flagged /\ cur \in Messages /\ sim \subseteq Messages
    BY <1>2 DEF WriteFile, OnSim, Callbacks, HTypes
  <2>2. /\ executed' = [executed EXCEPT ![cur] = <<>>] /\ unrun' = [unrun EXCEPT ![cur] = {}]
        /\ running' = 1 /\ pc' = "hook"
        /\ UNCHANGED <<sim, arrived, flagged, cur, misflagged>>
    BY <1>2 DEF WriteFile
  <2>3. /\ executed'[cur] = <<>> /\ unrun'[cur] = {}
        /\ \A m \in Messages \ {cur} : executed'[m] = executed[m] /\ unrun'[m] = unrun[m]
    BY <2>1, <2>2 DEF HTypes
  <2>4. \A m \in (arrived \ sim) \cup flagged : m \in Messages \ {cur}
    BY <2>1 DEF HTypes
  <2>5. FirstHooks(running' - 1, executed'[cur'], unrun'[cur'])
    BY <2>2, <2>3, NoHookYet
  <2> QED
    BY <1>1, <2>2, <2>3, <2>4, <2>5 DEF HooksTried
<1>3. CASE StartHook \/ ExecFails \/ ForkFails
  <2>1. /\ pc = "hook" /\ running <= Len(Hooks)
        /\ UNCHANGED <<sim, arrived, flagged, cur, misflagged>>
        /\ \/ pc' = "wait" /\ running' = running
           \/ pc' = "hook" /\ running' = running + 1
    BY <1>3 DEF StartHook, ExecFails, ForkFails, NextHook
  <2>2. /\ running \in 1..Len(Hooks)
        /\ FirstHooks(running, executed'[cur], unrun'[cur])
        /\ \A m \in Messages \ {cur} : executed'[m] = executed[m] /\ unrun'[m] = unrun[m]
    BY <1>3, TryNext
  <2>3. \A m \in (arrived \ sim) \cup flagged : m \in Messages \ {cur}
    BY <2>1 DEF HTypes, OnSim, Callbacks
  <2>4. \A m \in (arrived' \ sim') \cup flagged' :
            m \in misflagged' \/ FirstHooks(Len(Hooks), executed'[m], unrun'[m])
    BY <2>1, <2>2, <2>3 DEF HooksTried
  <2>5. pc' = "hook" => running' - 1 = running
    BY <1>1, <2>1, <2>2
  <2>6. FirstHooks(running, executed'[cur'], unrun'[cur'])
    BY <2>1, <2>2
  <2>7. pc' = "hook" => running' \in 1..(Len(Hooks) + 1)
    BY <1>1, <2>1, <2>2
  <2> QED
    BY <2>1, <2>2, <2>4, <2>5, <2>6, <2>7 DEF HooksTried
<1>4. CASE WaitEnds
  <2>1. /\ pc = "wait" /\ pc' = "hook" /\ running' = running + 1
        /\ UNCHANGED <<sim, arrived, flagged, cur, misflagged, executed, unrun>>
    BY <1>4 DEF WaitEnds
  <2>2. running \in 1..Len(Hooks) /\ FirstHooks(running, executed[cur], unrun[cur])
    BY <2>1 DEF HooksTried
  <2>3. running' \in 1..(Len(Hooks) + 1) /\ running' - 1 = running
    BY <1>1, <2>1, <2>2
  <2> QED
    BY <2>1, <2>2, <2>3 DEF HooksTried
<1>5. CASE HooksEnd
  <2>1. /\ pc = "hook" /\ running > Len(Hooks) /\ pc' = "process"
        /\ flagged' = flagged \cup {cur} /\ UNCHANGED <<sim, arrived, misflagged, executed, unrun>>
    BY <1>5 DEF HooksEnd
  <2>2. running - 1 = Len(Hooks)
    BY <1>1, <2>1 DEF HooksTried
  <2>3. FirstHooks(Len(Hooks), executed[cur], unrun[cur])
    BY <2>1, <2>2 DEF HooksTried
  <2> QED
    BY <2>1, <2>3 DEF HooksTried
<1>6. CASE \E m \in Messages : Erase(m)
  <2>1. PICK m \in Messages, left \in SUBSET Messages :
            /\ m \in flagged /\ pc' = "erase" /\ sim' = sim \ {m}
            /\ flagged' = (flagged \ {m}) \cup left /\ misflagged' = misflagged \cup left
            /\ UNCHANGED <<arrived, executed, unrun>>
    BY <1>6 DEF Erase
  <2> QED
    BY <2>1 DEF HooksTried
<1>7. CASE \E m \in Messages : Arrive(m)
  BY <1>7 DEF Arrive, HooksTried
<1>8. CASE Crash \/ Reboot
  <2>1. /\ flagged' = {} /\ pc' = "down"
        /\ executed' = [m \in Messages |-> IF m \in Gone THEN executed[m] ELSE <<>>]
        /\ unrun' = [m \in Messages |-> IF m \in Gone THEN unrun[m] ELSE {}]
        /\ misflagged' = misflagged \cap Gone
        /\ UNCHANGED <<sim, arrived>>
    BY <1>8 DEF Crash, Reboot, Stop
  <2>2. \A m \in Gone : m \in Messages
    BY DEF HTypes
  <2>3. \A m \in Gone : executed'[m] = executed[m] /\ unrun'[m] = unrun[m]
    BY <2>1, <2>2
  <2> QED
    BY <2>1, <2>3 DEF HooksTried
<1>9. CASE Start
  <2>1. /\ pc' = "list" /\ misflagged' = misflagged \cup flagged'
        /\ UNCHANGED <<sim, arrived, executed, unrun>>
    BY <1>9 DEF Start
  <2> QED
    BY <2>1 DEF HooksTried
<1>10. CASE \E m \in Messages : OpenFile(m) \/ Skip(m) \/ SendReply(m)
  BY <1>10 DEF OpenFile, Skip, SendReply, HooksTried
<1>11. CASE List \/ ProcessEnds \/ EraseEnds \/ CycleEnds
  BY <1>11 DEF List, ProcessEnds, EraseEnds, CycleEnds, HooksTried
<1>12. CASE CommandStep \/ LinkChanges \/ UNCHANGED hvars \/ \E name \in DOMAIN files : Take(name)
  <2>1. UNCHANGED <<sim, arrived, flagged, pc, cur, running, misflagged, executed, unrun>>
    BY <1>12 DEF CommandStep, Poff, Pause, PonGprs, WaitForGprsConnection, PonVpn, StartReboot,
                 ReplyReboot, Then, LinkChanges, Take
  <2> QED
    BY <2>1 DEF HooksTried
<1> QED
  BY <1>2, <1>3, <1>4, <1>5, <1>6, <1>7, <1>8, <1>9, <1>10, <1>11, <1>12 DEF HNext, DaemonStep

-----------------------------------------------------------------------------
(* The link.                                                               *)

LEMMA LinkStep ==
    ASSUME OldLinkIsKnown, VpnOverALink, [HNext]_hvars
    PROVE  OldLinkIsKnown' /\ VpnOverALink'
<1> USE DEF OldLinkIsKnown, VpnOverALink, disk, loop, hooked, history, hvars
<1>1. CASE Poff
  BY <1>1 DEF Poff, Then
<1>2. CASE Pause
  BY <1>2 DEF Pause, Then
<1>3. CASE PonGprs
  BY <1>3 DEF PonGprs, Command, Then
<1>4. CASE WaitForGprsConnection
  BY <1>4 DEF WaitForGprsConnection, Command, Then
<1>5. CASE PonVpn \/ StartReboot \/ ReplyReboot
  BY <1>5 DEF PonVpn, StartReboot, ReplyReboot, Then
<1>6. CASE LinkChanges
  BY <1>6 DEF LinkChanges
<1>7. CASE StartHook \/ ExecFails
  <2>1. step' \in {"", "poff", "reboot", "exit"}
    BY <1>7 DEF StartHook, ExecFails, FirstStep
  <2> QED
    BY <2>1
<1>8. CASE WaitEnds \/ Crash \/ Reboot
  BY <1>8 DEF WaitEnds, Crash, Reboot, Stop
<1>9. CASE \/ UNCHANGED hvars \/ WriteFile \/ ForkFails \/ HooksEnd \/ Start
           \/ List \/ ProcessEnds \/ EraseEnds \/ CycleEnds
           \/ \E m \in Messages : OpenFile(m) \/ Skip(m) \/ Erase(m) \/ SendReply(m) \/ Arrive(m)
           \/ \E name \in DOMAIN files : Take(name)
  <2>1. UNCHANGED <<step, ppp0, tested, outlived>>
    BY <1>9 DEF WriteFile, ForkFails, HooksEnd, Start, List, ProcessEnds, EraseEnds, CycleEnds,
                OpenFile, Skip, Erase, SendReply, Arrive, Take
  <2> QED
    BY <2>1
<1> QED
  BY <1>1, <1>2, <1>3, <1>4, <1>5, <1>6, <1>7, <1>8, <1>9 DEF HNext, DaemonStep, CommandStep

-----------------------------------------------------------------------------
(* The files.                                                              *)

LEMMA AtRestWholeStep ==
    ASSUME FileTypes, AtRestWhole, [HNext]_hvars
    PROVE  AtRestWhole'
<1> USE DEF AtRestWhole
<1>1. CASE \E m \in Messages : OpenFile(m)
  <2>1. /\ pc = "process" /\ pc' = "write" /\ spoilt' = spoilt
        /\ DOMAIN files' = DOMAIN files \cup {path'}
        /\ \A n \in DOMAIN files : files'[n] = files[n]
    BY <1>1, OpenFileTypes DEF OpenFile, history
  <2> QED
    BY <2>1
<1>2. CASE WriteFile
  <2>1. spoilt \subseteq spoilt'
    BY <1>2 DEF WriteFile
  <2> QED
    BY <1>2, <2>1, WriteFileTypes
<1>3. CASE \E name \in DOMAIN files : Take(name)
  <2>1. PICK name \in DOMAIN files : Take(name)
    BY <1>3
  <2>2. /\ spoilt' = spoilt \ {name} /\ UNCHANGED <<pc, path>>
    BY <2>1 DEF Take, loop
  <2> QED
    BY <2>1, <2>2, TakeTypes
<1>4. CASE Crash \/ Reboot
  <2>1. spoilt' = (spoilt \cup {path}) \cap DOMAIN files'
    BY <1>4 DEF Crash, Reboot, Stop
  <2> QED
    BY <1>4, <2>1, StopFiles
<1>5. CASE UNCHANGED <<files, spoilt>> /\ path' = path /\ (pc = "write" <=> pc' = "write")
  BY <1>5
<1> QED
  BY <1>1, <1>2, <1>3, <1>4, <1>5, FilesUntouched

\* What one step does to the files that are complete.
LEMMA WholeIsKept ==
    ASSUME FileTypes, [HNext]_hvars
    PROVE  \A n \in DOMAIN files \cap DOMAIN files' : files[n].whole => files'[n] = files[n]
<1>1. CASE \E m \in Messages : OpenFile(m)
  BY <1>1, OpenFileTypes
<1>2. CASE WriteFile
  BY <1>2, WriteFileTypes
<1>3. CASE \E name \in DOMAIN files : Take(name)
  BY <1>3, TakeTypes
<1>4. CASE Crash \/ Reboot
  BY <1>4, StopFiles
<1>5. CASE UNCHANGED files
  BY <1>5
<1> QED
  BY <1>1, <1>2, <1>3, <1>4, <1>5, FilesUntouched

-----------------------------------------------------------------------------
(* Theorems.                                                               *)

LEMMA HInitInv == HInit => HInv
<1> SUFFICES ASSUME HInit PROVE HInv
  OBVIOUS
<1>1. executed \in [Messages -> Seq(Nat)] /\ unrun \in [Messages -> SUBSET Nat]
  <2>1. <<>> \in Seq(Nat)
    OBVIOUS
  <2> QED
    BY <2>1 DEF HInit
<1>2. DOMAIN files = {}
  <2>1. files = <<>>
    BY DEF HInit
  <2> QED
    BY <2>1
<1>3. FileTypes
  BY <1>2, FS_EmptySet DEF FileTypes
<1>4. HTypes
  BY <1>1 DEF HTypes, HInit
<1>5. OnSim /\ HooksTried /\ OldLinkIsKnown /\ VpnOverALink
  BY DEF HInit, Gone, OnSim, Callbacks, HooksTried, OldLinkIsKnown, VpnOverALink
<1>6. AtRestWhole
  BY <1>2 DEF AtRestWhole
<1> QED
  BY <1>3, <1>4, <1>5, <1>6 DEF HInv

LEMMA HNextInv == HInv /\ [HNext]_hvars => HInv'
  BY HTypesStep, FileTypesStep, OnSimStep, HooksTriedStep, LinkStep, AtRestWholeStep DEF HInv

\* The inductive invariant holds whatever the network, the hooks, a reader of the
\* output directory and restarts do.
THEOREM ChainInvariance == HSpec => []HInv
<1> QED
  BY HInitInv, HNextInv, PTL DEF HSpec

\* For every message that has left the SIM each hook was run, once and in order, for any
\* number of hooks and restarts, but for a hook whose own fork or execvp failed and a
\* message whose location was flagged, but not for it (RunSmsHooks, DelSmsBlock).
THEOREM AllHooksRun == HSpec => []EveryHookRuns
<1>1. HInv => EveryHookRuns
  BY DEF HInv, HooksTried, HookedUpTo, FirstHooks, EveryHookRuns, AllButFailed
<1> QED
  BY <1>1, ChainInvariance, PTL

\* pon auto starts the vpn over its own connection or over one that outlived the
\* pause, never without one (cmd_pon_auto).
THEOREM VpnHasALink == HSpec => []VpnOverALink
<1>1. HInv => VpnOverALink
  BY DEF HInv
<1> QED
  BY <1>1, ChainInvariance, PTL

\* A complete file is never written again, and a file at rest is complete unless its
\* writing failed or was interrupted (MakeUniqueOutputXmlPath, writeToFile).
THEOREM FilesStay == HSpec => FilesAreKept
<1>1. HInv /\ HInv' /\ [HNext]_hvars =>
        [/\ \A n \in DOMAIN files \cap DOMAIN files' : files[n].whole => files'[n] = files[n]
         /\ \A n \in DOMAIN files' : files'[n].whole \/ n = path' \/ n \in spoilt']_hvars
  BY WholeIsKept DEF HInv, AtRestWhole
<1> QED
  BY <1>1, ChainInvariance, PTL DEF HSpec, FilesAreKept

-----------------------------------------------------------------------------
(* CommandTable: what sms-cmd.sh has registered.                           *)

\* What has been registered is what the last module to do so asked for, and its
\* handler is a function.
Registered ==
    /\ DOMAIN command_levels = DOMAIN command_handlers
    /\ \A word \in DOMAIN command_handlers :
        \E i \in DOMAIN modules :
            /\ LastToRegister(i, word)
            /\ command_handlers[word] = modules[i].handler
            /\ command_levels[word] = modules[i].level
            /\ modules[i].handler \in DOMAIN body

\* A function of the shell is its last definition.
Defined == \A h \in DOMAIN body : body[h] \in DOMAIN modules /\ LastToDefine(body[h], h)

\* Each command is listed once.
Listed ==
    /\ command_order \in Seq(CommandNames)
    /\ {command_order[i] : i \in DOMAIN command_order} = DOMAIN command_handlers
    /\ \A i, j \in DOMAIN command_order : command_order[i] = command_order[j] => i = j

CommandInv ==
    /\ modules \in Seq(CommandModules) /\ sender \in Senders /\ command \in CommandNames \cup {Blank}
    /\ verdict # "exit" => Registered /\ Defined /\ Listed
    /\ verdict \notin {"none", "exit"} => verdict = Verdict(sender, command)
    /\ verdict = "run" => ran = body[command_handlers[command]]

\* One module more: what the modules before it registered and defined is still there.
LEMMA OneModuleMore ==
    ASSUME modules \in Seq(CommandModules), NEW m \in CommandModules,
           modules' = Append(modules, m)
    PROVE  /\ modules' \in Seq(CommandModules)
           /\ DOMAIN modules' = DOMAIN modules \cup {Len(modules) + 1}
           /\ Len(modules) + 1 \notin DOMAIN modules
           /\ \A i \in DOMAIN modules : modules'[i] = modules[i] /\ i \in Nat /\ i <= Len(modules)
           /\ modules'[Len(modules) + 1] = m /\ Len(modules) \in Nat
  OBVIOUS

\* Sourcing a module keeps what is said of the functions.
LEMMA BodiesKept ==
    ASSUME modules \in Seq(CommandModules), Defined, NEW m \in CommandModules,
           modules' = Append(modules, m), body' = Bodies(m)
    PROVE  Defined' /\ DOMAIN body \subseteq DOMAIN body'
<1>0. PICK n \in Nat : n = Len(modules) + 1
  BY OneModuleMore
<1>1. /\ DOMAIN modules' = DOMAIN modules \cup {n} /\ n \notin DOMAIN modules /\ n \in Nat
      /\ \A i \in DOMAIN modules : modules'[i] = modules[i] /\ i \in Nat /\ i <= n
      /\ modules'[n] = m
  BY <1>0, OneModuleMore
<1>2. body' = IF m.defines
              THEN [h \in DOMAIN body \cup {m.handler} |-> IF h = m.handler THEN n ELSE body[h]]
              ELSE body
  BY <1>0 DEF Bodies, Assigned
<1>3. DOMAIN body \subseteq DOMAIN body'
  BY <1>2
<1>4. ASSUME NEW h \in DOMAIN body', m.defines, h = m.handler
      PROVE  body'[h] \in DOMAIN modules' /\ LastToDefine(body[h], h)'
  <2>1. body'[h] = n
    BY <1>2, <1>4
  <2>2. modules'[n].handler = h /\ modules'[n].defines /\ \A j \in DOMAIN modules' : j <= n
    BY <1>1, <1>4
  <2> QED
    BY <1>1, <2>1, <2>2 DEF LastToDefine
<1>5. ASSUME NEW h \in DOMAIN body', ~(m.defines /\ h = m.handler)
      PROVE  body'[h] \in DOMAIN modules' /\ LastToDefine(body[h], h)'
  <2>1. h \in DOMAIN body /\ body'[h] = body[h]
    BY <1>2, <1>5
  <2>2. body[h] \in DOMAIN modules /\ LastToDefine(body[h], h)
    BY <2>1 DEF Defined
  <2>3. ~(modules'[n].handler = h /\ modules'[n].defines)
    BY <1>1, <1>5
  <2> QED
    BY <1>1, <2>1, <2>2, <2>3 DEF LastToDefine
<1> QED
  BY <1>3, <1>4, <1>5 DEF Defined

\* A module that registers its command is the last one to do so.
LEMMA RegistrationKept ==
    ASSUME modules \in Seq(CommandModules), Registered, NEW m \in CommandModules,
           modules' = Append(modules, m), DOMAIN body \subseteq DOMAIN body',
           m.handler \in DOMAIN body', RegisterCommand(m)
    PROVE  Registered'
<1>0. PICK n \in Nat : n = Len(modules) + 1
  BY OneModuleMore
<1>1. /\ DOMAIN modules' = DOMAIN modules \cup {n} /\ n \notin DOMAIN modules /\ n \in Nat
      /\ \A i \in DOMAIN modules : modules'[i] = modules[i] /\ i \in Nat /\ i <= n
      /\ modules'[n] = m
  BY <1>0, OneModuleMore
<1>2. /\ DOMAIN command_handlers' = DOMAIN command_handlers \cup {m.name}
      /\ DOMAIN command_levels' = DOMAIN command_levels \cup {m.name}
      /\ \A w \in DOMAIN command_handlers' :
            command_handlers'[w] = IF w = m.name THEN m.handler ELSE command_handlers[w]
      /\ \A w \in DOMAIN command_levels' :
            command_levels'[w] = IF w = m.name THEN m.level ELSE command_levels[w]
  BY DEF RegisterCommand, NewLevels, Assigned
<1>3. DOMAIN command_levels' = DOMAIN command_handlers'
  BY <1>2 DEF Registered
<1>4. ASSUME NEW w \in DOMAIN command_handlers'
      PROVE  \E i \in DOMAIN modules' :
                /\ LastToRegister(i, w)'
                /\ command_handlers'[w] = modules'[i].handler
                /\ command_levels'[w] = modules'[i].level
                /\ modules'[i].handler \in DOMAIN body'
  <2>1. CASE w = m.name
    <3>1. \A j \in DOMAIN modules' : j <= n
      BY <1>1
    <3>2. LastToRegister(n, w)'
      BY <1>1, <2>1, <3>1 DEF LastToRegister
    <3> QED
      BY <1>1, <1>2, <1>3, <1>4, <2>1, <3>2
  <2>2. CASE w # m.name
    <3>1. w \in DOMAIN command_handlers
      BY <1>2, <1>4, <2>2
    <3>2. PICK i \in DOMAIN modules :
               /\ LastToRegister(i, w)
               /\ command_handlers[w] = modules[i].handler
               /\ command_levels[w] = modules[i].level
               /\ modules[i].handler \in DOMAIN body
      BY <3>1 DEF Registered
    <3>3. LastToRegister(i, w)'
      BY <1>1, <2>2, <3>2 DEF LastToRegister
    <3> QED
      BY <1>1, <1>2, <1>3, <1>4, <2>2, <3>2, <3>3
  <2> QED
    BY <2>1, <2>2
<1> QED
  BY <1>3, <1>4 DEF Registered

\* A command that is registered again keeps its place in the list.
LEMMA ListKept ==
    ASSUME Listed, NEW m \in CommandModules, RegisterCommand(m)
    PROVE  Listed'
<1> DEFINE n == Len(command_order) + 1
<1>1. DOMAIN command_handlers' = DOMAIN command_handlers \cup {m.name} /\ m.name \in CommandNames
  BY DEF RegisterCommand, Assigned, CommandModules
<1>2. CASE m.name \in DOMAIN command_handlers
  <2>1. command_order' = command_order /\ DOMAIN command_handlers' = DOMAIN command_handlers
    BY <1>1, <1>2 DEF RegisterCommand
  <2> QED
    BY <2>1 DEF Listed
<1>3. CASE m.name \notin DOMAIN command_handlers
  <2>1. /\ command_order \in Seq(CommandNames) /\ command_order' = Append(command_order, m.name)
    BY <1>3 DEF RegisterCommand, Listed
  <2>2. /\ command_order' \in Seq(CommandNames) /\ DOMAIN command_order' = DOMAIN command_order \cup {n}
        /\ \A i \in DOMAIN command_order : command_order'[i] = command_order[i]
        /\ command_order'[n] = m.name /\ n \notin DOMAIN command_order
    BY <1>1, <2>1
  <2> HIDE DEF n
  <2>3. \A i \in DOMAIN command_order : command_order[i] \in DOMAIN command_handlers
    BY DEF Listed
  <2>4. {command_order'[i] : i \in DOMAIN command_order'} = DOMAIN command_handlers'
    BY <1>1, <2>2 DEF Listed
  <2>5. \A i, j \in DOMAIN command_order' : command_order'[i] = command_order'[j] => i = j
    BY <1>3, <2>2, <2>3 DEF Listed
  <2> QED
    BY <2>2, <2>4, <2>5 DEF Listed
<1> QED
  BY <1>2, <1>3

\* Before the first module is sourced.
NothingSourced ==
    /\ modules = <<>> /\ body = <<>>
    /\ command_handlers = <<>> /\ command_levels = <<>> /\ command_order = <<>>

\* Nothing is registered then.
LEMMA NothingRegistered ==
    NothingSourced => modules \in Seq(CommandModules) /\ Registered /\ Defined /\ Listed
<1> SUFFICES ASSUME NothingSourced
             PROVE  modules \in Seq(CommandModules) /\ Registered /\ Defined /\ Listed
  OBVIOUS
<1>1. DOMAIN command_handlers = {} /\ DOMAIN command_levels = {} /\ DOMAIN body = {}
      /\ DOMAIN command_order = {} /\ modules \in Seq(CommandModules) /\ command_order \in Seq(CommandNames)
  BY DEF NothingSourced
<1> QED
  BY <1>1 DEF Registered, Defined, Listed

\* The commands that the script has registered, their functions and its list agree with
\* the modules, whatever they define and register.
THEOREM CommandInvariance == TSpec => []CommandInv
<1>1. TInit => CommandInv
  BY NothingRegistered DEF TInit, CommandInv, NothingSourced
<1>2. CommandInv /\ [TNext]_commandVars => CommandInv'
  <2> SUFFICES ASSUME CommandInv, [TNext]_commandVars PROVE CommandInv'
    OBVIOUS
  <2>1. ASSUME NEW m \in CommandModules, Source(m)
        PROVE  CommandInv'
    <3>1. /\ verdict = "none" /\ modules' = Append(modules, m) /\ body' = Bodies(m)
          /\ sender' = sender /\ command' = command
      BY <2>1 DEF Source
    <3>2. modules \in Seq(CommandModules) /\ Registered /\ Defined /\ Listed
      BY <3>1 DEF CommandInv
    <3>3. modules' \in Seq(CommandModules)
      BY <3>1, <3>2, OneModuleMore
    <3>4. CASE m.valid /\ m.handler \in DOMAIN body'
      <4>1. RegisterCommand(m)
        BY <2>1, <3>4 DEF Source
      <4>2. Defined' /\ DOMAIN body \subseteq DOMAIN body'
        BY <3>1, <3>2, BodiesKept
      <4>3. Registered'
        BY <3>1, <3>2, <3>4, <4>1, <4>2, RegistrationKept
      <4>4. Listed'
        BY <3>2, <4>1, ListKept
      <4>5. verdict' = "none"
        BY <3>1, <4>1 DEF RegisterCommand
      <4> QED
        BY <3>1, <3>3, <4>2, <4>3, <4>4, <4>5 DEF CommandInv
    <3>5. CASE ~(m.valid /\ m.handler \in DOMAIN body')
      <4>1. verdict' = "exit"
        BY <2>1, <3>5 DEF Source, Finish
      <4> QED
        BY <3>1, <3>3, <4>1 DEF CommandInv
    <3> QED
      BY <3>4, <3>5
  <2>2. CASE Dispatch
    <3>1. /\ verdict = "none" /\ verdict' = Verdict(sender, command)
          /\ UNCHANGED <<modules, body, command_handlers, command_levels, command_order,
                         sender, command>>
          /\ verdict' = "run" => ran' = body[command_handlers[command]]
      BY <2>2 DEF Dispatch, tableVars
    <3>2. Registered' /\ Defined' /\ Listed'
      BY <3>1 DEF CommandInv, Registered, Defined, Listed, LastToRegister, LastToDefine
    <3>3. Verdict(sender, command)' = Verdict(sender, command)
      BY <3>1 DEF Verdict
    <3> QED
      BY <3>1, <3>2, <3>3 DEF CommandInv
  <2>3. CASE NextRequest
    <3>1. Registered' /\ Defined' /\ Listed' /\ modules' \in Seq(CommandModules)
      <4>1. NothingSourced'
        BY <2>3 DEF NextRequest, NothingSourced
      <4>2. NothingSourced' => (modules \in Seq(CommandModules) /\ Registered /\ Defined /\ Listed)'
        BY NothingRegistered, PTL
      <4> QED
        BY <4>1, <4>2
    <3> QED
      BY <2>3, <3>1 DEF NextRequest, CommandInv
  <2>4. CASE UNCHANGED commandVars
    BY <2>4 DEF commandVars, CommandInv, Registered, Defined, Listed, LastToRegister,
                LastToDefine, Verdict
  <2> QED
    BY <2>1, <2>2, <2>3, <2>4 DEF TNext
<1> QED
  BY <1>1, <1>2, PTL DEF TSpec

\* CommandsAreGuarded, for any modules, names, handlers, levels and access list: sms-cmd.sh
\* runs a handler for those whom its registration admits only, and "help" names them.
THEOREM CommandsGuarded == TSpec => []CommandsAreGuarded
<1>1. CommandInv => OnlyTheAdmittedRun
  <2> SUFFICES ASSUME CommandInv PROVE OnlyTheAdmittedRun
    OBVIOUS
  <2>1. ASSUME sender \in BadSenders \/ sender \notin DOMAIN UserAccess
        PROVE  verdict \notin Replied \cup {"run"}
    BY <2>1 DEF CommandInv, Verdict, Replied
  <2>2. ASSUME verdict = "run"
        PROVE  /\ UserAccess[sender] > 0
               /\ ran \in DOMAIN modules
               /\ \E i \in DOMAIN modules :
                    /\ LastToRegister(i, command) /\ UserAccess[sender] >= modules[i].level
                    /\ LastToDefine(ran, modules[i].handler)
    <3>1. Verdict(sender, command) = "run" /\ ran = body[command_handlers[command]]
          /\ Registered /\ Defined /\ modules \in Seq(CommandModules)
      BY <2>2 DEF CommandInv
    <3>2. /\ sender \in DOMAIN UserAccess /\ ~(UserAccess[sender] <= 0)
          /\ command \in DOMAIN command_handlers
          /\ ~(UserAccess[sender] < command_levels[command])
      BY <3>1 DEF Verdict
    <3>3. UserAccess[sender] \in Int
      BY <3>2, CommandAssumption
    <3>4. PICK i \in DOMAIN modules :
               /\ LastToRegister(i, command)
               /\ command_handlers[command] = modules[i].handler
               /\ command_levels[command] = modules[i].level
               /\ modules[i].handler \in DOMAIN body
      BY <3>1, <3>2 DEF Registered
    <3>5. modules[i].level \in Nat
      <4>1. modules[i] \in CommandModules
        BY <3>1
      <4> QED
        BY <4>1, CommandAssumption DEF CommandModules
    <3>6. ran \in DOMAIN modules /\ LastToDefine(ran, modules[i].handler)
      BY <3>1, <3>4 DEF Defined
    <3> QED
      BY <3>2, <3>3, <3>4, <3>5, <3>6
  <2> QED
    BY <2>1, <2>2 DEF OnlyTheAdmittedRun
<1>2. CommandInv => HelpIsExact
  <2> SUFFICES ASSUME CommandInv, verdict = "none",
                      NEW number \in DOMAIN UserAccess \ BadSenders, UserAccess[number] > 0
               PROVE  /\ {command_order[i] : i \in Help(number)}
                           = {word \in CommandNames : Verdict(number, word) = "run"}
                      /\ \A i, j \in Help(number) : command_order[i] = command_order[j] => i = j
    BY DEF HelpIsExact
  <2>1. Registered /\ Listed /\ modules \in Seq(CommandModules)
    BY DEF CommandInv
  <2>2. \A i, j \in Help(number) : command_order[i] = command_order[j] => i = j
    BY <2>1 DEF Help, Listed
  <2>3. DOMAIN command_handlers \subseteq CommandNames
    BY <2>1 DEF Listed
  <2>4. ASSUME NEW word \in CommandNames
        PROVE  Verdict(number, word) = "run"
                 <=> word \in DOMAIN command_handlers /\ UserAccess[number] >= command_levels[word]
    <3>1. UserAccess[number] \in Int /\ word # Blank
      BY CommandAssumption
    <3>2. ASSUME word \in DOMAIN command_handlers
          PROVE  command_levels[word] \in Nat /\ modules # <<>>
      <4>1. PICK i \in DOMAIN modules : command_levels[word] = modules[i].level
        BY <2>1, <3>2 DEF Registered
      <4>2. modules[i].level \in Nat
        <5>1. modules[i] \in CommandModules
          BY <2>1
        <5> QED
          BY <5>1, CommandAssumption DEF CommandModules
      <4> QED
        BY <4>1, <4>2, <2>1
    <3>3. ~(UserAccess[number] <= 0) /\ number \notin BadSenders /\ number \in DOMAIN UserAccess
      BY <3>1
    <3> QED
      BY <3>1, <3>2, <3>3 DEF Verdict
  <2>5. {command_order[i] : i \in Help(number)}
          = {word \in DOMAIN command_handlers : UserAccess[number] >= command_levels[word]}
    BY <2>1 DEF Help, Listed
  <2> QED
    BY <2>2, <2>3, <2>4, <2>5
<1> QED
  BY <1>1, <1>2, CommandInvariance, PTL DEF CommandsAreGuarded
=============================================================================
