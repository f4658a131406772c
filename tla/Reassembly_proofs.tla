-------------------------- MODULE Reassembly_proofs --------------------------
(* Proofs about Reassembly, for every set of PDUs and keys, every total and *)
(* every timeout; and that the books of ReassemblyLedger balance, for every *)
(* number of repetitions.                                                   *)
EXTENDS ReassemblyLedger, FiniteSetTheorems, WellFoundedInduction, TLAPS

USE PduAssumption, BoundAssumption, NoPduAssumption

\* What the cached entry of key k satisfies, and its weaker form between addPart
\* and the test for completion.
Sound(k, e) ==
    /\ e \in Entries
    /\ e.received = Cardinality(HeldIn(e.parts))
    /\ InPlace(k, e.parts)

-----------------------------------------------------------------------------

\* The filled positions of an entry are finitely many numbers of 1..total, and
\* they are all of them when they are as many.
LEMMA HeldFinite ==
    ASSUME NEW n \in 2..MaxTotal, NEW parts \in [1..n -> Pdus \cup {NoPdu}]
    PROVE  /\ IsFiniteSet(HeldIn(parts))
           /\ Cardinality(HeldIn(parts)) \in Nat
           /\ Cardinality(HeldIn(parts)) <= n
           /\ Cardinality(HeldIn(parts)) = n => HeldIn(parts) = 1..n
<1>1. HeldIn(parts) \in SUBSET (1..n)
  BY DEF HeldIn
<1>2. n \in Nat /\ n >= 2
  OBVIOUS
<1>3. IsFiniteSet(1..n) /\ Cardinality(1..n) = n
  BY <1>2, FS_Interval
<1> QED
  BY <1>1, <1>2, <1>3, FS_Subset, FS_CardinalityType

\* An entry as SmsCacheEntry's constructor makes it is sound.
LEMMA NewEntrySound ==
    ASSUME NEW k \in Keys, NEW n \in 2..MaxTotal
    PROVE  /\ Sound(k, NewEntry(n))
           /\ NewEntry(n).received < NewEntry(n).total
<1> DEFINE e == NewEntry(n)
<1>1. HeldIn(e.parts) = {}
  BY DEF HeldIn, NewEntry
<1>2. e \in EntriesOf(n)
  BY DEF NewEntry, EntriesOf, Stale
<1>3. e \in Entries
  BY <1>2 DEF Entries
<1>4. Cardinality(HeldIn(e.parts)) = 0
  BY <1>1, FS_EmptySet
<1>5. e.received = 0 /\ e.total = n
  BY DEF NewEntry
<1>6. InPlace(k, e.parts)
  BY <1>1 DEF InPlace
<1> QED
  BY <1>3, <1>4, <1>5, <1>6 DEF Sound

\* addPart keeps an entry sound: it counts exactly the positions it fills, and
\* stores the part where the part's header says.
LEMMA AddPartSound ==
    ASSUME NEW p \in Pdus, NEW e, Sound(KeyOf[p], e), e.received < e.total
    PROVE  /\ Sound(KeyOf[p], AddPart(e, p))
           /\ AddPart(e, p).total = e.total
           /\ AddPart(e, p).received <= e.total
<1> DEFINE i == NumberOf[p]
           f == AddPart(e, p)
<1>1. PICK n \in 2..MaxTotal : e \in EntriesOf(n)
  BY DEF Sound, Entries
<1>2. /\ e.total = n
      /\ e.parts \in [1..n -> Pdus \cup {NoPdu}]
      /\ e.received \in Nat
      /\ e.age \in 0..Stale
      /\ n \in Nat
  BY <1>1 DEF EntriesOf
<1>3. 0 \in 0..Stale
  BY DEF Stale
<1>4. CASE i \notin 1..n
  <2>1. f = e
    BY <1>2, <1>4 DEF AddPart
  <2> QED
    BY <2>1, <1>2
<1>5. CASE i \in 1..n /\ e.parts[i] = NoPdu
  <2>1. f = [e EXCEPT !.parts[i] = p, !.received = @ + 1, !.age = 0]
    BY <1>2, <1>5 DEF AddPart
  <2>2. /\ f.parts = [e.parts EXCEPT ![i] = p]
        /\ f.received = e.received + 1
        /\ f.total = n
    BY <2>1, <1>1, <1>2 DEF EntriesOf
  <2>3. f \in EntriesOf(n)
    <3>1. f = [total |-> n, parts |-> f.parts, received |-> e.received + 1, age |-> 0]
      BY <2>1, <1>1, <1>2 DEF EntriesOf
    <3>2. f.parts \in [1..n -> Pdus \cup {NoPdu}]
      BY <2>2, <1>2
    <3>3. e.received + 1 \in 0..n
      BY <1>2
    <3> QED
      BY <3>1, <3>2, <3>3, <1>3 DEF EntriesOf
  <2>4. f \in Entries
    BY <2>3 DEF Entries
  <2>5. HeldIn(f.parts) = HeldIn(e.parts) \cup {i}
    BY <2>2, <1>2, <1>5 DEF HeldIn
  <2>6. i \notin HeldIn(e.parts)
    BY <1>5 DEF HeldIn
  <2>7. Cardinality(HeldIn(f.parts)) = Cardinality(HeldIn(e.parts)) + 1
    BY <2>5, <2>6, <1>2, HeldFinite, FS_AddElement
  <2>8. f.received = Cardinality(HeldIn(f.parts))
    BY <2>2, <2>7 DEF Sound
  <2>9. InPlace(KeyOf[p], f.parts)
    <3>1. InPlace(KeyOf[p], e.parts)
      BY DEF Sound
    <3>2. f.parts[i] = p /\ \A j \in HeldIn(e.parts) : f.parts[j] = e.parts[j]
      BY <2>2, <2>6, <1>2, <1>5 DEF HeldIn
    <3> QED
      BY <3>1, <3>2, <2>5 DEF InPlace
  <2> QED
    BY <2>2, <2>4, <2>8, <2>9, <1>2 DEF Sound
<1>6. CASE i \in 1..n /\ e.parts[i] # NoPdu
  <2>1. f = [e EXCEPT !.parts[i] = p]
    BY <1>2, <1>6 DEF AddPart
  <2>2. f.parts = [e.parts EXCEPT ![i] = p] /\ f.received = e.received /\ f.total = n
    BY <2>1, <1>1, <1>2 DEF EntriesOf
  <2>3. f \in EntriesOf(n)
    <3>1. f = [total |-> n, parts |-> f.parts, received |-> e.received, age |-> e.age]
      BY <2>1, <1>1, <1>2 DEF EntriesOf
    <3>2. f.parts \in [1..n -> Pdus \cup {NoPdu}]
      BY <2>2, <1>2
    <3>3. e.received \in 0..n
      BY <1>1 DEF EntriesOf
    <3> QED
      BY <3>1, <3>2, <3>3, <1>2 DEF EntriesOf
  <2>4. f \in Entries
    BY <2>3 DEF Entries
  <2>5. HeldIn(f.parts) = HeldIn(e.parts)
    BY <2>2, <1>2, <1>6 DEF HeldIn
  <2>6. InPlace(KeyOf[p], f.parts)
    BY <2>2, <2>5, <1>2, <1>6 DEF InPlace, Sound
  <2> QED
    BY <2>2, <2>4, <2>5, <2>6, <1>2 DEF Sound
<1> QED
  BY <1>4, <1>5, <1>6

\* A sound entry whose count has reached its total holds parts 1..total, each in
\* its place.
LEMMA CompleteEntry ==
    ASSUME NEW k \in Keys, NEW e, Sound(k, e), e.received = e.total
    PROVE  \A i \in DOMAIN e.parts :
              e.parts[i] \in Pdus /\ NumberOf[e.parts[i]] = i /\ KeyOf[e.parts[i]] = k
<1>1. PICK n \in 2..MaxTotal : e \in EntriesOf(n)
  BY DEF Sound, Entries
<1>2. e.total = n /\ e.parts \in [1..n -> Pdus \cup {NoPdu}]
  BY <1>1 DEF EntriesOf
<1>3. HeldIn(e.parts) = 1..n
  BY <1>2, HeldFinite DEF Sound
<1> QED
  BY <1>2, <1>3 DEF Sound, InPlace

\* What ReceivedSMS::init makes of the parts of a sound entry or of a single PDU.
LEMMA MessageType ==
    ASSUME NEW k \in Keys, NEW D \in SUBSET Nat, NEW parts \in [D -> Pdus \cup {NoPdu}]
    PROVE  LET m == Message(k, parts)
           IN  /\ m.key = k /\ m.parts = parts
               /\ m.ok \in BOOLEAN
               /\ m.ok <=> HeldIn(parts) = DOMAIN parts
               /\ m.from \in Keys \cup {NoKey}
<1> DEFINE H == HeldIn(parts)
           first == CHOOSE i \in H : \A j \in H : i <= j
<1>1. CASE H = {}
  BY <1>1 DEF Message
<1>2. CASE H # {}
  <2>1. H \subseteq D
    BY DEF HeldIn
  <2>2. \E i \in H : \A j \in H : i <= j
    <3>1. H \subseteq Nat
      BY <2>1
    <3>2. \E i \in H : \A j \in H : <<j, i>> \notin OpToRel(<, Nat)
      BY <3>1, <1>2, NatLessThanWellFounded, WFMin
    <3>3. \A i, j \in H : <<j, i>> \notin OpToRel(<, Nat) => i <= j
      BY <3>1 DEF OpToRel
    <3> QED
      BY <3>2, <3>3
  <2>3. first \in H
    BY <2>2
  <2>4. parts[first] \in Pdus
    BY <2>3, <2>1 DEF HeldIn
  <2> QED
    BY <2>4, <1>2 DEF Message
<1> QED
  BY <1>1, <1>2

\* A well-typed message that, if it is complete and has several parts, is whole.
WholeMessage(m) ==
    /\ m.key \in Keys /\ m.from \in Keys \cup {NoKey} /\ m.ok \in BOOLEAN
    /\ m.ok /\ Cardinality(DOMAIN m.parts) > 1 =>
          \A i \in DOMAIN m.parts :
            /\ m.parts[i] \in Pdus
            /\ NumberOf[m.parts[i]] = i
            /\ KeyOf[m.parts[i]] = m.key

\* The message made of a sound entry, complete or not.
LEMMA MessageOfEntry ==
    ASSUME NEW k \in Keys, NEW e, Sound(k, e)
    PROVE  WholeMessage(Message(k, e.parts))
<1>1. PICK n \in 2..MaxTotal : e \in EntriesOf(n)
  BY DEF Sound, Entries
<1>2. PICK D \in SUBSET Nat : e.parts \in [D -> Pdus \cup {NoPdu}]
  <2>1. 1..n \in SUBSET Nat /\ e.parts \in [1..n -> Pdus \cup {NoPdu}]
    BY <1>1 DEF EntriesOf
  <2> QED
    BY <2>1
<1> DEFINE m == Message(k, e.parts)
<1>3. /\ m.key = k /\ m.parts = e.parts /\ m.ok \in BOOLEAN
      /\ m.ok <=> HeldIn(e.parts) = DOMAIN e.parts
      /\ m.from \in Keys \cup {NoKey}
  BY <1>2, MessageType
<1>4. m.ok => \A i \in DOMAIN e.parts :
          e.parts[i] \in Pdus /\ NumberOf[e.parts[i]] = i /\ KeyOf[e.parts[i]] = k
  BY <1>3 DEF Sound, InPlace
<1> HIDE DEF m
<1> QED
  BY <1>3, <1>4 DEF WholeMessage, m

-----------------------------------------------------------------------------

\* The cache part of the inductive invariant, entry by entry.
CacheSound ==
    /\ cache \in [Keys -> Entries \cup {NoEntry}]
    /\ \A k \in Keys : cache[k] # NoEntry =>
          Sound(k, cache[k]) /\ cache[k].received < cache[k].total

\* The messages part.
OutSound == \A m \in out : WholeMessage(m)

LEMMA IInvParts == IInv <=> CacheSound /\ OutSound
BY DEF IInv, TypeOK, CountIsExact, NoneComplete, CacheInPlace, CompleteIsWhole,
       CacheSound, OutSound, Sound, WholeMessage

\* The entry a multipart PDU is added to is sound and not complete.
LEMMA EntryForSound ==
    ASSUME CacheSound, NEW p \in Pdus, TotalOf[p] > 1
    PROVE  /\ Sound(KeyOf[p], EntryFor(p))
           /\ EntryFor(p).received < EntryFor(p).total
<1>1. KeyOf[p] \in Keys /\ TotalOf[p] \in 2..MaxTotal
  OBVIOUS
<1>2. CASE cache[KeyOf[p]] = NoEntry
  BY <1>1, <1>2, NewEntrySound DEF EntryFor
<1>3. CASE cache[KeyOf[p]] # NoEntry
  BY <1>1, <1>3 DEF EntryFor, CacheSound
<1> QED
  BY <1>2, <1>3

-----------------------------------------------------------------------------

LEMMA InitSound == Init => IInv
<1> SUFFICES ASSUME Init PROVE CacheSound /\ OutSound
  BY IInvParts
<1> QED
  BY DEF Init, CacheSound, OutSound

\* processPDU, single message.
LEMMA ProcessSingleSound ==
    ASSUME IInv, NEW p \in Pdus, ProcessSingle(p)
    PROVE  IInv'
<1> DEFINE parts == [i \in {1} |-> p]
<1>1. CacheSound'
  BY IInvParts DEF ProcessSingle, CacheSound, Sound
<1>2. OutSound'
  <2>1. {1} \in SUBSET Nat /\ parts \in [{1} -> Pdus \cup {NoPdu}]
    OBVIOUS
  <2>2. KeyOf[p] \in Keys
    OBVIOUS
  <2>3. LET m == Message(KeyOf[p], parts)
        IN  m.key \in Keys /\ m.from \in Keys \cup {NoKey} /\ m.ok \in BOOLEAN /\ m.parts = parts
    BY <2>1, <2>2, MessageType
  <2>4. Cardinality(DOMAIN parts) = 1
    BY FS_Singleton
  <2> QED
    BY <2>3, <2>4 DEF OutSound, ProcessSingle, WholeMessage
<1> QED
  BY <1>1, <1>2, IInvParts, PTL

\* processPDU, part of a longer message.
LEMMA ProcessPartSound ==
    ASSUME IInv, NEW p \in Pdus, ProcessPart(p)
    PROVE  IInv'
<1> DEFINE k == KeyOf[p]
           e == AddPart(EntryFor(p), p)
<1>1. CacheSound /\ k \in Keys /\ TotalOf[p] > 1
  BY IInvParts DEF ProcessPart
<1>2. Sound(k, e) /\ e.total = EntryFor(p).total /\ e.received <= e.total
  BY <1>1, EntryForSound, AddPartSound
<1>3. e \in Entries
  BY <1>2 DEF Sound
<1> HIDE DEF e, k
<1>4. CASE e.received = e.total
  <2>1. cache' = [cache EXCEPT ![k] = NoEntry] /\ out' = {Message(k, e.parts)}
    BY <1>4 DEF ProcessPart, e, k
  <2>2. CacheSound'
    BY <1>1, <2>1 DEF CacheSound, Sound
  <2>3. OutSound'
    BY <1>1, <1>2, <2>1, MessageOfEntry DEF OutSound
  <2> QED
    BY <2>2, <2>3, IInvParts, PTL
<1>5. CASE e.received # e.total
  <2>1. cache' = [cache EXCEPT ![k] = e] /\ out' = {}
    BY <1>5 DEF ProcessPart, e, k
  <2>2. e.received < e.total
    <3>1. PICK n \in 2..MaxTotal : e \in EntriesOf(n)
      BY <1>3 DEF Entries
    <3> QED
      BY <1>2, <1>5, <3>1 DEF EntriesOf
  <2>3. CacheSound'
    BY <1>1, <1>2, <1>3, <2>1, <2>2 DEF CacheSound
  <2>4. OutSound'
    BY <2>1 DEF OutSound
  <2> QED
    BY <2>3, <2>4, IInvParts, PTL
<1> QED
  BY <1>4, <1>5

\* clearCache.
LEMMA ClearCacheSound ==
    ASSUME IInv, ClearCache
    PROVE  IInv'
<1>1. CacheSound
  BY IInvParts
<1>2. CacheSound'
  BY <1>1 DEF ClearCache, CacheSound, Sound
<1>3. OutSound'
  <2> SUFFICES ASSUME NEW k \in Expired
               PROVE  WholeMessage(Message(k, cache[k].parts))
    BY DEF ClearCache, OutSound
  <2>1. k \in Keys /\ Sound(k, cache[k])
    BY <1>1 DEF Expired, CacheSound
  <2> QED
    BY <2>1, MessageOfEntry
<1> QED
  BY <1>2, <1>3, IInvParts, PTL

\* The clock changes no count and no part.
LEMMA TimePassesSound ==
    ASSUME IInv, NEW d \in 1..Stale, TimePasses(d)
    PROVE  IInv'
<1>1. CacheSound /\ OutSound
  BY IInvParts
<1>2. CacheSound'
  <2> DEFINE older(k) == [cache[k] EXCEPT !.age = IF @ + d > Stale THEN Stale ELSE @ + d]
  <2>1. ASSUME NEW k \in Keys, cache[k] # NoEntry
        PROVE  Sound(k, older(k)) /\ older(k).received < older(k).total
    <3>1. Sound(k, cache[k]) /\ cache[k].received < cache[k].total
      BY <1>1, <2>1 DEF CacheSound
    <3>2. PICK n \in 2..MaxTotal : cache[k] \in EntriesOf(n)
      BY <3>1 DEF Sound, Entries
    <3>3. cache[k].age \in 0..Stale /\ Stale \in Nat
      BY <3>2 DEF EntriesOf, Stale
    <3>4. older(k).age \in 0..Stale
      BY <3>2, <3>3 DEF EntriesOf
    <3>5. /\ older(k).parts = cache[k].parts
          /\ older(k).received = cache[k].received
          /\ older(k).total = cache[k].total
      BY <3>2 DEF EntriesOf
    <3>6. older(k) \in EntriesOf(n)
      BY <3>2, <3>4 DEF EntriesOf
    <3>7. older(k) \in Entries
      BY <3>6 DEF Entries
    <3> QED
      BY <3>1, <3>5, <3>7 DEF Sound
  <2>2. \A k \in Keys : cache'[k] = IF cache[k] = NoEntry THEN NoEntry ELSE older(k)
    BY DEF TimePasses
  <2>3. cache' = [k \in Keys |-> cache'[k]]
    BY DEF TimePasses
  <2>4. \A k \in Keys : cache[k] # NoEntry => older(k) \in Entries
    BY <2>1 DEF Sound
  <2> HIDE DEF older
  <2>5. cache' \in [Keys -> Entries \cup {NoEntry}]
    BY <2>2, <2>3, <2>4
  <2>6. ASSUME NEW k \in Keys, cache'[k] # NoEntry
        PROVE  Sound(k, cache'[k]) /\ cache'[k].received < cache'[k].total
    BY <2>1, <2>2, <2>6
  <2> QED
    BY <2>5, <2>6 DEF CacheSound, Sound
<1>3. OutSound'
  BY DEF TimePasses, OutSound
<1> QED
  BY <1>2, <1>3, IInvParts, PTL

LEMMA RestartSound ==
    ASSUME Restart
    PROVE  IInv'
<1>1. CacheSound' /\ OutSound'
  BY DEF Restart, CacheSound, OutSound
<1> QED
  BY <1>1, IInvParts, PTL

\* Every step of the processor, or a stuttering step, keeps the invariant.
LEMMA NextSound ==
    ASSUME IInv, [Next]_rvars
    PROVE  IInv'
<1>1. CASE \E p \in Pdus : ProcessPDU(p)
  BY <1>1, ProcessSingleSound, ProcessPartSound DEF ProcessPDU
<1>2. CASE ClearCache
  BY <1>2, ClearCacheSound
<1>3. CASE \E d \in 1..Stale : TimePasses(d)
  BY <1>3, TimePassesSound
<1>4. CASE Restart
  BY <1>4, RestartSound
<1>5. CASE UNCHANGED rvars
  BY <1>5 DEF rvars, IInv, TypeOK, CountIsExact, NoneComplete, CacheInPlace, CompleteIsWhole
<1> QED
  BY <1>1, <1>2, <1>3, <1>4, <1>5 DEF Next

\* The inductive invariant holds throughout.
THEOREM Invariance == Spec => []IInv
<1>1. Init => IInv
  BY InitSound
<1>2. IInv /\ [Next]_rvars => IInv'
  BY NextSound
<1> QED
  BY <1>1, <1>2, PTL DEF Spec

\* Type correctness: every cached entry has the shape its constructor gave it.
THEOREM TypeCorrect == Spec => []TypeOK
<1>1. IInv => TypeOK
  BY DEF IInv
<1> QED
  BY <1>1, Invariance, PTL

\* nPartsReceived is exact for every mix of duplicates, foreign totals and
\* invalid part numbers.
THEOREM CountCorrect == Spec => []CountIsExact
<1>1. IInv => CountIsExact
  BY DEF IInv
<1> QED
  BY <1>1, Invariance, PTL

\* A multipart message delivered as complete has every part 1..n, in order and
\* of one sender and reference.
THEOREM CompleteCorrect == Spec => []CompleteIsWhole
<1>1. IInv => CompleteIsWhole
  BY DEF IInv
<1> QED
  BY <1>1, Invariance, PTL

\* A message is given up incomplete only when no new part came for Timeout.
THEOREM GivenUpCorrect == Spec => GivenUpOnlyWhenStale
<1> DEFINE Step == \A k \in Keys, m \in out' :
                      m.key = k /\ ~m.ok => cache[k] = NoEntry \/ cache[k].age > Timeout
<1>1. ASSUME IInv, NEW p \in Pdus, ProcessSingle(p)
      PROVE  \A m \in out' : m.ok
  <2> DEFINE parts == [i \in {1} |-> p]
  <2>1. HeldIn(parts) = DOMAIN parts
    BY DEF HeldIn
  <2>2. Message(KeyOf[p], parts).ok
    BY <2>1 DEF Message
  <2> QED
    BY <1>1, <2>2 DEF ProcessSingle
<1>2. ASSUME IInv, NEW p \in Pdus, ProcessPart(p)
      PROVE  \A m \in out' : m.ok
  <2> DEFINE k == KeyOf[p]
             e == AddPart(EntryFor(p), p)
  <2>1. CacheSound /\ k \in Keys /\ TotalOf[p] > 1
    BY <1>2, IInvParts DEF ProcessPart
  <2>2. Sound(k, e)
    BY <2>1, EntryForSound, AddPartSound
  <2>3. CASE e.received = e.total
    <3>1. \A i \in DOMAIN e.parts : e.parts[i] \in Pdus
      BY <2>1, <2>2, <2>3, CompleteEntry
    <3>2. HeldIn(e.parts) = DOMAIN e.parts
      BY <3>1 DEF HeldIn
    <3>3. Message(k, e.parts).ok
      BY <3>2 DEF Message
    <3>4. out' = {Message(k, e.parts)}
      BY <1>2, <2>3 DEF ProcessPart
    <3> QED
      BY <3>3, <3>4
  <2>4. CASE e.received # e.total
    BY <1>2, <2>4 DEF ProcessPart
  <2> QED
    BY <2>3, <2>4
<1>3. ASSUME ClearCache
      PROVE  Step
  <2> SUFFICES ASSUME NEW k \in Expired
               PROVE  cache[k].age > Timeout /\ \A parts : Message(k, parts).key = k
    BY <1>3 DEF ClearCache
  <2> QED
    BY DEF Expired, Message
<1>4. IInv /\ [Next]_rvars => [Step]_rvars
  <2> SUFFICES ASSUME IInv, Next, rvars' # rvars PROVE Step
    OBVIOUS
  <2>1. CASE \E p \in Pdus : ProcessPDU(p)
    BY <2>1, <1>1, <1>2 DEF ProcessPDU
  <2>2. CASE ClearCache
    BY <2>2, <1>3
  <2>3. CASE \E d \in 1..Stale : TimePasses(d)
    BY <2>3 DEF TimePasses
  <2>4. CASE Restart
    BY <2>4 DEF Restart
  <2> QED
    BY <2>1, <2>2, <2>3, <2>4 DEF Next
<1> QED
  BY <1>4, Invariance, PTL DEF Spec, GivenUpOnlyWhenStale

-----------------------------------------------------------------------------
(* The books.                                                              *)

\* The history variables hold natural numbers.
LTypeOK ==
    /\ fed \in [Pdus -> Nat]
    /\ given \in [Pdus -> Nat]
    /\ excused \in [Pdus -> Nat]

LIInv == IInv /\ LTypeOK /\ BooksBalance

\* q is at its own place among the parts of an entry.
At(parts, q) == NumberOf[q] \in DOMAIN parts /\ parts[NumberOf[q]] = q

-----------------------------------------------------------------------------

\* The deliveries that hold q are one message or none.
LEMMA OneDelivery ==
    ASSUME NEW q, NEW m, out' = {m}
    PROVE  Cardinality(Deliveries(q)) = One(\E i \in DOMAIN m.parts : m.parts[i] = q)
<1>1. CASE \E i \in DOMAIN m.parts : m.parts[i] = q
  <2>1. Deliveries(q) = {m}
    BY <1>1 DEF Deliveries
  <2> QED
    BY <1>1, <2>1, FS_Singleton DEF One
<1>2. CASE ~ \E i \in DOMAIN m.parts : m.parts[i] = q
  <2>1. Deliveries(q) = {}
    BY <1>2 DEF Deliveries
  <2> QED
    BY <1>2, <2>1, FS_EmptySet DEF One
<1> QED
  BY <1>1, <1>2

\* Among the parts of a sound entry of key k, q is found only at its own place,
\* and only if it belongs to k.
LEMMA FoundInPlace ==
    ASSUME NEW k, NEW e, Sound(k, e), NEW q \in Pdus
    PROVE  /\ (\E i \in DOMAIN e.parts : e.parts[i] = q) <=> At(e.parts, q)
           /\ At(e.parts, q) => KeyOf[q] = k
<1>1. ASSUME NEW i \in DOMAIN e.parts, e.parts[i] = q
      PROVE  NumberOf[q] = i /\ KeyOf[q] = k
  <2>1. i \in HeldIn(e.parts)
    BY <1>1 DEF HeldIn
  <2> QED
    BY <1>1, <2>1 DEF Sound, InPlace
<1> QED
  BY <1>1 DEF At

\* What addPart does to the place of q: p takes its place and puts out the part
\* that was there; everything else stays.
LEMMA AddPartMoves ==
    ASSUME NEW p \in Pdus, NEW q \in Pdus, NEW e, Sound(KeyOf[p], e), KeyOf[q] = KeyOf[p]
    PROVE  LET f == AddPart(e, p)
               i == NumberOf[p]
           IN  /\ i \notin DOMAIN e.parts =>
                    (At(f.parts, q) <=> At(e.parts, q))
               /\ i \in DOMAIN e.parts =>
                    (At(f.parts, q) <=> q = p \/ (NumberOf[q] # i /\ At(e.parts, q)))
<1>1. PICK n \in 2..MaxTotal : e \in EntriesOf(n)
  BY DEF Sound, Entries
<1>2. e.total = n /\ DOMAIN e.parts = 1..n
  BY <1>1 DEF EntriesOf
<1> DEFINE f == AddPart(e, p)
           i == NumberOf[p]
<1>3. CASE i \notin 1..n
  <2>1. f = e
    BY <1>2, <1>3 DEF AddPart
  <2> QED
    BY <2>1, <1>2, <1>3
<1>4. CASE i \in 1..n
  <2>1. f.parts = [e.parts EXCEPT ![i] = p]
    BY <1>1, <1>2, <1>4 DEF AddPart, EntriesOf
  <2> QED
    BY <2>1, <1>2, <1>4 DEF At
<1> QED
  BY <1>3, <1>4

-----------------------------------------------------------------------------

LEMMA LInitSound == LInit => LIInv
<1> SUFFICES ASSUME LInit PROVE LTypeOK /\ BooksBalance
  BY InitSound DEF LIInv, LInit
<1>1. LTypeOK
  BY DEF LInit, LTypeOK
<1>2. ASSUME NEW q \in Pdus PROVE ~InCache(q)
  <2>1. KeyOf[q] \in Keys
    OBVIOUS
  <2> QED
    BY <2>1 DEF LInit, Init, InCache
<1> QED
  BY <1>1, <1>2 DEF LInit, BooksBalance, One

\* A single PDU is delivered at once.
LEMMA SingleBalances ==
    ASSUME LIInv, NEW p \in Pdus, LProcessPDU(p), ProcessSingle(p)
    PROVE  LTypeOK' /\ BooksBalance'
<1> DEFINE m == Message(KeyOf[p], [i \in {1} |-> p])
<1>1. m.parts = [i \in {1} |-> p] /\ out' = {m}
  BY DEF Message, ProcessSingle
<1>2. ASSUME NEW q \in Pdus
      PROVE  /\ Cardinality(Deliveries(q)) = One(q = p)
             /\ One(GivenUp(q, p)) = 0
             /\ InCache(q)' <=> InCache(q)
  <2>1. (\E i \in DOMAIN m.parts : m.parts[i] = q) <=> q = p
    BY <1>1
  <2>2. Cardinality(Deliveries(q)) = One(\E i \in DOMAIN m.parts : m.parts[i] = q)
    BY <1>1, OneDelivery
  <2>3. Cardinality(Deliveries(q)) = One(q = p)
    BY <2>1, <2>2 DEF One
  <2>4. ~GivenUp(q, p)
    BY DEF ProcessSingle, GivenUp
  <2>5. InCache(q)' <=> InCache(q)
    BY DEF ProcessSingle, InCache
  <2> QED
    BY <2>3, <2>4, <2>5 DEF One
<1>3. /\ fed' = [fed EXCEPT ![p] = @ + 1]
      /\ given' = [q \in Pdus |-> given[q] + Cardinality(Deliveries(q))]
      /\ excused' = [q \in Pdus |-> excused[q] + One(GivenUp(q, p))]
  BY DEF LProcessPDU
<1> QED
  BY <1>2, <1>3 DEF LIInv, LTypeOK, BooksBalance, One

\* Where the parts are after ProcessPart(p): what is in the cache or delivered
\* is what the entry holds after addPart.
LEMMA PartPlaces ==
    ASSUME IInv, NEW p \in Pdus, ProcessPart(p), NEW q \in Pdus
    PROVE  LET e == AddPart(EntryFor(p), p)
           IN  /\ KeyOf[q] = KeyOf[p] =>
                    Cardinality(Deliveries(q)) + One(InCache(q)') = One(At(e.parts, q))
               /\ KeyOf[q] # KeyOf[p] =>
                    Cardinality(Deliveries(q)) = 0 /\ (InCache(q)' <=> InCache(q))
<1> DEFINE k == KeyOf[p]
           e == AddPart(EntryFor(p), p)
<1>1. k \in Keys /\ KeyOf[q] \in Keys
  OBVIOUS
<1>2. TotalOf[p] > 1 /\ CacheSound
  BY IInvParts DEF ProcessPart
<1>3. Sound(k, e)
  BY <1>2, EntryForSound, AddPartSound
<1> HIDE DEF e, k
<1>4. KeyOf[q] # k => (InCache(q)' <=> InCache(q))
  <2>1. \E x : cache' = [cache EXCEPT ![k] = x]
    BY DEF ProcessPart, e, k
  <2> QED
    BY <1>1, <1>2, <2>1 DEF CacheSound, InCache
<1>5. KeyOf[q] # k => ~At(e.parts, q)
  BY <1>3, FoundInPlace
<1>6. CASE e.received = e.total
  <2>1. cache' = [cache EXCEPT ![k] = NoEntry]
    BY <1>6 DEF ProcessPart, e, k
  <2>2. out' = {Message(k, e.parts)}
    BY <1>6 DEF ProcessPart, e, k
  <2> DEFINE m == Message(k, e.parts)
  <2>3. m.parts = e.parts
    BY DEF Message
  <2> HIDE DEF m
  <2>4. Cardinality(Deliveries(q)) = One(\E i \in DOMAIN m.parts : m.parts[i] = q)
    BY <2>2, OneDelivery DEF m
  <2>5. Cardinality(Deliveries(q)) = One(At(e.parts, q))
    <3>1. (\E i \in DOMAIN m.parts : m.parts[i] = q) <=> At(e.parts, q)
      BY <2>3, <1>3, FoundInPlace
    <3> QED
      BY <2>4, <3>1 DEF One
  <2>6. KeyOf[q] = k => ~InCache(q)'
    BY <1>1, <1>2, <2>1 DEF CacheSound, InCache
  <2> QED
    BY <2>5, <2>6, <1>4, <1>5 DEF One, e, k
<1>7. CASE e.received # e.total
  <2>1. cache' = [cache EXCEPT ![k] = e] /\ out' = {}
    BY <1>7 DEF ProcessPart, e, k
  <2>2. Cardinality(Deliveries(q)) = 0
    <3>1. Deliveries(q) = {}
      BY <2>1 DEF Deliveries
    <3> QED
      BY <3>1, FS_EmptySet
  <2>3. e # NoEntry
    BY <1>3, NoEntryAssumption DEF Sound
  <2>4. KeyOf[q] = k => (InCache(q)' <=> At(e.parts, q))
    BY <1>1, <1>2, <2>1, <2>3 DEF CacheSound, InCache, At
  <2> QED
    BY <2>2, <2>4, <1>4 DEF One, e, k
<1> QED
  BY <1>6, <1>7

\* A part of a longer message goes where the books say.
LEMMA PartBalances ==
    ASSUME LIInv, NEW p \in Pdus, LProcessPDU(p), ProcessPart(p)
    PROVE  LTypeOK' /\ BooksBalance'
<1> DEFINE E == EntryFor(p)
           e == AddPart(E, p)
           i == NumberOf[p]
<1>1. TotalOf[p] > 1 /\ CacheSound /\ IInv
  BY IInvParts DEF ProcessPart, LIInv
<1>2. Sound(KeyOf[p], E)
  BY <1>1, EntryForSound
<1>3. ASSUME NEW q \in Pdus, KeyOf[q] = KeyOf[p]
      PROVE  InCache(q) <=> At(E.parts, q)
  <2>1. CASE cache[KeyOf[p]] = NoEntry
    <3>1. E = NewEntry(TotalOf[p])
      BY <2>1 DEF EntryFor
    <3>2. ~At(E.parts, q)
      BY <3>1 DEF NewEntry, At
    <3> QED
      BY <3>2, <2>1, <1>3 DEF InCache
  <2>2. CASE cache[KeyOf[p]] # NoEntry
    BY <2>2, <1>3 DEF EntryFor, InCache, At
  <2> QED
    BY <2>1, <2>2
<1>4. ASSUME NEW q \in Pdus
      PROVE  /\ Cardinality(Deliveries(q)) \in Nat
             /\ Cardinality(Deliveries(q)) + One(InCache(q)') + One(GivenUp(q, p))
                 = One(InCache(q)) + One(q = p)
  <2>1. CASE KeyOf[q] # KeyOf[p]
    <3>1. Cardinality(Deliveries(q)) = 0 /\ (InCache(q)' <=> InCache(q))
      BY <1>1, <2>1, PartPlaces
    <3>2. ~GivenUp(q, p) /\ q # p
      BY <2>1 DEF GivenUp
    <3> QED
      BY <3>1, <3>2 DEF One
  <2>2. CASE KeyOf[q] = KeyOf[p]
    <3>1. Cardinality(Deliveries(q)) + One(InCache(q)') = One(At(e.parts, q))
      BY <1>1, <2>2, PartPlaces
    <3>2. Cardinality(Deliveries(q)) \in Nat
      <4>1. IsFiniteSet(Deliveries(q))
        <5>1. IsFiniteSet(out')
          <6>1. out' = {} \/ \E m : out' = {m}
            BY DEF ProcessPart
          <6>2. IsFiniteSet({}) /\ \A m : IsFiniteSet({m})
            BY FS_EmptySet, FS_Singleton
          <6> QED
            BY <6>1, <6>2, Zenon
        <5> QED
          BY <5>1, FS_Subset DEF Deliveries
      <4> QED
        BY <4>1, FS_CardinalityType
    <3>3. InCache(q) <=> At(E.parts, q)
      BY <1>3, <2>2
    <3>4. /\ i \notin DOMAIN E.parts => (At(e.parts, q) <=> At(E.parts, q))
          /\ i \in DOMAIN E.parts =>
                (At(e.parts, q) <=> q = p \/ (NumberOf[q] # i /\ At(E.parts, q)))
      BY <1>2, <2>2, AddPartMoves
    <3>5. GivenUp(q, p) <=> \/ q = p /\ i \notin DOMAIN E.parts
                            \/ At(E.parts, q) /\ NumberOf[q] = i
      BY <1>1, <2>2, <3>3 DEF GivenUp
    <3>6. At(E.parts, q) => NumberOf[q] \in DOMAIN E.parts
      BY DEF At
    <3> HIDE DEF E, e, i
    <3>7. One(At(e.parts, q)) + One(GivenUp(q, p)) = One(At(E.parts, q)) + One(q = p)
      <4>1. CASE i \notin DOMAIN E.parts
        BY <4>1, <3>4, <3>5, <3>6 DEF One, i
      <4>2. CASE i \in DOMAIN E.parts
        BY <4>2, <3>4, <3>5, <3>6 DEF One, i
      <4> QED
        BY <4>1, <4>2
    <3>8. One(InCache(q)) = One(At(E.parts, q))
      BY <3>3 DEF One
    <3>9. One(InCache(q)') \in Nat /\ One(GivenUp(q, p)) \in Nat
      BY DEF One
    <3> QED
      BY <3>1, <3>2, <3>7, <3>8, <3>9
  <2> QED
    BY <2>1, <2>2
<1>5. /\ fed' = [fed EXCEPT ![p] = @ + 1]
      /\ given' = [q \in Pdus |-> given[q] + Cardinality(Deliveries(q))]
      /\ excused' = [q \in Pdus |-> excused[q] + One(GivenUp(q, p))]
  BY DEF LProcessPDU
<1>6. \A q \in Pdus : One(GivenUp(q, p)) \in Nat /\ One(InCache(q)') \in Nat
  BY DEF One
<1>7. LTypeOK'
  BY <1>4, <1>5, <1>6 DEF LIInv, LTypeOK
<1>8. BooksBalance'
  <2> SUFFICES ASSUME NEW q \in Pdus
               PROVE  fed'[q] = given'[q] + excused'[q] + One(InCache(q)')
    BY DEF BooksBalance, One
  <2>1. fed[q] = given[q] + excused[q] + One(InCache(q))
    BY DEF LIInv, BooksBalance
  <2>2. fed'[q] = fed[q] + One(q = p)
    BY <1>5 DEF LIInv, LTypeOK, One
  <2>3. /\ given'[q] = given[q] + Cardinality(Deliveries(q))
        /\ excused'[q] = excused[q] + One(GivenUp(q, p))
    BY <1>5
  <2>4. given[q] \in Nat /\ excused[q] \in Nat
    BY DEF LIInv, LTypeOK
  <2>5. One(InCache(q)) \in Nat /\ One(q = p) \in Nat
    BY DEF One
  <2> QED
    BY <1>4, <1>6, <2>1, <2>2, <2>3, <2>4, <2>5
<1> QED
  BY <1>7, <1>8

\* clearCache moves each part of an expired entry into one delivered message.
LEMMA ClearBalances ==
    ASSUME LIInv, LClearCache
    PROVE  LTypeOK' /\ BooksBalance'
<1>1. CacheSound
  BY IInvParts DEF LIInv
<1>2. ASSUME NEW q \in Pdus
      PROVE  /\ Cardinality(Deliveries(q)) \in Nat
             /\ Cardinality(Deliveries(q)) + One(InCache(q)') = One(InCache(q))
  <2> DEFINE k == KeyOf[q]
             m == Message(k, cache[k].parts)
  <2>1. k \in Keys
    OBVIOUS
  <2>2. ASSUME NEW x \in Expired, NEW j \in DOMAIN cache[x].parts, cache[x].parts[j] = q
        PROVE  x = k /\ InCache(q)
    <3>1. cache[x] # NoEntry /\ Sound(x, cache[x])
      BY <1>1 DEF Expired, CacheSound
    <3>2. At(cache[x].parts, q) /\ k = x
      BY <3>1, <2>2, FoundInPlace
    <3> QED
      BY <3>1, <3>2 DEF InCache, At
  <2>3. \A x : Message(x, cache[x].parts).parts = cache[x].parts
    BY DEF Message
  <2>4. CASE k \in Expired /\ InCache(q)
    <3>1. Deliveries(q) = {m}
      BY <2>2, <2>3, <2>4 DEF Deliveries, LClearCache, ClearCache, InCache
    <3>2. ~InCache(q)'
      BY <2>1, <2>4 DEF LClearCache, ClearCache, InCache
    <3>3. Cardinality(Deliveries(q)) = 1
      BY <3>1, FS_Singleton
    <3> QED
      BY <3>2, <3>3, <2>4 DEF One
  <2>5. CASE ~(k \in Expired /\ InCache(q))
    <3>1. Deliveries(q) = {}
      BY <2>2, <2>3, <2>5 DEF Deliveries, LClearCache, ClearCache
    <3>2. InCache(q)' <=> InCache(q)
      BY <2>1, <2>5 DEF LClearCache, ClearCache, InCache
    <3> QED
      BY <3>1, <3>2, FS_EmptySet DEF One
  <2> QED
    BY <2>4, <2>5
<1>3. /\ given' = [q \in Pdus |-> given[q] + Cardinality(Deliveries(q))]
      /\ fed' = fed /\ excused' = excused
  BY DEF LClearCache
<1>4. LTypeOK'
  BY <1>2, <1>3 DEF LIInv, LTypeOK
<1>5. BooksBalance'
  <2> SUFFICES ASSUME NEW q \in Pdus
               PROVE  fed'[q] = given'[q] + excused'[q] + One(InCache(q)')
    BY DEF BooksBalance, One
  <2>1. fed[q] = given[q] + excused[q] + One(InCache(q))
    BY DEF LIInv, BooksBalance
  <2>2. given[q] \in Nat /\ excused[q] \in Nat
    BY DEF LIInv, LTypeOK
  <2>3. One(InCache(q)) \in Nat /\ One(InCache(q)') \in Nat
    BY DEF One
  <2> QED
    BY <1>2, <1>3, <2>1, <2>2, <2>3
<1> QED
  BY <1>4, <1>5

LEMMA TimeBalances ==
    ASSUME LIInv, NEW d \in 1..Stale, LTimePasses(d)
    PROVE  LTypeOK' /\ BooksBalance'
<1>1. ASSUME NEW q \in Pdus PROVE InCache(q)' <=> InCache(q)
  <2>1. KeyOf[q] \in Keys /\ CacheSound
    BY IInvParts DEF LIInv
  <2>2. CASE cache[KeyOf[q]] = NoEntry
    BY <2>1, <2>2 DEF LTimePasses, TimePasses, InCache
  <2>3. CASE cache[KeyOf[q]] # NoEntry
    <3>1. PICK n \in 2..MaxTotal : cache[KeyOf[q]] \in EntriesOf(n)
      BY <2>1, <2>3 DEF CacheSound, Sound, Entries
    <3>2. cache'[KeyOf[q]].parts = cache[KeyOf[q]].parts
      BY <2>1, <2>3, <3>1 DEF LTimePasses, TimePasses, EntriesOf
    <3>3. CacheSound'
      BY TimePassesSound, IInvParts, PTL DEF LTimePasses, LIInv
    <3>4. cache'[KeyOf[q]] # NoEntry
      <4>1. cache'[KeyOf[q]] \in EntriesOf(n)
        <5> DEFINE x == cache[KeyOf[q]]
                   a == IF x.age + d > Stale THEN Stale ELSE x.age + d
        <5>1. cache'[KeyOf[q]] = [x EXCEPT !.age = a]
          BY <2>1, <2>3 DEF LTimePasses, TimePasses
        <5>2. x.age \in 0..Stale /\ Stale \in Nat
          BY <3>1 DEF EntriesOf, Stale
        <5>3. a \in 0..Stale
          BY <5>2
        <5> QED
          BY <5>1, <5>3, <3>1 DEF EntriesOf
      <4> QED
        BY <4>1, NoEntryAssumption DEF Entries
    <3> QED
      BY <2>3, <3>2, <3>4 DEF InCache
  <2> QED
    BY <2>2, <2>3
<1> QED
  BY <1>1 DEF LTimePasses, LIInv, LTypeOK, BooksBalance, One

LEMMA RestartBalances ==
    ASSUME LIInv, LRestart
    PROVE  LTypeOK' /\ BooksBalance'
<1>1. ASSUME NEW q \in Pdus PROVE ~InCache(q)'
  <2>1. KeyOf[q] \in Keys
    OBVIOUS
  <2> QED
    BY <2>1 DEF LRestart, Restart, InCache
<1> QED
  BY <1>1 DEF LRestart, LIInv, LTypeOK, BooksBalance, One

\* Every received part is accounted for, in every reachable state.
THEOREM BooksCorrect == LSpec => []BooksBalance
<1>1. LInit => LIInv
  BY LInitSound
<1>2. LIInv /\ [LNext]_lvars => LIInv'
  <2> SUFFICES ASSUME LIInv, [LNext]_lvars PROVE LIInv'
    OBVIOUS
  <2>1. IInv'
    <3>1. [Next]_rvars
      BY DEF LNext, LProcessPDU, LClearCache, LTimePasses, LRestart, lvars, rvars, Next
    <3> QED
      BY <3>1, NextSound DEF LIInv
  <2>2. LTypeOK' /\ BooksBalance'
    <3>1. CASE \E p \in Pdus : LProcessPDU(p)
      BY <3>1, SingleBalances, PartBalances DEF LProcessPDU, ProcessPDU
    <3>2. CASE LClearCache
      BY <3>2, ClearBalances
    <3>3. CASE \E d \in 1..Stale : LTimePasses(d)
      BY <3>3, TimeBalances
    <3>4. CASE LRestart
      BY <3>4, RestartBalances
    <3>5. CASE UNCHANGED lvars
      BY <3>5 DEF lvars, LIInv, LTypeOK, BooksBalance, InCache
    <3> QED
      BY <3>1, <3>2, <3>3, <3>4, <3>5 DEF LNext
  <2> QED
    BY <2>1, <2>2 DEF LIInv
<1>3. LIInv => BooksBalance
  BY DEF LIInv
<1> QED
  BY <1>1, <1>2, <1>3, PTL DEF LSpec
=============================================================================
