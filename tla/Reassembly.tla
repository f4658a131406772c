----------------------------- MODULE Reassembly -----------------------------
(***************************************************************************)
(* CRecvSMSProcessor (src/src/RecvSMS.h, RecvSMS.cpp): received PDUs are   *)
(* either delivered at once (single SMS) or collected, per reference       *)
(* number and sender, until every part is there or until no new part has   *)
(* come for smsPartTimeout_ seconds.                                       *)
(*                                                                         *)
(* A PDU is abstract: what ProcessRecvPDU extracts from it is given by the *)
(* functions KeyOf, NumberOf and TotalOf.  A PDU that ProcessRecvPDU gives *)
(* up on still has the fields read so far, so nothing is assumed of them:  *)
(* a part may be number 0, or number 5 of 3.                               *)
(***************************************************************************)
EXTENDS Naturals, FiniteSets

CONSTANTS
    Pdus,      \* the received PDUs (one element per reception)
    Keys,      \* smsCacheKey: pairs of reference number and sender
    KeyOf,     \* getKey()   of each PDU
    NumberOf,  \* m_nPartNo  of each PDU
    TotalOf,   \* m_nParts   of each PDU
    MaxTotal,  \* the largest m_nParts (255: the field is a uint8_t)
    Timeout,   \* smsPartTimeout_, in units of the abstract clock
    NoPdu,     \* an empty position of the parts vector
    NoEntry,   \* a key without an entry in the cache
    NoKey      \* the sender of a message that holds no part

ASSUME PduAssumption ==
    /\ KeyOf \in [Pdus -> Keys]
    /\ NumberOf \in [Pdus -> 0..MaxTotal]
    /\ TotalOf \in [Pdus -> 0..MaxTotal]
ASSUME BoundAssumption == MaxTotal \in Nat /\ MaxTotal >= 2 /\ Timeout \in Nat
ASSUME NoPduAssumption == NoPdu \notin Pdus
ASSUME NoKeyAssumption == NoKey \notin Keys

VARIABLES
    cache,     \* cache[k]: the SmsCacheEntry of key k, or NoEntry
    out        \* the messages the last step gave to onSmsCallBack

rvars == <<cache, out>>

-----------------------------------------------------------------------------
(* Entries.  age is now - lastUpdate, cut off at Stale: above Timeout its  *)
(* value no longer matters.                                                *)

Stale == Timeout + 1

EntriesOf(n) ==
    [total : {n}, parts : [1..n -> Pdus \cup {NoPdu}], received : 0..n, age : 0..Stale]

Entries == UNION {EntriesOf(n) : n \in 2..MaxTotal}

ASSUME NoEntryAssumption == NoEntry \notin Entries

\* A new entry has lastUpdate 0, the epoch: it is stale until it gets a part.
NewEntry(n) ==
    [total |-> n, parts |-> [i \in 1..n |-> NoPdu], received |-> 0, age |-> Stale]

HeldIn(parts) == {i \in DOMAIN parts : parts[i] # NoPdu}

\* Bug: a duplicate refreshes lastUpdate as a new part does.
AddPartRefreshes(e, p) ==
    LET i == NumberOf[p]
    IN  IF i \notin 1..e.total THEN e
        ELSE [e EXCEPT !.parts[i] = p,
                       !.received = @ + (IF e.parts[i] = NoPdu THEN 1 ELSE 0),
                       !.age = 0]

\* Bug: every stored part is counted, duplicates too.
AddPartCountsTwice(e, p) ==
    LET i == NumberOf[p]
    IN  IF i \notin 1..e.total THEN e
        ELSE [e EXCEPT !.parts[i] = p, !.received = @ + 1, !.age = 0]

\* Bug: the index is taken modulo the size instead of being rejected.
AddPartWraps(e, p) ==
    LET i == 1 + (NumberOf[p] % e.total)
    IN  IF e.parts[i] = NoPdu
        THEN [e EXCEPT !.parts[i] = p, !.received = @ + 1, !.age = 0]
        ELSE [e EXCEPT !.parts[i] = p]

\* SmsCacheEntry::addPart: a number out of range is refused and the part is
\* dropped; a duplicate replaces the stored part, is not counted and does not
\* refresh lastUpdate.
AddPart(e, p) ==
    LET i == NumberOf[p]
    IN  IF i \notin 1..e.total THEN e
        ELSE IF e.parts[i] = NoPdu
             THEN [e EXCEPT !.parts[i] = p, !.received = @ + 1, !.age = 0]
             ELSE [e EXCEPT !.parts[i] = p]

\* ReceivedSMS::init: the message is ok when no part is missing, and takes the
\* sender of its first part.  (key is the cache key: it tells apart messages
\* that hold no part.)
Message(k, parts) ==
    [key |-> k, parts |-> parts, ok |-> HeldIn(parts) = DOMAIN parts,
     from |-> IF HeldIn(parts) = {} THEN NoKey
              ELSE LET first == CHOOSE i \in HeldIn(parts) : \A j \in HeldIn(parts) : i <= j
                   IN  KeyOf[parts[first]]]

-----------------------------------------------------------------------------

Init ==
    /\ cache = [k \in Keys |-> NoEntry]
    /\ out = {}

EntryFor(p) ==
    IF cache[KeyOf[p]] = NoEntry THEN NewEntry(TotalOf[p]) ELSE cache[KeyOf[p]]

\* processPDU for m_nParts <= 1 (a PDU without a part header, or one that could
\* not be decoded): delivered at once.
ProcessSingle(p) ==
    /\ TotalOf[p] <= 1
    /\ out' = {Message(KeyOf[p], [i \in {1} |-> p])}
    /\ UNCHANGED cache

\* Bug: the complete message is delivered and its entry stays in the cache.
ProcessPartKeepsEntry(p) ==
    LET k == KeyOf[p]
        e == AddPart(EntryFor(p), p)
    IN  /\ TotalOf[p] > 1
        /\ cache' = [cache EXCEPT ![k] = e]
        /\ out' = IF e.received = e.total THEN {Message(k, e.parts)} ELSE {}

\* Bug: the entry is made anew when the announced total differs.
ProcessPartResizes(p) ==
    LET k == KeyOf[p]
        e == AddPart(IF EntryFor(p).total # TotalOf[p] THEN NewEntry(TotalOf[p])
                     ELSE EntryFor(p), p)
    IN  /\ TotalOf[p] > 1
        /\ IF e.received = e.total
           THEN /\ cache' = [cache EXCEPT ![k] = NoEntry]
                /\ out' = {Message(k, e.parts)}
           ELSE /\ cache' = [cache EXCEPT ![k] = e]
                /\ out' = {}

\* ProcessPart: find or emplace the entry of the part's key, add the part, and
\* deliver and erase the entry once it is complete.  A total different from the
\* entry's is only logged.
ProcessPart(p) ==
    LET k == KeyOf[p]
        e == AddPart(EntryFor(p), p)
    IN  /\ TotalOf[p] > 1
        /\ IF e.received = e.total
           THEN /\ cache' = [cache EXCEPT ![k] = NoEntry]
                /\ out' = {Message(k, e.parts)}
           ELSE /\ cache' = [cache EXCEPT ![k] = e]
                /\ out' = {}

ProcessPDU(p) == ProcessSingle(p) \/ ProcessPart(p)

\* Bug: >= instead of >.
ExpiredTooEarly == {k \in Keys : cache[k] # NoEntry /\ cache[k].age >= Timeout}

Expired == {k \in Keys : cache[k] # NoEntry /\ cache[k].age > Timeout}

\* Bug: what is incomplete is thrown away.
ClearCacheSilently ==
    /\ cache' = [k \in Keys |-> IF k \in Expired THEN NoEntry ELSE cache[k]]
    /\ out' = {}

\* clearCache, called at the end of every polling cycle: all expired entries are
\* delivered as they are, then erased.
ClearCache ==
    /\ cache' = [k \in Keys |-> IF k \in Expired THEN NoEntry ELSE cache[k]]
    /\ out' = {Message(k, cache[k].parts) : k \in Expired}

\* time(NULL) moves on by d between two calls; d is large when the clock of a
\* board without an RTC is set.
TimePasses(d) ==
    /\ \E k \in Keys : cache[k] # NoEntry /\ cache[k].age < Stale
    /\ cache' = [k \in Keys |->
                    IF cache[k] = NoEntry THEN NoEntry
                    ELSE [cache[k] EXCEPT !.age = IF @ + d > Stale THEN Stale ELSE @ + d]]
    /\ out' = {}

\* The process starts again: the cache is only in memory (Init ignores its
\* cachePath argument).
Restart ==
    /\ cache' = [k \in Keys |-> NoEntry]
    /\ out' = {}

Next ==
    \/ \E p \in Pdus : ProcessPDU(p)
    \/ ClearCache
    \/ \E d \in 1..Stale : TimePasses(d)
    \/ Restart

Spec == Init /\ [][Next]_rvars

\* The main loop calls clearCache in every cycle, whatever the modem answers,
\* and time does pass; nothing is assumed of the arrival of PDUs.
Fairness == WF_rvars(ClearCache) /\ WF_rvars(\E d \in 1..Stale : TimePasses(d))

FairSpec == Spec /\ Fairness

-----------------------------------------------------------------------------
(* Properties.                                                             *)

\* Type invariant: every entry has as many positions as its total announces.
TypeOK ==
    /\ cache \in [Keys -> Entries \cup {NoEntry}]
    /\ \A m \in out : m.key \in Keys /\ m.from \in Keys \cup {NoKey} /\ m.ok \in BOOLEAN

\* nPartsReceived, which decides completion, is the number of positions filled,
\* whatever duplicates, foreign totals and invalid numbers came.
CountIsExact ==
    \A k \in Keys : cache[k] # NoEntry =>
        cache[k].received = Cardinality(HeldIn(cache[k].parts))

\* No entry that is complete stays in the cache: completion is noticed in the
\* call that brings the last part.
NoneComplete ==
    \A k \in Keys : cache[k] # NoEntry => cache[k].received < cache[k].total

\* A part is stored in the entry and at the position its own header names, also
\* when it replaced another part or announced another total than the entry.
InPlace(k, parts) ==
    \A i \in HeldIn(parts) :
        parts[i] \in Pdus /\ KeyOf[parts[i]] = k /\ NumberOf[parts[i]] = i

CacheInPlace == \A k \in Keys : cache[k] # NoEntry => InPlace(k, cache[k].parts)

\* A message that is given to the callbacks as complete (isOk) and has several
\* parts consists of parts 1..n of one sender and reference, in that order.
CompleteIsWhole ==
    \A m \in out :
        m.ok /\ Cardinality(DOMAIN m.parts) > 1 =>
            \A i \in DOMAIN m.parts :
                /\ m.parts[i] \in Pdus
                /\ NumberOf[m.parts[i]] = i
                /\ KeyOf[m.parts[i]] = m.key

\* The inductive invariant: completeness of a delivered message follows from the
\* count only because the count is exact and every part is in its place.
IInv ==
    /\ TypeOK
    /\ CountIsExact
    /\ NoneComplete
    /\ CacheInPlace
    /\ CompleteIsWhole

\* A message is handed over incomplete only after Timeout without a new part.
\* Stated on the steps: an entry that leaves the cache (and not by a restart) is
\* either complete with the part that came or was stale already.
GivenUpOnlyWhenStale ==
    [][\A k \in Keys, m \in out' :
          m.key = k /\ ~m.ok => cache[k] = NoEntry \/ cache[k].age > Timeout]_rvars

\* Every entry ends, complete or expired, even if the sender's network repeats
\* its parts for ever: duplicates must not put off the expiry.
EveryEntryEnds == \A k \in Keys : cache[k] # NoEntry ~> cache[k] = NoEntry
=============================================================================
