-------------------------- MODULE ReassemblyLedger --------------------------
(***************************************************************************)
(* Reassembly with books kept of every part: how often it was received, in *)
(* how many delivered messages it appeared, and how often it was given up  *)
(* for a reason the code admits.  The variables below are history: no      *)
(* action of Reassembly depends on them.                                   *)
(***************************************************************************)
EXTENDS Reassembly

CONSTANT MaxFeeds      \* bound: each PDU is processed at most this often

VARIABLES
    fed,       \* fed[p]: calls of processPDU with p
    given,     \* given[p]: delivered messages that hold p
    excused    \* excused[p]: copies of p refused, replaced or lost by a restart

lvars == <<cache, out, fed, given, excused>>

LInit ==
    /\ Init
    /\ fed = [p \in Pdus |-> 0]
    /\ given = [p \in Pdus |-> 0]
    /\ excused = [p \in Pdus |-> 0]

\* p is in the cache: at the one place its header names.
InCache(p) ==
    /\ cache[KeyOf[p]] # NoEntry
    /\ NumberOf[p] \in DOMAIN cache[KeyOf[p]].parts
    /\ cache[KeyOf[p]].parts[NumberOf[p]] = p

One(b) == IF b THEN 1 ELSE 0

\* The deliveries of this step that hold q.
Deliveries(q) == {m \in out' : \E i \in DOMAIN m.parts : m.parts[i] = q}

\* When p is processed, a part q is given up if it is p itself and its number
\* does not fit the entry it belongs to, or if it is stored where p goes.
GivenUp(q, p) ==
    /\ TotalOf[p] > 1
    /\ \/ q = p /\ NumberOf[p] \notin DOMAIN EntryFor(p).parts
       \/ InCache(q) /\ KeyOf[q] = KeyOf[p] /\ NumberOf[q] = NumberOf[p]

LProcessPDU(p) ==
    /\ fed[p] < MaxFeeds
    /\ ProcessPDU(p)
    /\ fed' = [fed EXCEPT ![p] = @ + 1]
    /\ given' = [q \in Pdus |-> given[q] + Cardinality(Deliveries(q))]
    /\ excused' = [q \in Pdus |-> excused[q] + One(GivenUp(q, p))]

LClearCache ==
    /\ ClearCache
    /\ given' = [q \in Pdus |-> given[q] + Cardinality(Deliveries(q))]
    /\ UNCHANGED <<fed, excused>>

LTimePasses(d) == TimePasses(d) /\ UNCHANGED <<fed, given, excused>>

LRestart ==
    /\ Restart
    /\ excused' = [q \in Pdus |-> excused[q] + One(InCache(q))]
    /\ UNCHANGED <<fed, given>>

LNext ==
    \/ \E p \in Pdus : LProcessPDU(p)
    \/ LClearCache
    \/ \E d \in 1..Stale : LTimePasses(d)
    \/ LRestart

LSpec == LInit /\ [][LNext]_lvars

-----------------------------------------------------------------------------

\* The books balance: every part that was received is in exactly one of the
\* cache, a delivered message, or the parts given up for an admitted reason.  So
\* no part is lost in an early return of addPart, a move or an erase, and none is
\* delivered twice, whatever the order of parts, duplicates, expiries and
\* restarts.
BooksBalance ==
    \A p \in Pdus : fed[p] = given[p] + excused[p] + One(InCache(p))
=============================================================================
