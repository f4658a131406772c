--------------------------- MODULE XmlTree_proofs ----------------------------
(***************************************************************************)
(* Proofs about XmlTree, for any number of elements, handles and texts.    *)
(*                                                                         *)
(* The invariant says of the heap that parent links and arrays agree, that *)
(* the links form a forest (each element can be given a rank above that of *)
(* its parent), that the count of a block is what the handles and its      *)
(* parent make it, and that each order lists what its block holds.  The    *)
(* operations are built from a few steps on the heap (refer, detach,       *)
(* attach, empty), and a lemma for each says what it does to a sound heap. *)
(*                                                                         *)
(* The refinement of XmlDocument rests on the same lemmas: what a block    *)
(* says it holds is one element of the tree, each operation does to that   *)
(* tree what the document says, and a sound heap in which everything is    *)
(* referred to keeps exactly what the handles can reach.                   *)
(***************************************************************************)
EXTENDS XmlTree, Integers, FiniteSetTheorems, SequenceTheorems, WellFoundedInduction, TLAPS

-----------------------------------------------------------------------------
(* Naturals, and the functions that a LET defines by recursion.            *)

\* Every set of naturals that is not empty has a least element.
LEMMA LeastNatural ==
    ASSUME NEW S \in SUBSET Nat, S # {}
    PROVE  \E i \in S : \A j \in S : i <= j
<1> DEFINE R == OpToRel(<, Nat)
<1>1. \A i, j \in Nat : j < i => <<j, i>> \in R
  BY DEF OpToRel
<1>2. \E i \in S : \A j \in S : <<j, i>> \notin R
  BY NatLessThanWellFounded, WFMin
<1> HIDE DEF R
<1>3. PICK i \in S : \A j \in S : <<j, i>> \notin R
  BY <1>2
<1>4. \A j \in S : ~(j < i)
  BY <1>1, <1>3
<1> QED
  BY <1>4

\* What holds of 0, and of k when it holds of k - 1, holds up to N.
LEMMA UpTo ==
    ASSUME NEW N \in Nat, NEW T, 0 \in T, \A k \in 1..N : k - 1 \in T => k \in T
    PROVE  0..N \subseteq T
<1> DEFINE S == {k \in 0..N : k \notin T}
<1>1. SUFFICES ASSUME S # {} PROVE FALSE
  OBVIOUS
<1>0. S \in SUBSET Nat
  OBVIOUS
<1>2. PICK i \in S : \A j \in S : i <= j
  <2> HIDE DEF S
  <2> QED
    BY <1>0, <1>1, LeastNatural
<1>3. i \in 1..N /\ i - 1 \in 0..N /\ i - 1 \notin S
  BY <1>2
<1> QED
  BY <1>2, <1>3

\* f lists the states, all in S, of a loop of N steps from a.
IsLoop(f, N, S, a, step) ==
    f \in [0..N -> S] /\ f[0] = a /\ \A k \in 1..N : f[k] = step[k][f[k - 1]]

\* A loop each step of which stays in S has its states.
LEMMA Iteration ==
    ASSUME NEW N \in Nat, NEW S, NEW a \in S, NEW step,
           \A k \in 1..N : \A s \in S : step[k][s] \in S
    PROVE  \E f : IsLoop(f, N, S, a, step)
<1> DEFINE First(n) == \E f \in [0..n -> S] : f[0] = a /\ \A k \in 1..n : f[k] = step[k][f[k - 1]]
           T == {n \in 0..N : First(n)}
<1>1. 0 \in T
  <2> DEFINE g == [k \in 0..0 |-> a]
  <2>1. g \in [0..0 -> S] /\ g[0] = a /\ \A k \in 1..0 : FALSE
    OBVIOUS
  <2> HIDE DEF g
  <2>2. First(0)
    BY <2>1
  <2> HIDE DEF First
  <2> QED
    BY <2>2
<1>2. ASSUME NEW n \in 1..N, n - 1 \in T
      PROVE  n \in T
  <2>1. PICK f \in [0..(n - 1) -> S] :
               f[0] = a /\ \A k \in 1..(n - 1) : f[k] = step[k][f[k - 1]]
    BY <1>2
  <2> DEFINE g == [k \in 0..n |-> IF k = n THEN step[n][f[n - 1]] ELSE f[k]]
  <2>2. f[n - 1] \in S /\ step[n][f[n - 1]] \in S
    OBVIOUS
  <2>3. g \in [0..n -> S] /\ g[0] = a
    BY <2>1, <2>2
  <2>4. ASSUME NEW k \in 1..n
        PROVE  g[k] = step[k][g[k - 1]]
    <3>1. CASE k = n
      BY <3>1
    <3>2. CASE k # n
      <4>1. k \in 1..(n - 1) /\ k - 1 \in 0..(n - 1) /\ k - 1 # n
        BY <3>2
      <4>2. f[k] = step[k][f[k - 1]]
        BY <2>1, <4>1
      <4>3. g[k] = f[k] /\ g[k - 1] = f[k - 1]
        BY <3>2, <4>1
      <4> QED
        BY <4>2, <4>3
    <3> QED
      BY <3>1, <3>2
  <2> HIDE DEF g
  <2>5. First(n)
    BY <2>3, <2>4
  <2>6. n \in 0..N
    OBVIOUS
  <2> HIDE DEF First
  <2> QED
    BY <2>5, <2>6
<1>3. 0..N \subseteq T
  <2> HIDE DEF T
  <2> QED
    BY <1>1, <1>2, UpTo
<1>4. First(N)
  BY <1>3
<1> QED
  BY <1>4 DEF IsLoop

-----------------------------------------------------------------------------
(* One block.                                                              *)

\* A block whose order lists its contents.
GoodBlock == {b \in Block : InOrder(b)}

\* What an array of contents holds.
ContentOf(type) == IF type = "child" THEN Node ELSE Value

\* There are three types of contents.
LEMMA TypeCases ==
    \A type \in Types : type \in {"child", "text", "clear"}
BY TreeAssumption DEF Types

\* What the fields of a block are.
LEMMA FieldTypes ==
    ASSUME NEW b \in Block, NEW type \in Types
    PROVE  /\ b[type] \in Seq(ContentOf(type))
           /\ b.order \in Seq(OrderEntry)
           /\ b = [ref |-> b.ref, named |-> b.named, parent |-> b.parent, child |-> b.child,
                   text |-> b.text, clear |-> b.clear, order |-> b.order]
<1>1. CASE type = "child"
  BY <1>1 DEF Block, ContentOf
<1>2. CASE type = "text"
  BY <1>2 DEF Block, ContentOf
<1>3. CASE type = "clear"
  BY <1>3 DEF Block, ContentOf
<1> QED
  BY <1>1, <1>2, <1>3, TypeCases

\* The contents of one type and the order replaced.
Replaced(b, type, s, o) == [b EXCEPT ![type] = s, !.order = o]

\* Replacing one array and the order leaves the rest of the block alone.
LEMMA ReplacedBlock ==
    ASSUME NEW b \in Block, NEW type \in Types, NEW s \in Seq(ContentOf(type)),
           NEW o \in Seq(OrderEntry),
           NEW c, c = Replaced(b, type, s, o)
    PROVE  /\ c \in Block
           /\ c[type] = s /\ c.order = o
           /\ c.ref = b.ref /\ c.named = b.named /\ c.parent = b.parent
           /\ \A t \in Types \ {type} : c[t] = b[t]
           /\ type # "child" => c.child = b.child
<1>1. CASE type = "child"
  BY <1>1, TypeCases DEF Block, ContentOf, Replaced
<1>2. CASE type = "text"
  BY <1>2, TypeCases DEF Block, ContentOf, Replaced
<1>3. CASE type = "clear"
  BY <1>3, TypeCases DEF Block, ContentOf, Replaced
<1> QED
  BY <1>1, <1>2, <1>3, TypeCases

\* A block is created in order.
LEMMA NewBlockGood ==
    ASSUME NEW p \in Node \cup {Null}
    PROVE  /\ NewBlock(p) \in GoodBlock
           /\ NewBlock(p) = [ref |-> 0, named |-> TRUE, parent |-> p, child |-> <<>>,
                             text |-> <<>>, clear |-> <<>>, order |-> <<>>]
<1>1. NewBlock(p) \in Block
  BY DEF NewBlock, Block
<1>2. \A type \in Types : NewBlock(p)[type] = <<>> /\ NewBlock(p).order = <<>>
  BY TypeCases DEF NewBlock
<1>3. InOrder(NewBlock(p))
  BY <1>2 DEF InOrder, Entries
<1> QED
  BY <1>1, <1>3 DEF GoodBlock, NewBlock

\* addToOrder: a block with one content more at the end is in order, and only its array
\* and its order are touched.
LEMMA AddedGood ==
    ASSUME NEW b \in GoodBlock, NEW type \in Types, NEW item \in ContentOf(type)
    PROVE  LET c == AddToOrder(b, type, item)
           IN  /\ c \in GoodBlock
               /\ c[type] = Append(b[type], item)
               /\ c.order = Append(b.order, Entry(type, Len(b[type])))
               /\ c.ref = b.ref /\ c.named = b.named /\ c.parent = b.parent
               /\ \A t \in Types \ {type} : c[t] = b[t]
               /\ type # "child" => c.child = b.child
<1> DEFINE c == AddToOrder(b, type, item)
           s == Append(b[type], item)
           e == Entry(type, Len(b[type]))
           o == Append(b.order, e)
<1>1. b \in Block /\ InOrder(b)
  BY DEF GoodBlock
<1>2. b[type] \in Seq(ContentOf(type)) /\ b.order \in Seq(OrderEntry)
  BY <1>1, FieldTypes
<1>3. e \in OrderEntry /\ e.type = type /\ e.index = Len(b[type])
  BY <1>2 DEF Entry, OrderEntry
<1>4. s \in Seq(ContentOf(type)) /\ o \in Seq(OrderEntry)
  BY <1>2, <1>3
<1>5. c = Replaced(b, type, s, o)
  <2>1. CASE type = "child"
    BY <2>1 DEF AddToOrder, Replaced
  <2>2. CASE type = "text"
    BY <2>2 DEF AddToOrder, Replaced
  <2>3. CASE type = "clear"
    BY <2>3 DEF AddToOrder, Replaced
  <2> QED
    BY <2>1, <2>2, <2>3, TypeCases
<1>6. /\ c \in Block
      /\ c[type] = s /\ c.order = o
      /\ c.ref = b.ref /\ c.named = b.named /\ c.parent = b.parent
      /\ \A t \in Types \ {type} : c[t] = b[t]
      /\ type # "child" => c.child = b.child
  <2> HIDE DEF s, o, c
  <2> QED
    BY <1>1, <1>4, <1>5, ReplacedBlock
<1>7. DOMAIN o = 1..(Len(b.order) + 1) /\ DOMAIN b.order = 1..Len(b.order) /\ Len(b.order) \in Nat
  BY <1>2, <1>3
<1>8. \A k \in DOMAIN b.order : o[k] = b.order[k]
  BY <1>2, <1>3, <1>7
<1>9. o[Len(b.order) + 1] = e
  BY <1>2, <1>3, <1>7
<1> HIDE DEF o, e, c
<1>10. ASSUME NEW t \in Types
       PROVE  /\ {c.order[k].index : k \in Entries(c, t)} = 0..Len(c[t]) - 1
              /\ \A j, k \in Entries(c, t) : j < k => c.order[j].index < c.order[k].index
  <2>1. /\ {b.order[k].index : k \in Entries(b, t)} = 0..Len(b[t]) - 1
        /\ \A j, k \in Entries(b, t) : j < k => b.order[j].index < b.order[k].index
    BY <1>1 DEF InOrder
  <2>2. CASE t # type
    <3>1. Entries(c, t) = Entries(b, t)
      BY <1>3, <1>6, <1>7, <1>8, <1>9, <2>2 DEF Entries
    <3>2. \A k \in Entries(b, t) : c.order[k] = b.order[k]
      BY <1>6, <1>8 DEF Entries
    <3> QED
      BY <1>6, <2>1, <2>2, <3>1, <3>2
  <2>3. CASE t = type
    <3>1. Entries(c, t) = Entries(b, t) \cup {Len(b.order) + 1}
      BY <1>3, <1>6, <1>7, <1>8, <1>9, <2>3 DEF Entries
    <3>2. \A k \in Entries(b, t) : c.order[k] = b.order[k] /\ k \in 1..Len(b.order)
      BY <1>6, <1>7, <1>8 DEF Entries
    <3>3. c.order[Len(b.order) + 1].index = Len(b[t])
      BY <1>3, <1>6, <1>9, <2>3
    <3>4. Len(c[t]) = Len(b[t]) + 1 /\ Len(b[t]) \in Nat
      BY <1>2, <1>6, <2>3
    <3>5. \A k \in Entries(b, t) : b.order[k].index \in 0..Len(b[t]) - 1
      BY <2>1
    <3>6. {c.order[k].index : k \in Entries(c, t)} = {b.order[k].index : k \in Entries(b, t)} \cup {Len(b[t])}
      BY <3>1, <3>2, <3>3
    <3>7. {c.order[k].index : k \in Entries(c, t)} = 0..Len(c[t]) - 1
      BY SMTT(30), <2>1, <3>4, <3>6
    <3>8. ASSUME NEW j \in Entries(c, t), NEW k \in Entries(c, t), j < k
          PROVE  c.order[j].index < c.order[k].index
      <4>1. j \in Entries(b, t)
        BY <1>7, <3>1, <3>2, <3>8
      <4>2. CASE k \in Entries(b, t)
        BY <2>1, <3>2, <3>8, <4>1, <4>2
      <4>3. CASE k = Len(b.order) + 1
        <5>1. c.order[j].index \in 0..Len(b[t]) - 1
          BY <3>2, <3>5, <4>1
        <5>2. c.order[k].index = Len(b[t])
          BY <3>3, <4>3
        <5> QED
          BY <3>4, <5>1, <5>2
      <4> QED
        BY <3>1, <4>2, <4>3
    <3> QED
      BY <3>7, <3>8
  <2> QED
    BY <2>2, <2>3
<1>11. c \in GoodBlock
  BY <1>6, <1>10 DEF GoodBlock, InOrder
<1> QED
  BY <1>6, <1>11 DEF c, e, o

\* RemoveAt, element by element.
LEMMA RemovedAt ==
    ASSUME NEW S, NEW s \in Seq(S), NEW k \in 1..Len(s)
    PROVE  /\ RemoveAt(s, k) \in Seq(S)
           /\ Len(RemoveAt(s, k)) = Len(s) - 1
           /\ \A j \in 1..Len(s) - 1 : RemoveAt(s, k)[j] = IF j < k THEN s[j] ELSE s[j + 1]
<1> DEFINE front == SubSeq(s, 1, k - 1)
           back == SubSeq(s, k + 1, Len(s))
<1>1. front \in Seq(S) /\ Len(front) = k - 1 /\ \A j \in 1..k - 1 : front[j] = s[j]
  BY SubSeqProperties
<1>2. /\ back \in Seq(S) /\ Len(back) = Len(s) - k
      /\ \A j \in 1..Len(s) - k : back[j] = s[k + j]
  BY SubSeqProperties
<1> HIDE DEF front, back
<1>3. RemoveAt(s, k) = front \o back
  BY DEF RemoveAt, front, back
<1>4. front \o back \in Seq(S) /\ Len(front \o back) = Len(front) + Len(back)
  BY <1>1, <1>2, ConcatProperties
<1>5. \A j \in 1..Len(front) + Len(back) :
         (front \o back)[j] = IF j <= Len(front) THEN front[j] ELSE back[j - Len(front)]
  BY <1>1, <1>2, ConcatProperties
<1>6. ASSUME NEW j \in 1..Len(s) - 1
      PROVE  (front \o back)[j] = IF j < k THEN s[j] ELSE s[j + 1]
  <2>1. j \in 1..Len(front) + Len(back)
    BY <1>1, <1>2
  <2>2. CASE j < k
    BY <1>1, <1>5, <2>1, <2>2
  <2>3. CASE ~(j < k)
    <3> DEFINE l == j - (k - 1)
    <3>1. l \in 1..Len(s) - k /\ k + l = j + 1
      BY <2>3
    <3>2. (front \o back)[j] = back[l]
      BY <1>1, <1>5, <2>1, <2>3
    <3> HIDE DEF l
    <3>3. back[l] = s[k + l]
      BY <1>2, <3>1
    <3> QED
      BY <2>3, <3>1, <3>2, <3>3
  <2> QED
    BY <2>2, <2>3
<1> QED
  BY SMTT(30), <1>1, <1>2, <1>3, <1>4, <1>6

\* Where an entry was before entry k went, and what it has become.
Source(j, k) == IF j < k THEN j ELSE j + 1
\* removeOrderElement for one of the entries that stay.
Shifted(e, type, i) == IF e.type = type /\ e.index > i THEN [e EXCEPT !.index = @ - 1] ELSE e

\* removeOrderElement: the entry is found, and those that are left are the old ones,
\* counted down behind it.
LEMMA DeletedOrder ==
    ASSUME NEW b \in GoodBlock, NEW type \in Types, NEW i \in 0..Len(b[type]) - 1,
           NEW k, k = FindPosition(b, type, i),
           NEW o, o = RemoveOrderElement(b, type, i)
    PROVE  /\ k \in 1..Len(b.order) /\ b.order[k].type = type /\ b.order[k].index = i
           /\ o \in Seq(OrderEntry)
           /\ Len(o) = Len(b.order) - 1
           /\ \A j \in 1..Len(b.order) - 1 : o[j] = Shifted(b.order[Source(j, k)], type, i)
<1>1. b \in Block /\ b.order \in Seq(OrderEntry)
  BY FieldTypes DEF GoodBlock
<1>2. DOMAIN b.order = 1..Len(b.order) /\ Len(b.order) \in Nat
      /\ \A j \in DOMAIN b.order : b.order[j] \in OrderEntry
  BY <1>1
<1>3. /\ {b.order[j].index : j \in Entries(b, type)} = 0..Len(b[type]) - 1
      /\ \A j, l \in Entries(b, type) : j < l => b.order[j].index < b.order[l].index
  BY DEF GoodBlock, InOrder
<1>4. PICK x \in Entries(b, type) : b.order[x].index = i
  BY <1>3
<1>5. x \in DOMAIN b.order /\ b.order[x] = Entry(type, i)
  <2>1. x \in DOMAIN b.order /\ b.order[x].type = type /\ b.order[x] \in OrderEntry
    BY <1>2 DEF Entries
  <2> QED
    BY <1>4, <2>1 DEF OrderEntry, Entry
<1>6. k \in DOMAIN b.order /\ b.order[k] = Entry(type, i)
  BY <1>5 DEF FindPosition
<1>7. b.order[k].type = type /\ b.order[k].index = i /\ k \in Entries(b, type)
  BY <1>6 DEF Entry, Entries
<1> DEFINE rest == RemoveAt(b.order, k)
<1>8. /\ rest \in Seq(OrderEntry) /\ Len(rest) = Len(b.order) - 1
      /\ \A j \in 1..Len(b.order) - 1 :
            rest[j] = IF j < k THEN b.order[j] ELSE b.order[j + 1]
  BY <1>1, <1>2, <1>6, RemovedAt
<1>9. DOMAIN rest = 1..Len(b.order) - 1
  BY <1>8
<1> HIDE DEF rest
<1>10. o = [j \in DOMAIN rest |->
             IF j >= k /\ rest[j].type = type THEN [rest[j] EXCEPT !.index = @ - 1] ELSE rest[j]]
  BY DEF RemoveOrderElement, rest
<1>11. ASSUME NEW j \in 1..Len(b.order) - 1
       PROVE  /\ o[j] = Shifted(b.order[Source(j, k)], type, i)
              /\ o[j] \in OrderEntry
  <2> DEFINE y == Source(j, k)
  <2>1. y \in DOMAIN b.order /\ rest[j] = b.order[y] /\ y # k /\ (y > k <=> j >= k)
    BY <1>2, <1>6, <1>8 DEF Source
  <2> HIDE DEF y
  <2>2. b.order[y] \in OrderEntry
    BY <1>2, <2>1
  <2>3. b.order[y].type \in Types /\ b.order[y].index \in Nat
    BY <2>2 DEF OrderEntry
  <2>4. b.order[y].type = type => (y > k <=> b.order[y].index > i)
    <3>1. HAVE b.order[y].type = type
    <3>2. y \in Entries(b, type)
      BY <2>1, <3>1 DEF Entries
    <3>3. y \in Int /\ k \in Int
      BY <1>2, <1>6, <2>1
    <3> QED
      BY SMTT(30), <1>3, <1>7, <2>1, <2>3, <3>2, <3>3
  <2>5. o[j] = Shifted(b.order[y], type, i)
    <3>1. o[j] = IF j >= k /\ rest[j].type = type
                 THEN [rest[j] EXCEPT !.index = @ - 1] ELSE rest[j]
      BY <1>9, <1>10
    <3> QED
      BY <2>1, <2>4, <3>1 DEF Shifted
  <2>6. b.order[y].type = type /\ b.order[y].index > i => b.order[y].index - 1 \in Nat
    BY <2>3
  <2>7. o[j] \in OrderEntry
    BY <2>2, <2>3, <2>5, <2>6 DEF Shifted, OrderEntry
  <2> QED
    BY <2>5, <2>7 DEF y
<1>12. o \in Seq(OrderEntry) /\ Len(o) = Len(b.order) - 1
  <2>1. DOMAIN o = 1..Len(b.order) - 1
    BY <1>9, <1>10
  <2>2. Len(b.order) - 1 \in Nat
    BY <1>2, <1>6
  <2>3. o \in [1..Len(b.order) - 1 -> OrderEntry]
    BY <1>9, <1>10, <1>11
  <2> QED
    BY <2>2, <2>3
<1> QED
  BY <1>2, <1>6, <1>7, <1>11, <1>12

\* A block is in order after one content of it has been deleted, whichever it is.
LEMMA DeletedGood ==
    ASSUME NEW b \in GoodBlock, NEW type \in Types, NEW i \in 0..Len(b[type]) - 1
    PROVE  LET c == DeleteItem(b, type, i)
           IN  /\ c \in GoodBlock
               /\ c[type] = RemoveAt(b[type], i + 1)
               /\ c.order = RemoveOrderElement(b, type, i)
               /\ c.ref = b.ref /\ c.named = b.named /\ c.parent = b.parent
               /\ \A t \in Types \ {type} : c[t] = b[t]
               /\ type # "child" => c.child = b.child
<1> DEFINE c == DeleteItem(b, type, i)
           s == RemoveAt(b[type], i + 1)
           o == RemoveOrderElement(b, type, i)
           k == FindPosition(b, type, i)
<1>1. b \in Block /\ InOrder(b)
  BY DEF GoodBlock
<1>2. b[type] \in Seq(ContentOf(type)) /\ b.order \in Seq(OrderEntry)
  BY <1>1, FieldTypes
<1>3. s \in Seq(ContentOf(type)) /\ Len(s) = Len(b[type]) - 1
  <2>1. i + 1 \in 1..Len(b[type])
    BY <1>2
  <2> QED
    BY <1>2, <2>1, RemovedAt
<1>4. /\ k \in 1..Len(b.order) /\ b.order[k].type = type /\ b.order[k].index = i
      /\ o \in Seq(OrderEntry)
      /\ Len(o) = Len(b.order) - 1
      /\ \A j \in 1..Len(b.order) - 1 : o[j] = Shifted(b.order[Source(j, k)], type, i)
  <2>1. k = FindPosition(b, type, i) /\ o = RemoveOrderElement(b, type, i)
    OBVIOUS
  <2> HIDE DEF c, s, o, k
  <2> QED
    BY <2>1, DeletedOrder
<1>5. c = Replaced(b, type, s, o)
  <2>1. CASE type = "child"
    BY <2>1 DEF DeleteItem, Replaced
  <2>2. CASE type = "text"
    BY <2>2 DEF DeleteItem, Replaced
  <2>3. CASE type = "clear"
    BY <2>3 DEF DeleteItem, Replaced
  <2> QED
    BY <2>1, <2>2, <2>3, TypeCases
<1> HIDE DEF c, s, o, k
<1>6. /\ c \in Block
      /\ c[type] = s /\ c.order = o
      /\ c.ref = b.ref /\ c.named = b.named /\ c.parent = b.parent
      /\ \A t \in Types \ {type} : c[t] = b[t]
      /\ type # "child" => c.child = b.child
  BY <1>1, <1>3, <1>4, <1>5, ReplacedBlock
<1>7. Len(b.order) \in Nat /\ DOMAIN b.order = 1..Len(b.order)
      /\ \A x \in DOMAIN b.order : b.order[x].type \in Types /\ b.order[x].index \in Nat
  <2>1. \A x \in DOMAIN b.order : b.order[x] \in OrderEntry
    BY <1>2
  <2> QED
    BY <1>2, <2>1 DEF OrderEntry
<1>8. DOMAIN c.order = 1..Len(b.order) - 1
  BY <1>4, <1>6
<1>9. ASSUME NEW j \in 1..Len(b.order) - 1
      PROVE  LET y == Source(j, k)
             IN  /\ y \in DOMAIN b.order /\ y # k
                 /\ c.order[j].type = b.order[y].type
                 /\ c.order[j].index = IF b.order[y].type = type /\ b.order[y].index > i
                                       THEN b.order[y].index - 1 ELSE b.order[y].index
  <2> DEFINE y == Source(j, k)
  <2>1. y \in DOMAIN b.order /\ y # k
    BY <1>4, <1>7 DEF Source
  <2>2. c.order[j] = Shifted(b.order[y], type, i)
    BY <1>4, <1>6
  <2>3. b.order[y] \in OrderEntry
    BY <1>2, <2>1
  <2> HIDE DEF y
  <2>4. /\ c.order[j].type = b.order[y].type
        /\ c.order[j].index = IF b.order[y].type = type /\ b.order[y].index > i
                              THEN b.order[y].index - 1 ELSE b.order[y].index
    BY <2>2, <2>3 DEF Shifted, OrderEntry
  <2> QED
    BY <2>1, <2>4 DEF y
<1>10. \A x \in DOMAIN b.order \ {k} :
          \E j \in 1..Len(b.order) - 1 : Source(j, k) = x
  <2> TAKE x \in DOMAIN b.order \ {k}
  <2> DEFINE j == IF x < k THEN x ELSE x - 1
  <2>1. j \in 1..Len(b.order) - 1 /\ Source(j, k) = x
    BY <1>4, <1>7 DEF Source
  <2> QED
    BY <2>1
<1>11. \A j, l \in 1..Len(b.order) - 1 : j < l => Source(j, k) < Source(l, k)
  BY <1>4, <1>7 DEF Source
<1>12. ASSUME NEW t \in Types
       PROVE  /\ {c.order[j].index : j \in Entries(c, t)} = 0..Len(c[t]) - 1
              /\ \A j, l \in Entries(c, t) : j < l => c.order[j].index < c.order[l].index
  <2>1. /\ {b.order[x].index : x \in Entries(b, t)} = 0..Len(b[t]) - 1
        /\ \A x, y \in Entries(b, t) : x < y => b.order[x].index < b.order[y].index
    BY <1>1 DEF InOrder
  <2>2. Entries(c, t) = {j \in 1..Len(b.order) - 1 : Source(j, k) \in Entries(b, t)}
    BY <1>8, <1>9 DEF Entries
  <2>3. \A j \in Entries(c, t) : j \in 1..Len(b.order) - 1 /\ Source(j, k) \in Entries(b, t) \ {k}
    BY <1>9, <2>2
  <2>4. \A x \in Entries(b, t) : x \in DOMAIN b.order /\ b.order[x].type = t /\ b.order[x].index \in Nat
    BY <1>7 DEF Entries
  <2>5. k \in Entries(b, type)
    BY <1>4, <1>7 DEF Entries
  <2>6. CASE t # type
    <3>1. \A j \in Entries(c, t) : c.order[j].index = b.order[Source(j, k)].index
      BY <1>9, <2>3, <2>4, <2>6
    <3>2. k \notin Entries(b, t)
      BY <1>4, <2>6 DEF Entries
    <3>3. \A x \in Entries(b, t) : \E j \in Entries(c, t) : Source(j, k) = x
      BY <1>10, <2>2, <2>4, <3>2
    <3>4. {c.order[j].index : j \in Entries(c, t)} = {b.order[x].index : x \in Entries(b, t)}
      BY <2>3, <3>1, <3>3
    <3>5. \A j, l \in Entries(c, t) : j < l => c.order[j].index < c.order[l].index
      BY <1>11, <2>1, <2>3, <3>1
    <3> QED
      BY <1>6, <2>1, <2>6, <3>4, <3>5
  <2>7. CASE t = type
    <3> DEFINE Less(x) == IF x > i THEN x - 1 ELSE x
    <3>1. \A j \in Entries(c, t) : c.order[j].index = Less(b.order[Source(j, k)].index)
      BY <1>9, <2>3, <2>4, <2>7
    <3>2. \A x \in Entries(b, t) \ {k} : b.order[x].index # i
      <4> TAKE x \in Entries(b, t) \ {k}
      <4>1. x \in Int /\ k \in Int /\ (x < k \/ k < x)
        BY <1>4, <1>7, <2>4
      <4> QED
        BY <1>4, <2>1, <2>4, <2>5, <2>7, <4>1
    <3>3. \A x \in Entries(b, t) \ {k} : \E j \in Entries(c, t) : Source(j, k) = x
      BY <1>10, <2>2, <2>4
    <3>4. Len(b[t]) \in Nat /\ Len(c[t]) = Len(b[t]) - 1
      BY SMTT(30), <1>2, <1>3, <1>6, <2>7
    <3>5. ASSUME NEW j \in Entries(c, t)
          PROVE  c.order[j].index \in 0..Len(c[t]) - 1
      <4>1. b.order[Source(j, k)].index \in 0..Len(b[t]) - 1 /\ b.order[Source(j, k)].index # i
        BY <2>1, <2>3, <3>2
      <4>2. c.order[j].index = Less(b.order[Source(j, k)].index)
        BY <3>1
      <4>3. i \in 0..Len(b[t]) - 1
        BY <2>7
      <4> HIDE DEF Less
      <4>4. \A x \in 0..Len(b[t]) - 1 : x # i => Less(x) \in 0..Len(b[t]) - 2
        BY <3>4, <4>3 DEF Less
      <4> QED
        BY <3>4, <4>1, <4>2, <4>4
    <3>6. ASSUME NEW z \in 0..Len(c[t]) - 1
          PROVE  \E j \in Entries(c, t) : c.order[j].index = z
      <4> DEFINE w == IF z >= i THEN z + 1 ELSE z
      <4>1. w \in 0..Len(b[t]) - 1 /\ w # i /\ Less(w) = z
        BY <3>4
      <4> HIDE DEF w
      <4>2. PICK x \in Entries(b, t) : b.order[x].index = w
        BY <2>1, <4>1
      <4>3. x # k
        BY <1>4, <4>1, <4>2
      <4>4. PICK j \in Entries(c, t) : Source(j, k) = x
        BY <3>3, <4>3
      <4> QED
        BY <3>1, <4>1, <4>2, <4>4
    <3>7. ASSUME NEW j \in Entries(c, t), NEW l \in Entries(c, t), j < l
          PROVE  c.order[j].index < c.order[l].index
      <4>1. b.order[Source(j, k)].index < b.order[Source(l, k)].index
        BY <1>11, <2>1, <2>3, <3>7
      <4>2. /\ b.order[Source(j, k)].index \in Nat /\ b.order[Source(j, k)].index # i
            /\ b.order[Source(l, k)].index \in Nat /\ b.order[Source(l, k)].index # i
        BY <2>3, <2>4, <3>2
      <4> QED
        BY SMTT(30), <3>1, <4>1, <4>2
    <3> HIDE DEF Less
    <3>8. {c.order[j].index : j \in Entries(c, t)} = 0..Len(c[t]) - 1
      BY <3>5, <3>6
    <3> QED
      BY <3>7, <3>8
  <2> QED
    BY <2>6, <2>7
<1>13. c \in GoodBlock
  BY <1>6, <1>12 DEF GoodBlock, InOrder
<1> QED
  BY <1>6, <1>13 DEF c, s, o

\* The counts and links of a block replaced.
Touched(b, r, p) == [b EXCEPT !.ref = r, !.parent = p]

\* Counts and parents have nothing to do with the order.
LEMMA TouchedGood ==
    ASSUME NEW b \in GoodBlock, NEW r \in Int, NEW p \in Node \cup {Null}
    PROVE  /\ Touched(b, r, p) \in GoodBlock
           /\ Touched(b, r, p).ref = r /\ Touched(b, r, p).parent = p
           /\ Touched(b, r, p).named = b.named /\ Touched(b, r, p).child = b.child
           /\ Touched(b, r, p).order = b.order
           /\ \A type \in Types : Touched(b, r, p)[type] = b[type]
<1>1. b \in Block /\ InOrder(b)
  BY DEF GoodBlock
<1>2. /\ Touched(b, r, p) \in Block
      /\ Touched(b, r, p).ref = r /\ Touched(b, r, p).parent = p
      /\ Touched(b, r, p).named = b.named /\ Touched(b, r, p).child = b.child
      /\ Touched(b, r, p).order = b.order
  BY <1>1 DEF Touched, Block
<1>3. \A type \in Types : Touched(b, r, p)[type] = b[type]
  BY <1>1, TypeCases DEF Touched, Block
<1>4. InOrder(Touched(b, r, p))
  BY <1>1, <1>2, <1>3 DEF InOrder, Entries
<1> QED
  BY <1>2, <1>3, <1>4 DEF GoodBlock

\* What a block in order has, and that it is none of the marks for no block.
LEMMA BlockFields ==
    ASSUME NEW b \in GoodBlock
    PROVE  /\ b.ref \in Int /\ b.named \in BOOLEAN /\ b.parent \in Node \cup {Null}
           /\ b.child \in Seq(Node) /\ b.order \in Seq(OrderEntry)
           /\ Touched(b, b.ref, b.parent) = b
           /\ b # Free /\ b \in Block
<1>1. b \in Block
  BY DEF GoodBlock
<1> QED
  BY <1>1, TreeAssumption DEF Block, Touched

-----------------------------------------------------------------------------
(* Sequences without repetition.                                           *)

\* RemoveAt takes one element out of the set of elements.
LEMMA RemovedSet ==
    ASSUME NEW S, NEW s \in Seq(S), IsInjective(s), NEW k \in 1..Len(s)
    PROVE  /\ ToSet(RemoveAt(s, k)) = ToSet(s) \ {s[k]}
           /\ IsInjective(RemoveAt(s, k))
<1> DEFINE r == RemoveAt(s, k)
<1>1. /\ r \in Seq(S) /\ Len(r) = Len(s) - 1
      /\ \A j \in 1..Len(s) - 1 : r[j] = IF j < k THEN s[j] ELSE s[j + 1]
  BY RemovedAt
<1>2. DOMAIN r = 1..Len(s) - 1 /\ DOMAIN s = 1..Len(s) /\ Len(s) \in Nat
  BY <1>1
<1>3. \A i, j \in 1..Len(s) : s[i] = s[j] => i = j
  BY <1>2 DEF IsInjective
<1> HIDE DEF r
<1>4. \A j \in DOMAIN r : r[j] = s[Source(j, k)] /\ Source(j, k) \in 1..Len(s) \ {k}
  BY <1>1, <1>2 DEF Source
<1>5. \A i, j \in DOMAIN r : Source(i, k) = Source(j, k) => i = j
  BY <1>2 DEF Source
<1>6. \A x \in 1..Len(s) \ {k} : \E j \in DOMAIN r : Source(j, k) = x
  <2> TAKE x \in 1..Len(s) \ {k}
  <2> DEFINE j == IF x < k THEN x ELSE x - 1
  <2>1. j \in DOMAIN r /\ Source(j, k) = x
    BY <1>2 DEF Source
  <2> QED
    BY <2>1
<1>7. ToSet(r) = ToSet(s) \ {s[k]}
  BY <1>2, <1>3, <1>4, <1>6 DEF ToSet
<1>8. IsInjective(r)
  BY <1>3, <1>4, <1>5 DEF IsInjective
<1> QED
  BY <1>7, <1>8 DEF r

\* Append puts one in.
LEMMA AppendedSet ==
    ASSUME NEW S, NEW s \in Seq(S), NEW x \in S
    PROVE  /\ ToSet(Append(s, x)) = ToSet(s) \cup {x}
           /\ IsInjective(s) /\ x \notin ToSet(s) => IsInjective(Append(s, x))
<1> DEFINE r == Append(s, x)
<1>1. /\ DOMAIN r = 1..Len(s) + 1 /\ DOMAIN s = 1..Len(s) /\ Len(s) \in Nat
      /\ \A j \in 1..Len(s) : r[j] = s[j]
      /\ r[Len(s) + 1] = x
  BY AppendProperties
<1> HIDE DEF r
<1>2. 1..Len(s) + 1 = 1..Len(s) \cup {Len(s) + 1}
  BY <1>1
<1>3. ToSet(r) = ToSet(s) \cup {x}
  BY <1>1, <1>2 DEF ToSet
<1>4. IsInjective(s) /\ x \notin ToSet(s) => IsInjective(r)
  BY <1>1, <1>2 DEF ToSet, IsInjective
<1> QED
  BY <1>3, <1>4 DEF r

\* The elements of a sequence are of its type.
LEMMA SetOfSeq ==
    ASSUME NEW S, NEW s \in Seq(S)
    PROVE  ToSet(s) \subseteq S /\ (s = <<>> => ToSet(s) = {})
BY DEF ToSet

\* The elements of a sequence are its head and those of its tail.
LEMMA HeadTailSets ==
    ASSUME NEW S, NEW s \in Seq(S), s # <<>>
    PROVE  /\ Head(s) \in S /\ Tail(s) \in Seq(S)
           /\ ToSet(s) = {Head(s)} \cup ToSet(Tail(s))
           /\ IsInjective(s) => IsInjective(Tail(s)) /\ Head(s) \notin ToSet(Tail(s))
<1>1. /\ Head(s) \in S /\ Tail(s) \in Seq(S) /\ Len(s) \in Nat \ {0}
      /\ Len(Tail(s)) = Len(s) - 1
      /\ \A i \in 1..Len(Tail(s)) : Tail(s)[i] = s[i + 1]
      /\ Head(s) = s[1]
  BY EmptySeq, HeadTailProperties
<1>2. DOMAIN s = 1..Len(s) /\ DOMAIN Tail(s) = 1..Len(s) - 1
  BY <1>1
<1>3. \A i \in 1..Len(s) : i = 1 \/ (i - 1 \in 1..Len(s) - 1 /\ s[i] = Tail(s)[i - 1])
  <2> TAKE i \in 1..Len(s)
  <2>1. i # 1 => i - 1 \in 1..Len(Tail(s)) /\ (i - 1) + 1 = i
    BY <1>1
  <2> QED
    BY <1>1, <2>1
<1>4. ToSet(s) = {Head(s)} \cup ToSet(Tail(s))
  <2>1. ASSUME NEW x \in ToSet(s), x # Head(s) PROVE x \in ToSet(Tail(s))
    <3>1. PICK i \in 1..Len(s) : x = s[i]
      BY <1>2 DEF ToSet
    <3>2. i - 1 \in DOMAIN Tail(s) /\ x = Tail(s)[i - 1]
      BY <1>1, <1>2, <1>3, <2>1, <3>1
    <3> QED
      BY <3>2 DEF ToSet
  <2>2. \A i \in 1..Len(s) - 1 : Tail(s)[i] = s[i + 1] /\ i + 1 \in 1..Len(s)
    BY <1>1
  <2>3. ToSet(Tail(s)) \subseteq ToSet(s)
    BY <1>2, <2>2 DEF ToSet
  <2>4. 1 \in 1..Len(s)
    BY <1>1
  <2>5. Head(s) \in ToSet(s)
    BY <1>1, <1>2, <2>4 DEF ToSet
  <2> QED
    BY <2>1, <2>3, <2>5
<1>5. ASSUME IsInjective(s)
      PROVE  IsInjective(Tail(s)) /\ Head(s) \notin ToSet(Tail(s))
  <2>1. \A i, j \in 1..Len(s) : s[i] = s[j] => i = j
    BY <1>2, <1>5 DEF IsInjective
  <2>2. \A i \in 1..Len(s) - 1 : Tail(s)[i] = s[i + 1] /\ i + 1 \in 1..Len(s) /\ i + 1 # 1
    BY <1>1
  <2>3. 1 \in 1..Len(s)
    BY <1>1
  <2>4. IsInjective(Tail(s))
    BY <1>2, <2>1, <2>2 DEF IsInjective
  <2> QED
    BY <1>1, <1>2, <2>1, <2>2, <2>3, <2>4 DEF ToSet
<1> QED
  BY <1>1, <1>4, <1>5

\* The elements of two sequences, one behind the other.
LEMMA ConcatSets ==
    ASSUME NEW S, NEW s \in Seq(S), NEW t \in Seq(S)
    PROVE  /\ s \o t \in Seq(S)
           /\ ToSet(s \o t) = ToSet(s) \cup ToSet(t)
           /\ IsInjective(s) /\ IsInjective(t) /\ ToSet(s) \cap ToSet(t) = {} => IsInjective(s \o t)
<1> DEFINE r == s \o t
<1>1. r \in Seq(S) /\ Len(r) = Len(s) + Len(t) /\ Len(s) \in Nat /\ Len(t) \in Nat
  BY ConcatProperties
<1>2. \A i \in 1..Len(s) + Len(t) : r[i] = IF i <= Len(s) THEN s[i] ELSE t[i - Len(s)]
  BY ConcatProperties
<1>3. DOMAIN r = 1..Len(s) + Len(t) /\ DOMAIN s = 1..Len(s) /\ DOMAIN t = 1..Len(t)
  BY <1>1
<1> HIDE DEF r
<1>4. \A i \in DOMAIN r : \/ i \in DOMAIN s /\ r[i] = s[i]
                          \/ i \notin DOMAIN s /\ i - Len(s) \in DOMAIN t /\ r[i] = t[i - Len(s)]
  BY <1>1, <1>2, <1>3
<1>5. \A i \in DOMAIN s : i \in DOMAIN r /\ r[i] = s[i]
  BY <1>1, <1>2, <1>3
<1>6. ASSUME NEW i \in DOMAIN t PROVE i + Len(s) \in DOMAIN r /\ r[i + Len(s)] = t[i]
  <2>1. i + Len(s) \in 1..Len(s) + Len(t) /\ ~(i + Len(s) <= Len(s)) /\ (i + Len(s)) - Len(s) = i
    BY <1>1, <1>3
  <2> QED
    BY <1>2, <1>3, <2>1
<1>7. ToSet(r) = ToSet(s) \cup ToSet(t)
  <2>1. \A x \in ToSet(r) : x \in ToSet(s) \cup ToSet(t)
    BY <1>4 DEF ToSet
  <2>2. \A x \in ToSet(s) \cup ToSet(t) : x \in ToSet(r)
    BY <1>5, <1>6 DEF ToSet
  <2> QED
    BY <2>1, <2>2
<1>8. ASSUME IsInjective(s), IsInjective(t), ToSet(s) \cap ToSet(t) = {},
             NEW i \in DOMAIN r, NEW j \in DOMAIN r, r[i] = r[j]
      PROVE  i = j
  <2>1. \A a, b \in DOMAIN s : s[a] = s[b] => a = b
    BY <1>8 DEF IsInjective
  <2>2. \A a, b \in DOMAIN t : t[a] = t[b] => a = b
    BY <1>8 DEF IsInjective
  <2>3. \A a \in DOMAIN s, b \in DOMAIN t : s[a] # t[b]
    BY <1>8 DEF ToSet
  <2>4. i \in Int /\ j \in Int /\ Len(s) \in Int
    BY <1>1, <1>3
  <2>5. i - Len(s) = j - Len(s) => i = j
    BY <2>4
  <2> QED
    BY <1>4, <1>8, <2>1, <2>2, <2>3, <2>5
<1>9. IsInjective(s) /\ IsInjective(t) /\ ToSet(s) \cap ToSet(t) = {} => IsInjective(r)
  BY <1>8 DEF IsInjective
<1> QED
  BY <1>1, <1>7, <1>9 DEF r

-----------------------------------------------------------------------------
(* Heaps whose links and counts are right for a given number of references *)
(* from outside, and in which no element is below itself: rank grows from  *)
(* parent to child.                                                        *)

\* A heap of blocks in order.
Heaps == [Node -> GoodBlock \cup {Free}]

\* Parent links and arrays agree, and no array has an element twice.
Linked(hp) ==
    \A n \in Live(hp) :
        /\ hp[n].parent # Null =>
              hp[n].parent \in Live(hp) /\ n \in ToSet(hp[hp[n].parent].child)
        /\ \A m \in ToSet(hp[n].child) : m \in Live(hp) /\ hp[m].parent = n
        /\ IsInjective(hp[n].child)

\* The counts are those of ext, the handles' references, and of the parents.
Counted(hp, ext) ==
    /\ \A n \in Live(hp) : hp[n].ref = ext[n] + (IF hp[n].parent = Null THEN 0 ELSE 1)
    /\ \A n \in Node \ Live(hp) : ext[n] = 0

\* No element is below itself.
Ranked(hp, rank) ==
    \A n \in Live(hp) : hp[n].parent # Null => rank[hp[n].parent] < rank[n]

\* All of that.
Sound(hp, ext, rank) ==
    /\ hp \in Heaps /\ ext \in [Node -> Nat] /\ rank \in [Node -> Nat]
    /\ Linked(hp) /\ Counted(hp, ext) /\ Ranked(hp, rank)

\* The live addresses are those that hold a block.
LEMMA LiveBlocks ==
    ASSUME NEW hp \in Heaps
    PROVE  /\ Live(hp) \subseteq Node
           /\ \A n \in Live(hp) : hp[n] \in GoodBlock
           /\ \A n \in Node : hp[n] \in GoodBlock => n \in Live(hp)
           /\ \A n \in Node \ Live(hp) : hp[n] = Free
BY BlockFields DEF Heaps, Live

\* detachFromParent: the parent's array loses the element and nothing else changes.
LEMMA DetachedHeap ==
    ASSUME NEW hp, NEW ext, NEW rank, Sound(hp, ext, rank), NEW n \in Live(hp),
           NEW p, p = hp[n].parent, p # Null,
           NEW cut, cut = DetachFromParent(hp, n)
    PROVE  /\ p \in Live(hp) /\ p # n
           /\ cut \in Heaps
           /\ \A m \in Node \ {p} : cut[m] = hp[m]
           /\ cut[p] \in GoodBlock
           /\ cut[p].ref = hp[p].ref /\ cut[p].named = hp[p].named
           /\ cut[p].parent = hp[p].parent
           /\ ToSet(cut[p].child) = ToSet(hp[p].child) \ {n}
           /\ IsInjective(cut[p].child)
           /\ \E i \in 1..Len(hp[p].child) :
                 hp[p].child[i] = n /\ cut[p] = DeleteItem(hp[p], "child", i - 1)
<1>1. hp \in Heaps /\ n \in Node /\ p \in Live(hp) /\ p \in Node /\ hp[p] \in GoodBlock
  BY LiveBlocks DEF Sound, Linked
<1>2. p # n
  <2>1. rank[p] < rank[n] /\ rank[n] \in Nat
    BY <1>1 DEF Sound, Ranked
  <2> QED
    BY <2>1
<1>3. hp[p].child \in Seq(Node) /\ IsInjective(hp[p].child) /\ n \in ToSet(hp[p].child)
  BY <1>1, BlockFields DEF Sound, Linked
<1> DEFINE k == CHOOSE k \in DOMAIN hp[p].child : hp[p].child[k] = n
<1>4. DOMAIN hp[p].child = 1..Len(hp[p].child) /\ Len(hp[p].child) \in Nat
  BY <1>3
<1>5. k \in DOMAIN hp[p].child /\ hp[p].child[k] = n
  BY <1>3 DEF ToSet
<1> HIDE DEF k
<1> DEFINE b == DeleteItem(hp[p], "child", k - 1)
<1>6. k - 1 \in 0..Len(hp[p].child) - 1 /\ (k - 1) + 1 = k /\ "child" \in Types
  BY <1>4, <1>5 DEF Types
<1>7. /\ b \in GoodBlock
      /\ b.child = RemoveAt(hp[p].child, k)
      /\ b.ref = hp[p].ref /\ b.named = hp[p].named /\ b.parent = hp[p].parent
  BY <1>1, <1>6, DeletedGood
<1>8. ToSet(b.child) = ToSet(hp[p].child) \ {n} /\ IsInjective(b.child)
  BY <1>3, <1>4, <1>5, <1>7, RemovedSet
<1>9. cut = [hp EXCEPT ![p] = b]
  BY DEF DetachFromParent, k
<1> HIDE DEF b
<1>10. cut[p] = b /\ cut \in Heaps /\ \A m \in Node \ {p} : cut[m] = hp[m]
  BY <1>1, <1>7, <1>9 DEF Heaps
<1> QED
  BY <1>1, <1>2, <1>4, <1>5, <1>6, <1>7, <1>8, <1>10 DEF b

\* deleteNodeContent: n leaves its parent.
LetGo(hp, n) == [DetachFromParent(hp, n) EXCEPT ![n].parent = Null, ![n].ref = @ - 1]

\* An element that has left its parent, and the count the parent had on it, leaves the
\* heap sound (deleteNodeContent before emptyTheNode).
LEMMA LetGoSound ==
    ASSUME NEW hp, NEW ext, NEW rank, Sound(hp, ext, rank), NEW n \in Live(hp),
           hp[n].parent # Null, NEW cut, cut = LetGo(hp, n)
    PROVE  /\ Sound(cut, ext, rank)
           /\ Live(cut) = Live(hp)
           /\ cut[n] = Touched(hp[n], hp[n].ref - 1, Null)
           /\ cut[n].parent = Null
<1> DEFINE p == hp[n].parent
           c == DetachFromParent(hp, n)
<1>1. /\ p \in Live(hp) /\ p # n
      /\ c \in Heaps
      /\ \A m \in Node \ {p} : c[m] = hp[m]
      /\ c[p] \in GoodBlock
      /\ c[p].ref = hp[p].ref /\ c[p].named = hp[p].named
      /\ c[p].parent = hp[p].parent
      /\ ToSet(c[p].child) = ToSet(hp[p].child) \ {n}
      /\ IsInjective(c[p].child)
  BY DetachedHeap
<1>2. n \in Node /\ p \in Node /\ hp[n] \in GoodBlock /\ hp \in Heaps /\ hp[p] \in GoodBlock
  BY <1>1, LiveBlocks DEF Sound
<1>3. c[n] = hp[n]
  BY <1>1, <1>2
<1> HIDE DEF c
<1>4. cut = [c EXCEPT ![n] = Touched(hp[n], hp[n].ref - 1, Null)]
  BY <1>1, <1>2, <1>3 DEF LetGo, Touched, c, Heaps
<1> DEFINE b == Touched(hp[n], hp[n].ref - 1, Null)
<1>5. /\ b \in GoodBlock /\ b.ref = hp[n].ref - 1 /\ b.parent = Null
      /\ b.named = hp[n].named /\ b.child = hp[n].child
  BY <1>2, BlockFields, TouchedGood
<1> HIDE DEF b
<1>6. /\ cut \in Heaps /\ cut[n] = b /\ cut[p] = c[p]
      /\ \A m \in Node \ {n, p} : cut[m] = hp[m]
  BY <1>1, <1>2, <1>4, <1>5 DEF b, Heaps
<1> HIDE DEF p
<1>7. Live(cut) = Live(hp)
  BY <1>1, <1>2, <1>5, <1>6, LiveBlocks DEF Live
<1>8. \A m \in Live(hp) : /\ m \in Node
                          /\ cut[m].parent = IF m = n THEN Null ELSE hp[m].parent
                          /\ cut[m].ref = IF m = n THEN hp[m].ref - 1 ELSE hp[m].ref
                          /\ ToSet(cut[m].child) = IF m = p THEN ToSet(hp[m].child) \ {n}
                                                   ELSE ToSet(hp[m].child)
                          /\ IsInjective(cut[m].child)
  BY ZenonT(60), <1>1, <1>2, <1>5, <1>6, LiveBlocks DEF Sound, Linked
<1>9. Linked(cut)
  <2>1. \A m \in Live(hp) : n \in ToSet(hp[m].child) => m = p
    BY DEF Sound, Linked, p
  <2>2. ASSUME NEW m \in Live(hp), cut[m].parent # Null
        PROVE  cut[m].parent \in Live(hp) /\ m \in ToSet(cut[cut[m].parent].child)
    <3>1. cut[m].parent = hp[m].parent /\ m # n
      BY <1>8, <2>2
    <3>2. hp[m].parent \in Live(hp) /\ m \in ToSet(hp[hp[m].parent].child)
      BY <2>2, <3>1 DEF Sound, Linked
    <3> QED
      BY <1>8, <3>1, <3>2
  <2>3. ASSUME NEW m \in Live(hp), NEW x \in ToSet(cut[m].child)
        PROVE  x \in Live(hp) /\ cut[x].parent = m
    <3>1. x \in ToSet(hp[m].child) /\ x # n
      BY <1>8, <2>1, <2>3
    <3>2. x \in Live(hp) /\ hp[x].parent = m
      BY <3>1 DEF Sound, Linked
    <3> QED
      BY <1>8, <3>1, <3>2
  <2> QED
    BY <1>7, <1>8, <2>2, <2>3 DEF Linked
<1>10. Counted(cut, ext)
  <2>0. \A m \in Live(hp) : ext[m] \in Nat
    BY <1>8 DEF Sound
  <2>1. \A m \in Live(hp) : hp[m].ref = ext[m] + (IF hp[m].parent = Null THEN 0 ELSE 1)
    BY DEF Sound, Counted
  <2>2. hp[n].ref = ext[n] + 1
    BY <2>1
  <2>3. \A m \in Live(hp) : cut[m].ref = ext[m] + (IF cut[m].parent = Null THEN 0 ELSE 1)
    <3> TAKE m \in Live(hp)
    <3>1. CASE m = n
      <4>1. cut[n].parent = Null /\ cut[n].ref = hp[n].ref - 1
        BY <1>8
      <4>2. ext[n] \in Nat
        BY <2>0
      <4> QED
        BY <2>2, <3>1, <4>1, <4>2
    <3>2. CASE m # n
      BY <1>8, <2>1, <3>2
    <3> QED
      BY <3>1, <3>2
  <2> QED
    BY <1>7, <2>3 DEF Sound, Counted
<1>11. Ranked(cut, rank)
  BY <1>7, <1>8 DEF Sound, Ranked
<1> QED
  BY <1>5, <1>6, <1>7, <1>9, <1>10, <1>11 DEF Sound, b

\* Attach before the element is at its new place.
Loose(hp, n) == IF hp[n].parent = Null THEN Refer(hp, n) ELSE DetachFromParent(hp, n)

\* What one more reference changes.
LEMMA ReferHeap ==
    ASSUME NEW hp \in Heaps, NEW n \in Live(hp)
    PROVE  /\ Refer(hp, n) \in Heaps
           /\ Refer(hp, n)[n] = Touched(hp[n], hp[n].ref + 1, hp[n].parent)
           /\ \A m \in Node \ {n} : Refer(hp, n)[m] = hp[m]
<1>1. n \in Node /\ n # Null /\ hp[n] \in GoodBlock
  BY LiveBlocks, TreeAssumption
<1> DEFINE b == Touched(hp[n], hp[n].ref + 1, hp[n].parent)
<1>2. b \in GoodBlock
  BY <1>1, BlockFields, TouchedGood
<1>3. b = [hp[n] EXCEPT !.ref = @ + 1]
  BY <1>1, BlockFields DEF Touched, Block
<1> HIDE DEF b
<1>4. Refer(hp, n) = [hp EXCEPT ![n] = b]
  BY <1>1, <1>3 DEF Refer
<1> QED
  BY <1>1, <1>2, <1>4 DEF Heaps, b

\* What addChild does before the element goes into its new parent.
LEMMA LooseHeap ==
    ASSUME NEW hp, NEW ext, NEW rank, Sound(hp, ext, rank), NEW n \in Live(hp),
           NEW c, c = Loose(hp, n)
    PROVE  /\ c \in Heaps /\ Live(c) = Live(hp)
           /\ \A m \in Live(hp) :
                 /\ c[m].parent = hp[m].parent /\ c[m].named = hp[m].named
                 /\ ToSet(c[m].child) = ToSet(hp[m].child) \ {n}
                 /\ IsInjective(c[m].child)
                 /\ c[m].ref = IF m = n THEN ext[n] + 1 ELSE hp[m].ref
<1>1. /\ hp \in Heaps /\ Live(hp) \subseteq Node /\ n \in Node /\ Null \notin Node
      /\ \A m \in Live(hp) : hp[m] \in GoodBlock
      /\ ext[n] \in Nat
      /\ hp[n].ref = ext[n] + (IF hp[n].parent = Null THEN 0 ELSE 1)
  BY LiveBlocks, TreeAssumption DEF Sound, Counted
<1>2. \A m \in Live(hp) : IsInjective(hp[m].child) /\ (n \in ToSet(hp[m].child) => hp[n].parent = m)
  BY DEF Sound, Linked
<1>3. CASE hp[n].parent = Null
  <2> DEFINE b == Touched(hp[n], hp[n].ref + 1, hp[n].parent)
  <2>1. c \in Heaps /\ c[n] = b /\ \A m \in Node \ {n} : c[m] = hp[m]
    BY <1>1, <1>3, ReferHeap DEF Loose
  <2>2. /\ b \in GoodBlock /\ b.ref = ext[n] + 1 /\ b.parent = hp[n].parent
        /\ b.named = hp[n].named /\ b.child = hp[n].child
    <3>1. hp[n] \in GoodBlock /\ hp[n].ref + 1 = ext[n] + 1 /\ hp[n].ref + 1 \in Int
      BY <1>1, <1>3
    <3>2. hp[n].parent \in Node \cup {Null}
      BY <1>3
    <3> QED
      BY <3>1, <3>2, TouchedGood
  <2> HIDE DEF b
  <2>3. \A m \in Live(hp) : n \notin ToSet(hp[m].child)
    BY <1>1, <1>2, <1>3
  <2>4. Live(c) = Live(hp)
    BY <1>1, <2>1, <2>2, LiveBlocks DEF Live
  <2> QED
    BY <1>1, <1>2, <2>1, <2>2, <2>3, <2>4
<1>4. CASE hp[n].parent # Null
  <2> DEFINE p == hp[n].parent
  <2>1. /\ p \in Live(hp) /\ p # n
        /\ c \in Heaps
        /\ \A m \in Node \ {p} : c[m] = hp[m]
        /\ c[p] \in GoodBlock
        /\ c[p].ref = hp[p].ref /\ c[p].named = hp[p].named
        /\ c[p].parent = hp[p].parent
        /\ ToSet(c[p].child) = ToSet(hp[p].child) \ {n}
        /\ IsInjective(c[p].child)
    <3>1. c = DetachFromParent(hp, n)
      BY <1>4 DEF Loose
    <3> QED
      BY <1>4, <3>1, DetachedHeap
  <2>2. \A m \in Live(hp) : m # p => n \notin ToSet(hp[m].child)
    BY <1>2
  <2>3. c[n].ref = ext[n] + 1
    BY <1>1, <1>4, <2>1
  <2> HIDE DEF p
  <2>4. Live(c) = Live(hp)
    BY <1>1, <2>1, LiveBlocks DEF Live
  <2> QED
    BY <1>1, <1>2, <2>1, <2>2, <2>3, <2>4
<1> QED
  BY <1>3, <1>4

\* addChild(XMLNode): a heap is sound after an element has been put into another that
\* ranks lower.
LEMMA AttachSound ==
    ASSUME NEW hp, NEW ext, NEW rank, Sound(hp, ext, rank),
           NEW n \in Live(hp), NEW d \in Live(hp), n # d, rank[d] < rank[n],
           NEW new, new = Attach(hp, d, n)
    PROVE  /\ Sound(new, ext, rank)
           /\ Live(new) = Live(hp)
           /\ \A m \in Live(hp) :
                 /\ new[m].named = hp[m].named
                 /\ new[m].parent = IF m = n THEN d ELSE hp[m].parent
                 /\ ToSet(new[m].child) = (ToSet(hp[m].child) \ {n}) \cup (IF m = d THEN {n} ELSE {})
           /\ LET c == Loose(hp, n)
              IN  /\ new[n] = Touched(c[n], c[n].ref, d)
                  /\ new[d] = AddToOrder(c[d], "child", n)
                  /\ \A m \in Node \ {n, d} : new[m] = c[m]
<1> DEFINE c == Loose(hp, n)
<1>1. /\ c \in Heaps /\ Live(c) = Live(hp)
      /\ \A m \in Live(hp) :
            /\ c[m].parent = hp[m].parent /\ c[m].named = hp[m].named
            /\ ToSet(c[m].child) = ToSet(hp[m].child) \ {n}
            /\ IsInjective(c[m].child)
            /\ c[m].ref = IF m = n THEN ext[n] + 1 ELSE hp[m].ref
  BY LooseHeap
<1>2. new = [c EXCEPT ![n].parent = d, ![d] = AddToOrder(@, "child", n)]
  BY DEF Attach, Loose
<1> HIDE DEF c
<1>3. /\ n \in Node /\ d \in Node /\ d # Null /\ c[n] \in GoodBlock /\ c[d] \in GoodBlock
      /\ Live(hp) \subseteq Node
      /\ \A m \in Live(hp) : c[m] \in GoodBlock
  <2>1. hp \in Heaps
    BY DEF Sound
  <2> QED
    BY <1>1, <2>1, LiveBlocks, TreeAssumption
<1> DEFINE bn == Touched(c[n], c[n].ref, d)
           bd == AddToOrder(c[d], "child", n)
<1>4. /\ bn \in GoodBlock /\ bn.ref = ext[n] + 1 /\ bn.parent = d
      /\ bn.named = c[n].named /\ bn.child = c[n].child
  BY <1>1, <1>3, BlockFields, TouchedGood
<1>5. /\ bd \in GoodBlock /\ bd.child = Append(c[d].child, n)
      /\ bd.ref = c[d].ref /\ bd.named = c[d].named /\ bd.parent = c[d].parent
  <2>1. "child" \in Types /\ n \in ContentOf("child")
    BY <1>3 DEF Types, ContentOf
  <2> QED
    BY <1>3, <2>1, AddedGood
<1>6. ToSet(bd.child) = (ToSet(hp[d].child) \ {n}) \cup {n} /\ IsInjective(bd.child)
  <2>1. c[d].child \in Seq(Node)
    BY <1>3, BlockFields
  <2>2. ToSet(c[d].child) = ToSet(hp[d].child) \ {n} /\ IsInjective(c[d].child)
    BY <1>1
  <2> DEFINE s == c[d].child
  <2> HIDE DEF s, bd
  <2>3. s \in Seq(Node) /\ IsInjective(s) /\ n \notin ToSet(s)
    BY <2>1, <2>2 DEF s
  <2>4. ToSet(Append(s, n)) = ToSet(s) \cup {n} /\ IsInjective(Append(s, n))
    BY <1>3, <2>3, AppendedSet
  <2> QED
    BY <1>5, <2>2, <2>4 DEF s
<1>7. bn = [c[n] EXCEPT !.parent = d]
  BY <1>3, BlockFields DEF Touched, Block
<1>8. new = [c EXCEPT ![n] = bn, ![d] = bd]
  <2>1. c \in [Node -> GoodBlock \cup {Free}]
    BY <1>1 DEF Heaps
  <2> HIDE DEF bn
  <2> QED
    BY <1>2, <1>3, <1>7, <2>1
<1> HIDE DEF bn, bd
<1>9. /\ new \in Heaps /\ new[n] = bn /\ new[d] = bd
      /\ \A m \in Node \ {n, d} : new[m] = c[m]
  BY <1>1, <1>3, <1>4, <1>5, <1>8 DEF Heaps
<1>10. Live(new) = Live(hp)
  BY <1>1, <1>3, <1>4, <1>5, <1>9, LiveBlocks DEF Live
<1>11. \A m \in Live(hp) :
          /\ m \in Node
          /\ new[m].named = hp[m].named
          /\ new[m].parent = IF m = n THEN d ELSE hp[m].parent
          /\ ToSet(new[m].child) = (ToSet(hp[m].child) \ {n}) \cup (IF m = d THEN {n} ELSE {})
          /\ IsInjective(new[m].child)
          /\ new[m].ref = IF m = n THEN ext[n] + 1 ELSE hp[m].ref
  <2> TAKE m \in Live(hp)
  <2>1. CASE m = n
    BY <1>1, <1>3, <1>4, <1>9, <2>1
  <2>2. CASE m = d
    BY <1>1, <1>3, <1>5, <1>6, <1>9, <2>2
  <2>3. CASE m # n /\ m # d
    BY <1>1, <1>3, <1>9, <2>3
  <2> QED
    BY <2>1, <2>2, <2>3
<1>12. Linked(new)
  <2>1. ASSUME NEW m \in Live(hp), new[m].parent # Null
        PROVE  new[m].parent \in Live(hp) /\ m \in ToSet(new[new[m].parent].child)
    <3>1. CASE m = n
      BY <1>11, <3>1
    <3>2. CASE m # n
      <4>1. hp[m].parent \in Live(hp) /\ m \in ToSet(hp[hp[m].parent].child)
        BY <1>11, <2>1, <3>2 DEF Sound, Linked
      <4> QED
        BY <1>11, <3>2, <4>1
    <3> QED
      BY <3>1, <3>2
  <2>2. ASSUME NEW m \in Live(hp), NEW x \in ToSet(new[m].child)
        PROVE  x \in Live(hp) /\ new[x].parent = m
    <3>1. CASE x = n
      BY <1>11, <2>2, <3>1
    <3>2. CASE x # n
      <4>1. x \in ToSet(hp[m].child)
        BY <1>11, <2>2, <3>2
      <4>2. x \in Live(hp) /\ hp[x].parent = m
        BY <4>1 DEF Sound, Linked
      <4> QED
        BY <1>11, <3>2, <4>2
    <3> QED
      BY <3>1, <3>2
  <2> QED
    BY <1>10, <1>11, <2>1, <2>2 DEF Linked
<1>13. Counted(new, ext)
  <2>1. \A m \in Live(hp) : new[m].ref = ext[m] + (IF new[m].parent = Null THEN 0 ELSE 1)
    <3> TAKE m \in Live(hp)
    <3>1. CASE m = n
      BY <1>3, <1>11, <3>1
    <3>2. CASE m # n
      BY <1>11, <3>2 DEF Sound, Counted
    <3> QED
      BY <3>1, <3>2
  <2> QED
    BY <1>10, <2>1 DEF Sound, Counted
<1>14. Ranked(new, rank)
  BY <1>10, <1>11 DEF Sound, Ranked
<1> QED
  BY <1>9, <1>10, <1>11, <1>12, <1>13, <1>14 DEF Sound, bn, bd, c

-----------------------------------------------------------------------------
(* emptyTheNode.                                                           *)

\* An emptied block that is still referred to.
Blank(r) == [NewBlock(Null) EXCEPT !.ref = r, !.named = FALSE]

\* An emptied block is in order.
LEMMA BlankGood ==
    ASSUME NEW r \in Int
    PROVE  /\ Blank(r) \in GoodBlock
           /\ Blank(r).ref = r /\ Blank(r).named = FALSE /\ Blank(r).parent = Null
           /\ Blank(r).child = <<>> /\ Blank(r).order = <<>>
<1>1. NewBlock(Null) \in Block
  BY NewBlockGood DEF GoodBlock
<1>2. /\ NewBlock(Null).parent = Null /\ NewBlock(Null).child = <<>>
      /\ NewBlock(Null).order = <<>>
      /\ \A type \in Types : NewBlock(Null)[type] = <<>>
  BY TypeCases DEF NewBlock
<1>3. /\ Blank(r) \in Block
      /\ Blank(r).ref = r /\ Blank(r).named = FALSE /\ Blank(r).parent = Null
      /\ Blank(r).child = <<>> /\ Blank(r).order = <<>>
  <2> DEFINE b == NewBlock(Null)
  <2> HIDE DEF b
  <2>1. b \in Block /\ b.parent = Null /\ b.child = <<>> /\ b.order = <<>>
    BY <1>1, <1>2 DEF b
  <2>2. Blank(r) = [b EXCEPT !.ref = r, !.named = FALSE]
    BY DEF Blank, b
  <2> QED
    BY <2>1, <2>2 DEF Block
<1>4. \A type \in Types : Blank(r)[type] = <<>>
  BY <1>1, <1>2, TypeCases DEF Blank, Block
<1>5. InOrder(Blank(r))
  BY <1>3, <1>4 DEF InOrder, Entries
<1> QED
  BY <1>3, <1>5 DEF GoodBlock

\* emptyTheNode for one element without parent: the children go free with the counts
\* they are due, and nobody else is touched.
LEMMA EmptyOneSound ==
    ASSUME NEW hp, NEW ext, NEW rank, Sound(hp, ext, rank),
           NEW n \in Live(hp), hp[n].parent = Null, NEW new, new = EmptyOne(hp, n)
    PROVE  /\ Sound(new, ext, rank)
           /\ n \notin ToSet(hp[n].child)
           /\ new[n] = IF hp[n].ref = 0 THEN Free ELSE Blank(hp[n].ref)
           /\ \A x \in ToSet(hp[n].child) : new[x] = Touched(hp[x], hp[x].ref - 1, Null)
           /\ \A x \in Node \ (ToSet(hp[n].child) \cup {n}) : new[x] = hp[x]
<1> DEFINE kids == ToSet(hp[n].child)
<1>1. /\ hp \in Heaps /\ Live(hp) \subseteq Node /\ n \in Node /\ Null \notin Node
      /\ \A m \in Live(hp) : hp[m] \in GoodBlock
      /\ ext[n] \in Nat /\ hp[n].ref = ext[n]
  BY LiveBlocks, TreeAssumption DEF Sound, Counted
<1>2. \A x \in kids : x \in Live(hp) /\ hp[x].parent = n /\ x # n
  BY <1>1 DEF Sound, Linked
<1> DEFINE orphan(x) == Touched(hp[x], hp[x].ref - 1, Null)
           last == IF hp[n].ref = 0 THEN Free ELSE Blank(hp[n].ref)
<1>3. \A x \in kids : /\ orphan(x) \in GoodBlock /\ orphan(x).ref = hp[x].ref - 1
                      /\ orphan(x).parent = Null /\ orphan(x).child = hp[x].child
                      /\ orphan(x) = [hp[x] EXCEPT !.parent = Null, !.ref = @ - 1]
  <2> TAKE x \in kids
  <2>1. hp[x] \in GoodBlock /\ hp[x] \in Block /\ hp[x].ref \in Int
    BY <1>1, <1>2, BlockFields
  <2>2. orphan(x) = [hp[x] EXCEPT !.parent = Null, !.ref = @ - 1]
    BY <2>1 DEF Touched, Block
  <2>3. hp[x].ref - 1 \in Int /\ Null \in Node \cup {Null}
    BY <2>1
  <2>4. /\ orphan(x) \in GoodBlock /\ orphan(x).ref = hp[x].ref - 1
        /\ orphan(x).parent = Null /\ orphan(x).child = hp[x].child
    BY <2>1, <2>3, TouchedGood
  <2> QED
    BY <2>2, <2>4
<1>4. new = [m \in Node |-> IF m = n THEN last ELSE IF m \in kids THEN orphan(m) ELSE hp[m]]
  <2> DEFINE o == [m \in Node |-> IF m \in kids
                                  THEN [hp[m] EXCEPT !.parent = Null, !.ref = @ - 1] ELSE hp[m]]
  <2>1. new = [o EXCEPT ![n] = IF @.ref = 0 THEN Free
                               ELSE [NewBlock(Null) EXCEPT !.ref = hp[n].ref, !.named = FALSE]]
    BY DEF EmptyOne
  <2>2. o[n] = hp[n]
    BY <1>1, <1>2
  <2>3. \A m \in Node : o[m] = IF m \in kids THEN orphan(m) ELSE hp[m]
    BY <1>3
  <2>4. DOMAIN o = Node
    OBVIOUS
  <2> HIDE DEF o, kids, orphan
  <2> QED
    BY <1>1, <2>1, <2>2, <2>3, <2>4 DEF Blank
<1> HIDE DEF kids, orphan, last
<1>5. last \in GoodBlock \cup {Free}
  <2>1. hp[n].ref \in Int
    BY <1>1
  <2>2. Blank(hp[n].ref) \in GoodBlock
    BY <2>1, BlankGood
  <2> QED
    BY <2>2 DEF last
<1>6. new \in Heaps
  <2> SUFFICES ASSUME NEW m \in Node
               PROVE  (IF m = n THEN last ELSE IF m \in kids THEN orphan(m) ELSE hp[m])
                        \in GoodBlock \cup {Free}
    BY <1>4 DEF Heaps
  <2>1. m \in kids => orphan(m) \in GoodBlock
    BY <1>3
  <2>2. hp[m] \in GoodBlock \cup {Free}
    BY <1>1 DEF Heaps
  <2> QED
    BY <1>5, <2>1, <2>2
<1>7. /\ new[n] = last
      /\ \A x \in kids : new[x] = orphan(x)
      /\ \A x \in Node \ (kids \cup {n}) : new[x] = hp[x]
  BY <1>1, <1>2, <1>4
<1>8. \A m \in Node : m \in Live(new) <=> m \in Live(hp) /\ ~(m = n /\ hp[n].ref = 0)
  <2> TAKE m \in Node
  <2>1. CASE m = n
    BY <1>1, <1>5, <1>6, <1>7, <2>1, BlankGood, LiveBlocks, BlockFields DEF last, Live
  <2>2. CASE m \in kids
    BY <1>2, <1>3, <1>6, <1>7, <2>2, LiveBlocks
  <2>3. CASE m \notin kids \cup {n}
    BY <1>7, <2>3 DEF Live
  <2> QED
    BY <2>1, <2>2, <2>3
<1>9. \A m \in Live(new) :
         /\ m \in Live(hp)
         /\ new[m].parent = IF m \in kids THEN Null ELSE hp[m].parent
         /\ new[m].ref = IF m \in kids THEN hp[m].ref - 1 ELSE hp[m].ref
         /\ ToSet(new[m].child) = IF m = n THEN {} ELSE ToSet(hp[m].child)
         /\ IsInjective(new[m].child)
  <2> TAKE m \in Live(new)
  <2>1. m \in Live(hp) /\ m \in Node /\ IsInjective(hp[m].child)
    BY <1>1, <1>6, <1>8, LiveBlocks DEF Sound, Linked
  <2>2. CASE m = n
    <3>1. new[m] = Blank(hp[n].ref) /\ hp[n].ref \in Int
      BY <1>1, <1>7, <1>8, <2>2 DEF last
    <3>2. /\ new[m].ref = hp[n].ref /\ new[m].parent = Null /\ new[m].child = <<>>
      BY <3>1, BlankGood
    <3> QED
      BY <1>2, <2>1, <2>2, <3>2 DEF ToSet, IsInjective
  <2>3. CASE m \in kids
    BY <1>2, <1>3, <1>7, <2>1, <2>3
  <2>4. CASE m \notin kids \cup {n}
    BY <1>7, <2>1, <2>4
  <2> QED
    BY <2>2, <2>3, <2>4
<1>10. Linked(new)
  <2>1. ASSUME NEW m \in Live(new), new[m].parent # Null
        PROVE  new[m].parent \in Live(new) /\ m \in ToSet(new[new[m].parent].child)
    <3>1. m \notin kids /\ new[m].parent = hp[m].parent
      BY <1>9, <2>1
    <3>2. hp[m].parent \in Live(hp) /\ m \in ToSet(hp[hp[m].parent].child)
      BY <1>9, <2>1, <3>1 DEF Sound, Linked
    <3>3. hp[m].parent # n
      BY <3>1, <3>2 DEF kids
    <3> QED
      BY <1>1, <1>8, <1>9, <3>1, <3>2, <3>3
  <2>2. ASSUME NEW m \in Live(new), NEW x \in ToSet(new[m].child)
        PROVE  x \in Live(new) /\ new[x].parent = m
    <3>1. m # n /\ x \in ToSet(hp[m].child) /\ m \in Live(hp)
      BY <1>9, <2>2
    <3>2. x \in Live(hp) /\ hp[x].parent = m
      BY <3>1 DEF Sound, Linked
    <3>3. x # n /\ x \notin kids
      BY <1>1, <1>2, <3>1, <3>2
    <3> QED
      BY <1>1, <1>8, <1>9, <3>2, <3>3
  <2> QED
    BY <1>9, <2>1, <2>2 DEF Linked
<1>11. Counted(new, ext)
  <2>1. \A m \in Live(new) : new[m].ref = ext[m] + (IF new[m].parent = Null THEN 0 ELSE 1)
    <3> TAKE m \in Live(new)
    <3>1. /\ m \in Node /\ ext[m] \in Nat
          /\ hp[m].ref = ext[m] + (IF hp[m].parent = Null THEN 0 ELSE 1)
      BY <1>1, <1>9 DEF Sound, Counted
    <3>2. CASE m \in kids
      <4>1. hp[m].parent # Null
        BY <1>1, <1>2, <3>2
      <4> QED
        BY <1>9, <3>1, <3>2, <4>1
    <3>3. CASE m \notin kids
      BY <1>9, <3>1, <3>3
    <3> QED
      BY <3>2, <3>3
  <2>2. \A m \in Node \ Live(new) : ext[m] = 0
    BY <1>1, <1>8 DEF Sound, Counted
  <2> QED
    BY <2>1, <2>2 DEF Counted
<1>12. Ranked(new, rank)
  BY <1>9 DEF Sound, Ranked
<1> QED
  BY <1>2, <1>6, <1>7, <1>10, <1>11, <1>12 DEF Sound, kids, orphan, last

\* A state of emptyTheNode that began with heap hp0: what is still to do, G being
\* the elements it may empty.
LoopRecord == [hp : Heaps, todo : Seq(Node)]

\* The block of m is what it was in hp0, but for its count and its parent.
Untouched(hp0, hp, m) == hp[m] = Touched(hp0[m], hp[m].ref, hp[m].parent)
\* The block of m has been emptied.
Blanked(hp, m) == hp[m] = Blank(hp[m].ref)

\* Between two visits: only what is still to be visited has no reference.
LoopSound(s, ext, rank, G) ==
    /\ Sound(s.hp, ext, rank)
    /\ IsInjective(s.todo)
    /\ \A m \in ToSet(s.todo) : m \in Live(s.hp) /\ m \in G /\ s.hp[m].parent = Null
    /\ \A m \in Live(s.hp) : s.hp[m].ref = 0 => m \in ToSet(s.todo)

\* Between two visits: what has been left alone, and what is empty.
LoopKeeps(s, hp0, force, G) ==
    /\ \A m \in Live(s.hp) :
          m \in Live(hp0) /\ (Untouched(hp0, s.hp, m) \/ (force /\ m \in G /\ Blanked(s.hp, m)))
    /\ \A m \in Node \ G : s.hp[m] = hp0[m]
    /\ force => \A m \in Live(s.hp) \cap G :
                   Blanked(s.hp, m) \/ m \in ToSet(s.todo) \/ s.hp[m].parent \in G

\* What is so between two visits that began with hp0, all of them in G.
LoopStates(hp0, ext, rank, force, G) ==
    {s \in LoopRecord : LoopSound(s, ext, rank, G) /\ LoopKeeps(s, hp0, force, G)}

\* What may still be visited.
Pending(s) == ToSet(s.todo) \cup {m \in Live(s.hp) : s.hp[m].parent # Null}

\* No element is in G without what is in it.
ClosedIn(hp, G) == \A m \in Live(hp) \cap G : ToSet(hp[m].child) \subseteq G

\* A visit keeps the loop's states, and each visit to an element leaves fewer to visit:
\* no element is visited twice.
LEMMA VisitKeeps ==
    ASSUME NEW hp0 \in Heaps, NEW ext, NEW rank, NEW force \in BOOLEAN,
           NEW G \in SUBSET Node, ClosedIn(hp0, G),
           NEW s \in LoopStates(hp0, ext, rank, force, G), NEW t, t = Visit(s, force)
    PROVE  /\ t \in LoopStates(hp0, ext, rank, force, G)
           /\ s.todo = <<>> => t = s
           /\ s.todo # <<>> => /\ Head(s.todo) \in Pending(s)
                               /\ Pending(t) \subseteq Pending(s) \ {Head(s.todo)}
<1>1. /\ s \in LoopRecord /\ s.hp \in Heaps /\ s.todo \in Seq(Node)
      /\ LoopSound(s, ext, rank, G) /\ LoopKeeps(s, hp0, force, G)
  BY DEF LoopStates, LoopRecord
<1>2. CASE s.todo = <<>>
  BY <1>2 DEF Visit
<1>3. CASE s.todo # <<>>
  <2> DEFINE n == Head(s.todo)
             rest == Tail(s.todo)
  <2>1. /\ n \in Node /\ rest \in Seq(Node)
        /\ ToSet(s.todo) = {n} \cup ToSet(rest)
        /\ IsInjective(rest) /\ n \notin ToSet(rest)
    BY <1>1, <1>3, HeadTailSets DEF LoopSound
  <2> HIDE DEF n, rest
  <2>2. /\ n \in Live(s.hp) /\ n \in G /\ s.hp[n].parent = Null
        /\ Sound(s.hp, ext, rank)
        /\ \A m \in ToSet(rest) : m \in Live(s.hp) /\ m \in G /\ s.hp[m].parent = Null
        /\ \A m \in Live(s.hp) : s.hp[m].ref = 0 => m = n \/ m \in ToSet(rest)
    BY <1>1, <2>1 DEF LoopSound
  <2>3. /\ Live(s.hp) \subseteq Node /\ Null \notin Node
        /\ \A m \in Live(s.hp) : s.hp[m] \in GoodBlock
    BY <1>1, LiveBlocks, TreeAssumption
  <2>4. CASE ~force /\ s.hp[n].ref # 0
    <3>1. t.hp = s.hp /\ t.todo = rest /\ t \in LoopRecord
      <4>1. t = [s EXCEPT !.todo = rest]
        BY <1>3, <2>4 DEF Visit, n, rest
      <4> QED
        BY <1>1, <2>1, <4>1 DEF LoopRecord
    <3>2. LoopSound(t, ext, rank, G)
      BY <2>1, <2>2, <2>4, <3>1 DEF LoopSound
    <3>3. LoopKeeps(t, hp0, force, G)
      BY <1>1, <2>4, <3>1 DEF LoopKeeps
    <3>4. n \in Pending(s) /\ Pending(t) \subseteq Pending(s) \ {n}
      BY <2>1, <2>2, <3>1 DEF Pending
    <3> QED
      BY <1>3, <3>1, <3>2, <3>3, <3>4 DEF LoopStates, n
  <2>5. CASE force \/ s.hp[n].ref = 0
    <3> DEFINE kids == ToSet(s.hp[n].child)
               hp == EmptyOne(s.hp, n)
               todo == rest \o s.hp[n].child
    <3>1. t.hp = hp /\ t.todo = todo /\ t = [hp |-> hp, todo |-> todo]
      BY <1>3, <2>5 DEF Visit, n, rest
    <3>2. /\ Sound(hp, ext, rank)
          /\ n \notin kids
          /\ hp[n] = IF s.hp[n].ref = 0 THEN Free ELSE Blank(s.hp[n].ref)
          /\ \A x \in kids : hp[x] = Touched(s.hp[x], s.hp[x].ref - 1, Null)
          /\ \A x \in Node \ (kids \cup {n}) : hp[x] = s.hp[x]
      BY <2>2, EmptyOneSound
    <3>3. s.hp[n].child \in Seq(Node) /\ IsInjective(s.hp[n].child) /\ s.hp[n].ref \in Int
      BY <2>2, <2>3, BlockFields DEF Sound, Linked
    <3>4. \A x \in kids : x \in Live(s.hp) /\ s.hp[x].parent = n
      BY <2>2 DEF Sound, Linked
    <3>5. kids \cap ToSet(rest) = {}
      BY <2>1, <2>2, <2>3, <3>4
    <3>6. todo \in Seq(Node) /\ ToSet(todo) = ToSet(rest) \cup kids /\ IsInjective(todo)
      BY <2>1, <3>3, <3>5, ConcatSets
    <3>7. hp \in Heaps
      BY <3>2 DEF Sound
    <3>8. t \in LoopRecord
      BY <3>1, <3>6, <3>7 DEF LoopRecord
    <3> HIDE DEF hp, todo, kids
    <3>9. kids \subseteq G
      <4>1. ASSUME NEW x \in kids PROVE x \in G
        <5>1. s.hp[n].child # <<>>
          BY <3>3, <4>1, SetOfSeq DEF kids
        <5>2. ~Blanked(s.hp, n)
          BY <3>3, <5>1, BlankGood DEF Blanked
        <5>3. n \in Live(hp0) /\ Untouched(hp0, s.hp, n)
          BY <1>1, <2>2, <5>2 DEF LoopKeeps
        <5>4. hp0[n] \in GoodBlock
          BY <5>3, LiveBlocks
        <5>5. s.hp[n].parent \in Node \cup {Null}
          BY <2>2
        <5>6. s.hp[n].child = hp0[n].child
          BY <3>3, <5>3, <5>4, <5>5, TouchedGood DEF Untouched
        <5> QED
          BY <2>2, <4>1, <5>3, <5>6 DEF ClosedIn, kids
      <4> QED
        BY <4>1
    <3>10. \A x \in kids : /\ hp[x] \in GoodBlock /\ x \in Live(hp) /\ hp[x].parent = Null
                           /\ hp[x].ref = s.hp[x].ref - 1
      <4> TAKE x \in kids
      <4>1. s.hp[x] \in GoodBlock /\ s.hp[x].ref - 1 \in Int /\ x \in Node
        BY <2>3, <3>4, BlockFields
      <4>2. /\ Touched(s.hp[x], s.hp[x].ref - 1, Null) \in GoodBlock
            /\ Touched(s.hp[x], s.hp[x].ref - 1, Null).parent = Null
            /\ Touched(s.hp[x], s.hp[x].ref - 1, Null).ref = s.hp[x].ref - 1
        BY <4>1, TouchedGood
      <4> QED
        BY <3>2, <3>7, <4>1, <4>2, LiveBlocks
    <3>11. \A m \in Live(hp) : m \in Live(s.hp) /\ (m = n => hp[m] = Blank(s.hp[n].ref) /\ s.hp[n].ref # 0)
      <4> TAKE m \in Live(hp)
      <4>1. m \in Node /\ hp[m] # Free
        BY DEF Live
      <4>2. CASE m = n
        BY <2>2, <3>2, <4>1, <4>2
      <4>3. CASE m \in kids
        BY <3>2, <3>4, <4>3 DEF kids
      <4>4. CASE m \notin kids \cup {n}
        BY <3>2, <4>1, <4>4 DEF Live
      <4> QED
        BY <4>2, <4>3, <4>4
    <3>12. LoopSound(t, ext, rank, G)
      <4>1. \A m \in ToSet(rest) : m \in Live(hp) /\ m \in G /\ hp[m].parent = Null
        <5> TAKE m \in ToSet(rest)
        <5>1. m \in Node /\ m # n /\ m \notin kids /\ m \in Live(s.hp) /\ m \in G /\ s.hp[m].parent = Null
          BY <2>1, <2>2, <2>3, <3>5
        <5>2. hp[m] = s.hp[m]
          BY <3>2, <5>1
        <5> QED
          BY <5>1, <5>2 DEF Live
      <4>2. \A m \in Live(hp) : hp[m].ref = 0 => m \in ToSet(rest) \cup kids
        <5> TAKE m \in Live(hp)
        <5>1. m \in Node /\ m \in Live(s.hp)
          BY <2>3, <3>11
        <5>2. CASE m = n
          BY <3>3, <3>11, <5>2, BlankGood
        <5>3. CASE m \notin kids \cup {n}
          BY <2>2, <3>2, <5>1, <5>3
        <5> QED
          BY <5>2, <5>3
      <4> QED
        BY <3>1, <3>2, <3>6, <3>9, <3>10, <4>1, <4>2 DEF LoopSound
    <3>13. LoopKeeps(t, hp0, force, G)
      <4>1. ASSUME NEW m \in Live(hp)
            PROVE  m \in Live(hp0) /\ (Untouched(hp0, hp, m) \/ (force /\ m \in G /\ Blanked(hp, m)))
        <5>1. m \in Node /\ m \in Live(s.hp) /\ m \in Live(hp0)
          BY <1>1, <2>3, <3>11 DEF LoopKeeps
        <5>2. CASE m = n
          <6>1. hp[m] = Blank(s.hp[n].ref) /\ s.hp[n].ref # 0
            BY <3>11, <5>2
          <6>2. hp[m].ref = s.hp[n].ref
            BY <3>3, <6>1, BlankGood
          <6> QED
            BY <2>2, <2>5, <5>1, <5>2, <6>1, <6>2 DEF Blanked
        <5>3. CASE m \in kids
          <6>1. s.hp[m].parent # Null
            BY <2>1, <2>3, <3>4, <5>3 DEF kids
          <6>2. s.hp[m] \in GoodBlock /\ s.hp[m].ref \in Int /\ s.hp[m].parent \in Node \cup {Null}
            BY <2>3, <5>1, BlockFields
          <6>3. ~Blanked(s.hp, m)
            BY <6>1, <6>2, BlankGood DEF Blanked
          <6>4. s.hp[m] = Touched(hp0[m], s.hp[m].ref, s.hp[m].parent)
            BY <1>1, <5>1, <6>3 DEF LoopKeeps, Untouched
          <6>5. hp0[m] \in GoodBlock /\ hp0[m] \in Block
            BY <5>1, LiveBlocks, BlockFields
          <6>6. Touched(s.hp[m], s.hp[m].ref - 1, Null) = Touched(hp0[m], s.hp[m].ref - 1, Null)
            BY <6>4, <6>5 DEF Touched, Block
          <6>7. hp[m] = Touched(hp0[m], hp[m].ref, hp[m].parent)
            BY <3>2, <3>10, <5>3, <6>6
          <6> QED
            BY <5>1, <6>7 DEF Untouched
        <5>4. CASE m \notin kids \cup {n}
          <6>1. hp[m] = s.hp[m]
            BY <3>2, <5>1, <5>4
          <6> QED
            BY <1>1, <5>1, <6>1 DEF LoopKeeps, Untouched, Blanked
        <5> QED
          BY <5>2, <5>3, <5>4
      <4>2. \A m \in Node \ G : hp[m] = hp0[m]
        BY <1>1, <2>2, <3>2, <3>9 DEF LoopKeeps
      <4>3. ASSUME force, NEW m \in Live(hp) \cap G
            PROVE  Blanked(hp, m) \/ m \in ToSet(todo) \/ hp[m].parent \in G
        <5>1. m \in Node /\ m \in Live(s.hp)
          BY <2>3, <3>11
        <5>2. CASE m = n
          <6>1. hp[m] = Blank(s.hp[n].ref)
            BY <3>11, <5>2
          <6>2. hp[m].ref = s.hp[n].ref
            BY <3>3, <6>1, BlankGood
          <6> QED
            BY <6>1, <6>2 DEF Blanked
        <5>3. CASE m \in kids
          BY <3>6, <5>3 DEF kids
        <5>4. CASE m \notin kids \cup {n}
          <6>1. hp[m] = s.hp[m]
            BY <3>2, <5>1, <5>4
          <6>2. Blanked(s.hp, m) \/ m \in ToSet(s.todo) \/ s.hp[m].parent \in G
            BY <1>1, <4>3, <5>1 DEF LoopKeeps
          <6> QED
            BY <2>1, <3>6, <5>4, <6>1, <6>2 DEF Blanked
        <5> QED
          BY <5>2, <5>3, <5>4
      <4> QED
        BY <3>1, <4>1, <4>2, <4>3 DEF LoopKeeps
    <3>14. n \in Pending(s) /\ Pending(t) \subseteq Pending(s) \ {n}
      <4>1. n \in Pending(s)
        BY <2>1 DEF Pending
      <4>2. \A m \in ToSet(rest) \cup kids : m \in Pending(s) \ {n}
        BY <2>1, <2>3, <3>2, <3>4 DEF Pending, kids
      <4>3. ASSUME NEW m \in Live(hp), hp[m].parent # Null
            PROVE  m \in Pending(s) \ {n}
        <5>1. m \in Node /\ m \in Live(s.hp) /\ m \notin kids
          BY <2>3, <3>10, <3>11, <4>3
        <5>2. m # n
          BY <3>3, <3>11, <4>3, BlankGood
        <5>3. hp[m] = s.hp[m]
          BY <3>2, <5>1, <5>2
        <5> QED
          BY <4>3, <5>1, <5>2, <5>3 DEF Pending
      <4> QED
        BY <3>1, <3>6, <4>1, <4>2, <4>3 DEF Pending
    <3> QED
      BY <1>3, <3>8, <3>12, <3>13, <3>14 DEF LoopStates, n
  <2> QED
    BY <2>4, <2>5
<1> QED
  BY <1>2, <1>3

\* Visits is the sequence of states that its recursion says, all of them in any set that
\* a visit does not leave.
LEMMA VisitsStay ==
    ASSUME NEW hp, NEW n, NEW force, NEW S, [hp |-> hp, todo |-> <<n>>] \in S,
           \A s \in S : Visit(s, force) \in S
    PROVE  LET N == Cardinality(Node)
               done == Visits(hp, n, force)
           IN  /\ N \in Nat /\ done \in [0..N -> S]
               /\ done[0] = [hp |-> hp, todo |-> <<n>>]
               /\ \A k \in 1..N : done[k] = Visit(done[k - 1], force)
               /\ EmptyTheNode(hp, n, force) = done[N].hp
<1> DEFINE N == Cardinality(Node)
           start == [hp |-> hp, todo |-> <<n>>]
           step == [k \in 1..N |-> [s \in S |-> Visit(s, force)]]
           P(f) == f = [k \in 0..N |-> IF k = 0 THEN start ELSE Visit(f[k - 1], force)]
<1>1. N \in Nat
  BY FS_CardinalityType, TreeAssumption
<1> HIDE DEF N
<1>2. \A k \in 1..N : \A s \in S : step[k][s] = Visit(s, force) /\ step[k][s] \in S
  OBVIOUS
<1>3. PICK f : IsLoop(f, N, S, start, step)
  <2>1. start \in S
    OBVIOUS
  <2> HIDE DEF step, start
  <2> QED
    BY <1>1, <1>2, <2>1, Iteration
<1> HIDE DEF step, start
<1>4. P(f)
  <2>1. f \in [0..N -> S] /\ f[0] = start /\ \A k \in 1..N : f[k] = step[k][f[k - 1]]
    BY <1>3 DEF IsLoop
  <2>2. \A k \in 1..N : f[k] = Visit(f[k - 1], force)
    <3> TAKE k \in 1..N
    <3>1. f[k - 1] \in S
      BY <1>1, <2>1
    <3> QED
      BY <1>2, <2>1, <3>1
  <2>3. f = [k \in 0..N |-> f[k]]
    BY <2>1
  <2> QED
    BY <1>1, <2>1, <2>2, <2>3
<1> DEFINE done == Visits(hp, n, force)
<1>6. done = CHOOSE g : P(g)
  BY DEF Visits, N, start
<1>7. P(done)
  <2> HIDE DEF P, done
  <2> QED
    BY <1>4, <1>6
<1>8. DOMAIN done = 0..N /\ done[0] = start
      /\ \A k \in 1..N : done[k] = Visit(done[k - 1], force)
  <2> HIDE DEF done
  <2>1. done = [k \in 0..N |-> IF k = 0 THEN start ELSE Visit(done[k - 1], force)]
    BY <1>7
  <2> QED
    BY <1>1, <2>1
<1> HIDE DEF done, P
<1>9. 0..N \subseteq {k \in 0..N : done[k] \in S}
  <2> DEFINE T == {k \in 0..N : done[k] \in S}
  <2>1. 0 \in T
    BY <1>1, <1>8 DEF start
  <2>2. \A k \in 1..N : k - 1 \in T => k \in T
    BY <1>1, <1>8
  <2> HIDE DEF T
  <2>3. 0..N \subseteq T
    BY <1>1, <2>1, <2>2, UpTo
  <2> QED
    BY <2>3 DEF T
<1>10. done \in [0..N -> S]
  <2>1. done = [k \in 0..N |-> done[k]]
    <3>1. done = [k \in 0..N |-> IF k = 0 THEN start ELSE Visit(done[k - 1], force)]
      BY <1>7 DEF P
    <3> QED
      BY <3>1
  <2> QED
    BY <1>9, <2>1
<1> QED
  BY <1>1, <1>8, <1>10 DEF EmptyTheNode, N, start, done

\* emptyTheNode comes to its end within as many visits as there are elements.
LEMMA VisitsEnd ==
    ASSUME NEW hp0 \in Heaps, NEW ext, NEW rank, NEW force \in BOOLEAN,
           NEW G \in SUBSET Node, ClosedIn(hp0, G), NEW n,
           [hp |-> hp0, todo |-> <<n>>] \in LoopStates(hp0, ext, rank, force, G)
    PROVE  \E s \in LoopStates(hp0, ext, rank, force, G) :
              s.todo = <<>> /\ EmptyTheNode(hp0, n, force) = s.hp
<1> DEFINE S == LoopStates(hp0, ext, rank, force, G)
           N == Cardinality(Node)
           done == Visits(hp0, n, force)
<1>1. \A s \in S : Visit(s, force) \in S
  BY VisitKeeps
<1>2. /\ N \in Nat /\ done \in [0..N -> S]
      /\ \A k \in 1..N : done[k] = Visit(done[k - 1], force)
      /\ EmptyTheNode(hp0, n, force) = done[N].hp
  <2> HIDE DEF S
  <2> QED
    BY <1>1, VisitsStay DEF S
<1> HIDE DEF done, N
<1>3. ASSUME NEW s \in S
      PROVE  Pending(s) \subseteq Node /\ IsFiniteSet(Pending(s)) /\ Cardinality(Pending(s)) \in Nat
  <2>1. s.todo \in Seq(Node) /\ s.hp \in Heaps
    BY DEF LoopStates, LoopRecord
  <2>2. Pending(s) \subseteq Node
    BY <2>1, SetOfSeq, LiveBlocks DEF Pending
  <2> QED
    BY <2>2, FS_Subset, FS_CardinalityType, TreeAssumption
<1> DEFINE T == {k \in 0..N : done[k].todo = <<>> \/ Cardinality(Pending(done[k])) <= N - k}
<1>4. 0 \in T
  <2>1. done[0] \in S
    BY <1>2
  <2>2. Cardinality(Pending(done[0])) <= N
    BY <1>3, <2>1, FS_Subset, TreeAssumption DEF N
  <2> QED
    BY <1>2, <2>2
<1>5. ASSUME NEW k \in 1..N, k - 1 \in T
      PROVE  k \in T
  <2> DEFINE s == done[k - 1]
  <2>1. k - 1 \in 0..N /\ k \in 0..N /\ s \in S /\ done[k] \in S /\ done[k] = Visit(s, force)
    BY <1>2
  <2> HIDE DEF s
  <2>2. CASE s.todo = <<>>
    BY <2>1, <2>2 DEF Visit
  <2>3. CASE s.todo # <<>>
    <3>1. Head(s.todo) \in Pending(s) /\ Pending(done[k]) \subseteq Pending(s) \ {Head(s.todo)}
      <4> DEFINE t == Visit(s, force)
      <4>1. t = Visit(s, force) /\ done[k] = t
        BY <2>1
      <4>2. s \in LoopStates(hp0, ext, rank, force, G)
        BY <2>1
      <4> HIDE DEF t, S
      <4>3. s.todo # <<>> => /\ Head(s.todo) \in Pending(s)
                             /\ Pending(t) \subseteq Pending(s) \ {Head(s.todo)}
        BY ZenonT(60), <4>1, <4>2, VisitKeeps
      <4> QED
        BY <2>3, <4>1, <4>3
    <3>2. /\ IsFiniteSet(Pending(s) \ {Head(s.todo)})
          /\ Cardinality(Pending(s) \ {Head(s.todo)}) = Cardinality(Pending(s)) - 1
      BY <1>3, <2>1, <3>1, FS_RemoveElement
    <3>3. Cardinality(Pending(done[k])) <= Cardinality(Pending(s)) - 1
      BY <3>1, <3>2, FS_Subset
    <3>4. Cardinality(Pending(s)) <= N - (k - 1)
      BY <1>5, <2>3 DEF s
    <3>5. Cardinality(Pending(done[k])) \in Nat /\ Cardinality(Pending(s)) \in Nat
      BY <1>3, <2>1
    <3>6. Cardinality(Pending(done[k])) <= N - k
      BY <1>2, <3>3, <3>4, <3>5
    <3> QED
      BY <2>1, <3>6
  <2> QED
    BY <2>2, <2>3
<1>6. N \in T
  <2> HIDE DEF T
  <2>1. 0..N \subseteq T
    BY <1>2, <1>4, <1>5, UpTo
  <2> QED
    BY <1>2, <2>1
<1>7. done[N] \in S
  BY <1>2
<1>8. done[N].todo = <<>>
  <2>1. SUFFICES ASSUME Cardinality(Pending(done[N])) <= N - N PROVE done[N].todo = <<>>
    BY <1>6
  <2>2. Cardinality(Pending(done[N])) = 0
    BY <1>2, <1>3, <1>7, <2>1
  <2>3. Pending(done[N]) = {}
    BY <1>3, <1>7, <2>2, FS_EmptySet
  <2>4. done[N].todo \in Seq(Node) /\ ToSet(done[N].todo) = {}
    BY <1>7, <2>3 DEF LoopStates, LoopRecord, Pending
  <2> QED
    BY <2>4, HeadTailSets
<1> QED
  BY <1>2, <1>7, <1>8

-----------------------------------------------------------------------------
(* What can be reached: the sets level[k] of the model, for the relation   *)
(* next on a finite set U.                                                 *)

\* X and the successors of its members.
Grown(X, next) == X \cup UNION {next[m] : m \in X}
\* What a set of levels grows to: closed, least, and reached from R.
IsClosed(X, next) == \A m \in X : next[m] \subseteq X
IsLeast(X, U, R, next) == \A C \in SUBSET U : R \subseteq C /\ IsClosed(C, next) => X \subseteq C
IsReached(X, R, next) == \A m \in X \ R : \E p \in X : m \in next[p]
Levels(level, N, R, next) == level[0] = R /\ \A k \in 1..N : level[k] = Grown(level[k - 1], next)
LevelFunction(level, U, N, R, next) == level \in [0..N -> SUBSET U] /\ Levels(level, N, R, next)

\* Growing a set by the successors of its members as often as there are elements makes
\* the least closed set around it.
LEMMA GrownLevels ==
    ASSUME NEW U, IsFiniteSet(U), NEW N \in Nat, Cardinality(U) <= N,
           NEW R \in SUBSET U, NEW next, \A m \in U : next[m] \subseteq U,
           NEW level, Levels(level, N, R, next)
    PROVE  /\ R \subseteq level[N] /\ level[N] \subseteq U
           /\ IsClosed(level[N], next)
           /\ IsLeast(level[N], U, R, next) /\ IsReached(level[N], R, next)
<1>0. level[0] = R /\ \A k \in 1..N : level[k] = Grown(level[k - 1], next)
  BY DEF Levels
<1> DEFINE T == {k \in 0..N : R \subseteq level[k] /\ level[k] \subseteq U}
<1>1. 0..N \subseteq T
  <2>1. 0 \in T
    BY <1>0
  <2>2. ASSUME NEW k \in 1..N, k - 1 \in T PROVE k \in T
    <3>1. level[k] = Grown(level[k - 1], next) /\ R \subseteq level[k - 1] /\ level[k - 1] \subseteq U
      BY <1>0, <2>2
    <3> QED
      BY <3>1 DEF Grown
  <2> HIDE DEF T
  <2> QED
    BY <2>1, <2>2, UpTo
<1>2. \A k \in 0..N : /\ R \subseteq level[k] /\ level[k] \subseteq U
                      /\ IsFiniteSet(level[k]) /\ Cardinality(level[k]) \in Nat
                      /\ Cardinality(level[k]) <= Cardinality(U)
  <2> TAKE k \in 0..N
  <2>1. R \subseteq level[k] /\ level[k] \subseteq U
    BY <1>1
  <2> QED
    BY <2>1, FS_Subset, FS_CardinalityType
<1> DEFINE Q == {k \in 0..N : IsClosed(level[k], next) \/ Cardinality(level[k]) >= k + 1}
<1>3. 0..N \subseteq Q
  <2>1. 0 \in Q
    <3>1. CASE R = {}
      BY <1>0, <3>1 DEF IsClosed
    <3>2. CASE R # {}
      <4>1. IsFiniteSet(level[0]) /\ Cardinality(level[0]) \in Nat /\ Cardinality(level[0]) # 0
        BY <1>0, <1>2, <3>2, FS_EmptySet
      <4> QED
        BY <4>1
    <3> QED
      BY <3>1, <3>2
  <2>2. ASSUME NEW k \in 1..N, k - 1 \in Q PROVE k \in Q
    <3> DEFINE X == level[k - 1]
    <3>1. level[k] = Grown(X, next) /\ k \in 0..N /\ k - 1 \in 0..N
      BY <1>0
    <3>2. CASE IsClosed(X, next)
      <4>1. level[k] = X
        BY <3>1, <3>2 DEF Grown, IsClosed
      <4> QED
        BY <3>1, <3>2, <4>1
    <3>3. CASE ~IsClosed(X, next)
      <4>1. Cardinality(X) >= k
        BY <2>2, <3>3
      <4>2. PICK x : x \in level[k] /\ x \notin X
        BY <3>1, <3>3 DEF Grown, IsClosed
      <4>3. X \subseteq level[k]
        BY <3>1 DEF Grown
      <4>4. IsFiniteSet(level[k]) /\ IsFiniteSet(X) /\ Cardinality(X) \in Nat
            /\ Cardinality(level[k]) \in Nat
        BY <1>2, <3>1
      <4>5. X \cup {x} \subseteq level[k] /\ Cardinality(X \cup {x}) = Cardinality(X) + 1
        BY <4>2, <4>3, <4>4, FS_AddElement
      <4>6. Cardinality(X \cup {x}) <= Cardinality(level[k])
        BY <4>4, <4>5, FS_Subset
      <4>7. Cardinality(level[k]) >= k + 1
        BY <4>1, <4>4, <4>5, <4>6
      <4> QED
        BY <3>1, <4>7
    <3> QED
      BY <3>2, <3>3
  <2> HIDE DEF Q
  <2> QED
    BY <2>1, <2>2, UpTo
<1>4. IsClosed(level[N], next)
  <2>1. N \in Q /\ N \in 0..N
    BY <1>3
  <2>2. Cardinality(level[N]) \in Nat /\ Cardinality(level[N]) <= Cardinality(U) /\ Cardinality(U) \in Nat
    BY <1>2, <2>1, FS_CardinalityType
  <2>3. ~(Cardinality(level[N]) >= N + 1)
    BY <2>2
  <2> QED
    BY <2>1, <2>3
<1>5. ASSUME NEW C \in SUBSET U, R \subseteq C, IsClosed(C, next)
      PROVE  level[N] \subseteq C
  <2> DEFINE W == {k \in 0..N : level[k] \subseteq C}
  <2>1. 0 \in W
    BY <1>0, <1>5
  <2>2. ASSUME NEW k \in 1..N, k - 1 \in W PROVE k \in W
    <3>1. level[k] = Grown(level[k - 1], next) /\ level[k - 1] \subseteq C
      BY <1>0, <2>2
    <3> QED
      BY <1>5, <3>1 DEF Grown, IsClosed
  <2>3. 0..N \subseteq W
    <3> HIDE DEF W
    <3> QED
      BY <2>1, <2>2, UpTo
  <2> QED
    BY <2>3
<1>6. ASSUME NEW m \in level[N] \ R, \A p \in level[N] : m \notin next[p]
      PROVE  FALSE
  <2> DEFINE C == level[N] \ {m}
  <2>1. C \in SUBSET U /\ R \subseteq C
    BY <1>2
  <2>2. IsClosed(C, next)
    BY <1>4, <1>6 DEF IsClosed
  <2> HIDE DEF C
  <2>3. level[N] \subseteq C
    BY <1>5, <2>1, <2>2
  <2> QED
    BY <2>3 DEF C
<1>7. IsLeast(level[N], U, R, next) /\ IsReached(level[N], R, next)
  BY <1>5, <1>6 DEF IsLeast, IsReached
<1>8. R \subseteq level[N] /\ level[N] \subseteq U
  BY <1>2
<1> QED
  BY <1>4, <1>7, <1>8

\* The function that a recursion over levels defines exists.
LEMMA LevelsExist ==
    ASSUME NEW U, NEW N \in Nat, NEW R \in SUBSET U, NEW next, \A m \in U : next[m] \subseteq U
    PROVE  \E level : LevelFunction(level, U, N, R, next)
<1> DEFINE S == SUBSET U
           step == [k \in 1..N |-> [X \in S |-> Grown(X, next)]]
<1>1. ASSUME NEW X \in S PROVE Grown(X, next) \in S
  BY DEF Grown
<1>2. \A k \in 1..N : \A X \in S : step[k][X] = Grown(X, next) /\ step[k][X] \in S
  BY <1>1
<1>3. R \in S
  OBVIOUS
<1> HIDE DEF step, S
<1>4. PICK f : IsLoop(f, N, S, R, step)
  BY <1>2, <1>3, Iteration
<1>5. f \in [0..N -> S] /\ f[0] = R /\ \A k \in 1..N : f[k] = step[k][f[k - 1]]
  BY <1>4 DEF IsLoop
<1>6. \A k \in 1..N : f[k] = Grown(f[k - 1], next)
  <2> TAKE k \in 1..N
  <2>1. f[k - 1] \in S
    BY <1>5
  <2> QED
    BY <1>2, <1>5, <2>1
<1> QED
  BY <1>5, <1>6 DEF S, LevelFunction, Levels

\* Below(n): closed, with the parent of each member but n, from n's rank up.
LEMMA BelowFacts ==
    ASSUME NEW ext, NEW rank, Sound(heap, ext, rank), NEW n \in Live(heap)
    PROVE  /\ n \in Below(n) /\ Below(n) \subseteq Live(heap)
           /\ ClosedIn(heap, Below(n))
           /\ \A m \in Below(n) : m = n \/ heap[m].parent \in Below(n)
           /\ \A m \in Below(n) : rank[n] <= rank[m]
           /\ heap[n].parent \notin Below(n)
<1> DEFINE U == Live(heap)
           N == Cardinality(Node)
           next == [m \in U |-> ToSet(heap[m].child)]
           P(f) == f = [k \in 0..N |-> IF k = 0 THEN {n}
                          ELSE f[k - 1] \cup UNION {ToSet(heap[m].child) : m \in f[k - 1]}]
<1>1. /\ U \subseteq Node /\ IsFiniteSet(U) /\ N \in Nat /\ Cardinality(U) <= N /\ Null \notin Node
  BY LiveBlocks, FS_Subset, FS_CardinalityType, TreeAssumption DEF Sound
<1>2. \A m \in U : next[m] = ToSet(heap[m].child) /\ next[m] \subseteq U
  BY DEF Sound, Linked
<1>3. \A X \in SUBSET U : Grown(X, next) = X \cup UNION {ToSet(heap[m].child) : m \in X}
  BY <1>2 DEF Grown
<1> HIDE DEF U, N, next
<1>4. PICK f : f \in [0..N -> SUBSET U] /\ f[0] = {n}
               /\ \A k \in 1..N : f[k] = Grown(f[k - 1], next)
  <2>1. {n} \in SUBSET U /\ \A m \in U : next[m] \subseteq U
    BY <1>2 DEF U
  <2>2. PICK f : LevelFunction(f, U, N, {n}, next)
    BY <1>1, <2>1, LevelsExist
  <2> QED
    BY <2>2 DEF LevelFunction, Levels
<1>5. P(f)
  <2>1. \A k \in 0..N : f[k] = IF k = 0 THEN {n}
                               ELSE f[k - 1] \cup UNION {ToSet(heap[m].child) : m \in f[k - 1]}
    <3> TAKE k \in 0..N
    <3>1. CASE k = 0
      BY <1>4, <3>1
    <3>2. CASE k # 0
      <4>1. k \in 1..N /\ f[k - 1] \in SUBSET U
        BY <1>1, <1>4, <3>2
      <4> QED
        BY <1>3, <1>4, <3>2, <4>1
    <3> QED
      BY <3>1, <3>2
  <2>2. f = [k \in 0..N |-> f[k]]
    BY <1>4
  <2> QED
    BY <2>1, <2>2
<1> DEFINE level == CHOOSE f_1 : P(f_1)
<1>6. Below(n) = level[N]
  BY DEF Below, N
<1>7. P(level)
  <2> HIDE DEF P
  <2> QED
    BY <1>5
<1> HIDE DEF level
<1>8. level[0] = {n}
      /\ \A k \in 1..N : level[k] = level[k - 1] \cup UNION {ToSet(heap[m].child) : m \in level[k - 1]}
  BY <1>1, <1>7
<1> HIDE DEF P
<1> DEFINE T == {k \in 0..N : level[k] \in SUBSET U}
<1>9. 0..N \subseteq T
  <2>1. 0 \in T
    BY <1>1, <1>8 DEF U
  <2>2. ASSUME NEW k \in 1..N, k - 1 \in T PROVE k \in T
    <3>1. level[k - 1] \in SUBSET U
      BY <2>2
    <3>2. level[k] = level[k - 1] \cup UNION {ToSet(heap[m].child) : m \in level[k - 1]}
      BY <1>8
    <3>3. level[k] \in SUBSET U
      BY <1>2, <3>1, <3>2
    <3> QED
      BY <1>1, <3>3
  <2> HIDE DEF T
  <2> QED
    BY <1>1, <2>1, <2>2, UpTo
<1>10. \A k \in 1..N : level[k] = Grown(level[k - 1], next)
  <2> TAKE k \in 1..N
  <2>1. level[k - 1] \in SUBSET U
    BY <1>1, <1>9
  <2> QED
    BY <1>3, <1>8, <2>1
<1> DEFINE B == Below(n)
<1>11. /\ {n} \subseteq B /\ B \subseteq U
       /\ IsClosed(B, next)
       /\ \A C \in SUBSET U : {n} \subseteq C /\ IsClosed(C, next) => B \subseteq C
       /\ \A m \in B \ {n} : \E p \in B : m \in next[p]
  <2> DEFINE R == {n}
  <2>1. R \in SUBSET U /\ \A m \in U : next[m] \subseteq U
    BY <1>2 DEF U
  <2>2. Levels(level, N, R, next)
    BY <1>8, <1>10 DEF Levels
  <2> HIDE DEF T, R
  <2>3. /\ R \subseteq level[N] /\ level[N] \subseteq U
        /\ IsClosed(level[N], next)
        /\ IsLeast(level[N], U, R, next) /\ IsReached(level[N], R, next)
    BY <1>1, <2>1, <2>2, GrownLevels
  <2> QED
    BY <1>6, <2>3 DEF R, IsLeast, IsReached
<1> HIDE DEF B, T
<1>12. \A m \in B \ {n} : heap[m].parent \in B
  <2> TAKE m \in B \ {n}
  <2>1. PICK p \in B : m \in next[p]
    BY <1>11
  <2>2. p \in Live(heap) /\ m \in ToSet(heap[p].child)
    BY <1>2, <1>11, <2>1 DEF U
  <2> QED
    BY <2>1, <2>2 DEF Sound, Linked
<1>13. \A m \in U : m \in Node /\ rank[m] \in Nat
  BY <1>1 DEF Sound
<1>14. \A m \in B : rank[n] <= rank[m]
  <2> DEFINE C == {m \in U : rank[n] <= rank[m]}
  <2>1. {n} \subseteq C
    BY <1>13 DEF U
  <2>2. IsClosed(C, next)
    <3> SUFFICES ASSUME NEW m \in C, NEW x \in next[m] PROVE x \in C
      BY DEF IsClosed
    <3>1. m \in U /\ x \in U /\ x \in ToSet(heap[m].child)
      BY <1>2
    <3>2. heap[x].parent = m
      BY <3>1 DEF Sound, Linked, U
    <3>3. rank[m] < rank[x]
      BY <1>1, <3>1, <3>2 DEF Sound, Ranked, U
    <3> QED
      BY <1>13, <3>1, <3>3 DEF U
  <2>3. C \in SUBSET U
    OBVIOUS
  <2> HIDE DEF C
  <2>4. B \subseteq C
    BY <1>11, <2>1, <2>2, <2>3
  <2> QED
    BY <2>4 DEF C
<1>15. heap[n].parent \notin B
  <2>1. SUFFICES ASSUME heap[n].parent \in B PROVE FALSE
    OBVIOUS
  <2>2. heap[n].parent \in U /\ heap[n].parent # Null
    BY <1>1, <1>11, <2>1
  <2>3. rank[heap[n].parent] < rank[n]
    BY <2>2 DEF Sound, Ranked
  <2>4. rank[n] <= rank[heap[n].parent]
    BY <1>14, <2>1
  <2>5. rank[n] \in Nat /\ rank[heap[n].parent] \in Nat
    BY <1>13, <2>2 DEF U
  <2> QED
    BY <2>3, <2>4, <2>5
<1>16. ClosedIn(heap, B)
  BY <1>2, <1>11 DEF ClosedIn, IsClosed, U
<1> QED
  BY <1>11, <1>12, <1>14, <1>15, <1>16 DEF B, U

-----------------------------------------------------------------------------
(* emptyTheNode as it is called.                                           *)

\* Every block of hp is still the one of hp0, but for its count and its parent.
Survives(hp0, hp) == \A m \in Live(hp) : m \in Live(hp0) /\ Untouched(hp0, hp, m)
\* Nothing is kept that is not referred to.
Referred(hp) == \A m \in Live(hp) : hp[m].ref # 0

\* A block is untouched where nothing happened.
LEMMA UntouchedSame ==
    ASSUME NEW hp \in Heaps, NEW m \in Live(hp)
    PROVE  Untouched(hp, hp, m)
BY LiveBlocks, BlockFields DEF Untouched

\* Without force: what nobody refers to any more goes.
LEMMA EmptyUnused ==
    ASSUME NEW hp, NEW ext, NEW rank, Sound(hp, ext, rank), NEW n \in Live(hp),
           \A m \in Live(hp) \ {n} : hp[m].ref # 0,
           NEW new, new = EmptyTheNode(hp, n, FALSE)
    PROVE  Sound(new, ext, rank) /\ Referred(new) /\ Survives(hp, new)
<1>1. /\ hp \in Heaps /\ n \in Node /\ Live(hp) \subseteq Node
      /\ ext[n] \in Nat /\ hp[n].ref = ext[n] + (IF hp[n].parent = Null THEN 0 ELSE 1)
      /\ \A m \in Live(hp) : Untouched(hp, hp, m)
  BY LiveBlocks, UntouchedSame DEF Sound, Counted
<1>2. <<n>> \in Seq(Node) /\ ToSet(<<n>>) = {n} /\ IsInjective(<<n>>)
  BY <1>1 DEF ToSet, IsInjective
<1>3. CASE hp[n].ref = 0
  <2> DEFINE start == [hp |-> hp, todo |-> <<n>>]
             todo == <<n>>
  <2>1. hp[n].parent = Null
    BY <1>1, <1>3
  <2>2. start.hp = hp /\ start.todo = todo /\ start \in LoopRecord
    BY <1>1, <1>2 DEF LoopRecord
  <2>3. todo \in Seq(Node) /\ ToSet(todo) = {n} /\ IsInjective(todo)
    BY <1>2
  <2> HIDE DEF start, todo
  <2>4. LoopSound(start, ext, rank, Node)
    BY <1>1, <2>1, <2>2, <2>3 DEF LoopSound
  <2>5. LoopKeeps(start, hp, FALSE, Node)
    BY <1>1, <2>2 DEF LoopKeeps
  <2>6. start \in LoopStates(hp, ext, rank, FALSE, Node)
    BY <2>2, <2>4, <2>5 DEF LoopStates
  <2>7. ClosedIn(hp, Node)
    BY <1>1 DEF ClosedIn, Sound, Linked
  <2>8. PICK s \in LoopStates(hp, ext, rank, FALSE, Node) : s.todo = <<>> /\ new = s.hp
    BY <1>1, <2>6, <2>7, VisitsEnd DEF start, todo
  <2>9. LoopSound(s, ext, rank, Node) /\ LoopKeeps(s, hp, FALSE, Node)
    BY DEF LoopStates
  <2>10. ToSet(s.todo) = {}
    BY <2>8 DEF ToSet
  <2> QED
    BY <2>8, <2>9, <2>10 DEF LoopSound, LoopKeeps, Referred, Survives
<1>4. CASE hp[n].ref # 0
  <2> DEFINE start == [hp |-> hp, todo |-> <<n>>]
             end == [hp |-> hp, todo |-> <<>>]
             S == {start, end}
  <2>1. Visit(start, FALSE) = end /\ Visit(end, FALSE) = end /\ start.hp = hp /\ end.hp = hp
    <3>1. <<n>> # <<>> /\ Head(<<n>>) = n /\ Tail(<<n>>) = <<>>
      OBVIOUS
    <3> QED
      BY <1>4, <3>1 DEF Visit
  <2>2. (\A s \in S : Visit(s, FALSE) \in S) /\ \A s \in S : s.hp = hp
    <3> HIDE DEF start, end
    <3> QED
      BY <2>1
  <2>3. start \in S
    OBVIOUS
  <2> DEFINE N == Cardinality(Node)
             done == Visits(hp, n, FALSE)
  <2>4. N \in Nat /\ done \in [0..N -> S] /\ new = done[N].hp
    <3>1. [hp |-> hp, todo |-> <<n>>] \in S
      OBVIOUS
    <3>2. \A s \in S : Visit(s, FALSE) \in S
      BY <2>2
    <3> HIDE DEF S
    <3> QED
      BY ZenonT(60), <3>1, <3>2, VisitsStay
  <2>5. done[N] \in S
    <3> HIDE DEF S, done, N
    <3> QED
      BY <2>4
  <2>6. new = hp
    BY <2>2, <2>4, <2>5
  <2> QED
    BY <1>1, <1>4, <2>6 DEF Referred, Survives
<1> QED
  BY <1>3, <1>4

\* With force: what is in G, which is n and everything below it, is emptied.
LEMMA EmptyContent ==
    ASSUME NEW hp, NEW ext, NEW rank, Sound(hp, ext, rank), NEW n \in Live(hp),
           \A m \in Live(hp) \ {n} : hp[m].ref # 0, hp[n].parent = Null,
           NEW G \in SUBSET Node, n \in G, ClosedIn(hp, G),
           \A m \in G : m = n \/ hp[m].parent \in G,
           NEW force \in BOOLEAN,
           NEW new, new = EmptyTheNode(hp, n, force)
    PROVE  /\ Sound(new, ext, rank) /\ Referred(new)
           /\ Live(new) \subseteq Live(hp)
           /\ \A m \in Node \ G : new[m] = hp[m]
           /\ force => \A m \in Live(new) \cap G : Blanked(new, m)
<1>1. /\ hp \in Heaps /\ n \in Node /\ Live(hp) \subseteq Node
      /\ \A m \in Live(hp) : Untouched(hp, hp, m)
  BY LiveBlocks, UntouchedSame DEF Sound
<1> DEFINE start == [hp |-> hp, todo |-> <<n>>]
           todo == <<n>>
<1>2. start.hp = hp /\ start.todo = todo /\ start \in LoopRecord
  BY <1>1 DEF LoopRecord
<1>3. todo \in Seq(Node) /\ ToSet(todo) = {n} /\ IsInjective(todo)
  BY <1>1 DEF ToSet, IsInjective
<1> HIDE DEF start, todo
<1>4. LoopSound(start, ext, rank, G)
  BY <1>1, <1>2, <1>3 DEF LoopSound
<1>5. LoopKeeps(start, hp, force, G)
  BY <1>1, <1>2, <1>3 DEF LoopKeeps
<1>6. start \in LoopStates(hp, ext, rank, force, G)
  BY <1>2, <1>4, <1>5 DEF LoopStates
<1>7. PICK s \in LoopStates(hp, ext, rank, force, G) : s.todo = <<>> /\ new = s.hp
  <2>1. \E s \in LoopStates(hp, ext, rank, force, G) :
           s.todo = <<>> /\ EmptyTheNode(hp, n, force) = s.hp
    BY <1>1, <1>6, VisitsEnd DEF start, todo
  <2> QED
    BY <2>1
<1>8. LoopSound(s, ext, rank, G) /\ LoopKeeps(s, hp, force, G) /\ ToSet(s.todo) = {}
  <2>1. LoopSound(s, ext, rank, G) /\ LoopKeeps(s, hp, force, G)
    BY DEF LoopStates
  <2> QED
    BY <1>7, <2>1 DEF ToSet
<1>9. /\ Sound(new, ext, rank) /\ Referred(new) /\ Live(new) \subseteq Live(hp)
      /\ \A m \in Node \ G : new[m] = hp[m]
      /\ force => \A m \in Live(new) \cap G : Blanked(new, m) \/ new[m].parent \in G
  BY <1>7, <1>8 DEF LoopSound, LoopKeeps, Referred
<1> DEFINE X == {m \in Live(new) \cap G : ~Blanked(new, m)}
           R == {rank[m] : m \in X}
<1>10. force => X = {}
  <2>1. SUFFICES ASSUME force, X # {} PROVE FALSE
    OBVIOUS
  <2>2. \A m \in X : m \in Node /\ rank[m] \in Nat
    BY DEF Sound
  <2>3. R \in SUBSET Nat /\ R # {}
    BY <2>1, <2>2
  <2>4. PICK i \in R : \A j \in R : i <= j
    <3> HIDE DEF R
    <3> QED
      BY <2>3, LeastNatural
  <2>5. PICK m \in X : \A x \in X : rank[m] <= rank[x]
    <3>1. PICK m \in X : i = rank[m]
      BY <2>4
    <3>2. \A x \in X : rank[x] \in R
      OBVIOUS
    <3> HIDE DEF R, X
    <3> QED
      BY <2>4, <3>1, <3>2
  <2> DEFINE p == new[m].parent
  <2>6. m \in Live(new) /\ p \in G /\ p # Null
    BY <1>9, <2>1, <2>5, TreeAssumption
  <2>7. p \in Live(new) /\ m \in ToSet(new[p].child) /\ rank[p] < rank[m]
    BY <1>9, <2>6 DEF Sound, Linked, Ranked
  <2>8. ~Blanked(new, p)
    <3>1. new[p] \in GoodBlock /\ new[p].ref \in Int
      BY <1>9, <2>7, LiveBlocks, BlockFields DEF Sound
    <3>2. new[p].child # <<>>
      <4>1. ToSet(<<>>) = {}
        BY DEF ToSet
      <4> HIDE DEF p
      <4> QED
        BY <2>7, <4>1
    <3> QED
      BY ZenonT(60), <3>1, <3>2, BlankGood DEF Blanked
  <2>9. p \in X
    BY <2>6, <2>7, <2>8
  <2>10. rank[m] <= rank[p] /\ rank[m] \in Nat /\ rank[p] \in Nat
    BY <2>2, <2>5, <2>9
  <2> HIDE DEF p
  <2> QED
    BY <2>7, <2>10
<1> QED
  BY <1>9, <1>10

-----------------------------------------------------------------------------
(* Handles.                                                                *)

\* How many handles refer to each element.
ReferencesOf(h) == [n \in Node |-> Cardinality({g \in Handle : h[g] = n})]

\* One reference more to n.
More(ext, n) == IF n = Null THEN ext ELSE [ext EXCEPT ![n] = @ + 1]
\* One reference less to n.
Fewer(ext, n) == IF n = Null THEN ext ELSE [ext EXCEPT ![n] = @ - 1]

\* The handles' references are naturals, and none is counted that is not there.
LEMMA ReferencesCounted ==
    ASSUME NEW h \in [Handle -> Node \cup {Null}]
    PROVE  /\ ReferencesOf(h) \in [Node -> Nat]
           /\ \A g \in Handle : h[g] # Null => ReferencesOf(h)[h[g]] > 0
           /\ \A n \in Node : ReferencesOf(h)[n] # 0 => \E g \in Handle : h[g] = n
<1>1. ASSUME NEW n \in Node
      PROVE  LET X == {g \in Handle : h[g] = n}
             IN  IsFiniteSet(X) /\ Cardinality(X) \in Nat /\ (X # {} <=> Cardinality(X) # 0)
  <2> DEFINE X == {g \in Handle : h[g] = n}
  <2>1. IsFiniteSet(X)
    BY FS_Subset, TreeAssumption
  <2> HIDE DEF X
  <2>2. Cardinality(X) \in Nat /\ (X # {} <=> Cardinality(X) # 0)
    BY <2>1, FS_CardinalityType, FS_EmptySet
  <2> QED
    BY <2>1, <2>2 DEF X
<1>2. \A n \in Node : ReferencesOf(h)[n] = Cardinality({g \in Handle : h[g] = n})
  BY DEF ReferencesOf
<1>3. ReferencesOf(h) \in [Node -> Nat]
  BY <1>1 DEF ReferencesOf
<1>4. ASSUME NEW g \in Handle, h[g] # Null
      PROVE  ReferencesOf(h)[h[g]] > 0
  <2>1. h[g] \in Node
    BY <1>4
  <2>2. g \in {x \in Handle : h[x] = h[g]}
    OBVIOUS
  <2>3. Cardinality({x \in Handle : h[x] = h[g]}) \in Nat \ {0}
    BY <1>1, <2>1, <2>2
  <2> QED
    BY <1>2, <2>1, <2>3
<1>5. ASSUME NEW n \in Node, ReferencesOf(h)[n] # 0
      PROVE  \E g \in Handle : h[g] = n
  <2>1. {g \in Handle : h[g] = n} # {}
    BY <1>1, <1>2, <1>5
  <2> QED
    BY <2>1
<1> QED
  BY <1>3, <1>4, <1>5

\* A handle that is set to n lets go of what it had.
LEMMA ReferencesMoved ==
    ASSUME NEW h \in [Handle -> Node \cup {Null}], NEW x \in Handle, NEW n \in Node \cup {Null}
    PROVE  /\ [h EXCEPT ![x] = n] \in [Handle -> Node \cup {Null}]
           /\ ReferencesOf([h EXCEPT ![x] = n]) = Fewer(More(ReferencesOf(h), n), h[x])
<1> DEFINE k == [h EXCEPT ![x] = n]
           Set(m) == {g \in Handle : h[g] = m}
           Now(m) == {g \in Handle : k[g] = m}
<1>1. k \in [Handle -> Node \cup {Null}]
  OBVIOUS
<1>2. \A m : IsFiniteSet(Set(m)) /\ Cardinality(Set(m)) \in Nat
  BY FS_Subset, FS_CardinalityType, TreeAssumption
<1>3. h[x] \in Node \cup {Null} /\ Null \notin Node /\ k[x] = n /\ \A g \in Handle \ {x} : k[g] = h[g]
  BY TreeAssumption
<1> HIDE DEF k
<1>4. ASSUME NEW m \in Node
      PROVE  Cardinality(Now(m)) = Cardinality(Set(m)) + (IF m = n THEN 1 ELSE 0)
                                                       - (IF m = h[x] THEN 1 ELSE 0)
  <2>1. CASE m = n /\ m = h[x]
    <3>1. Now(m) = Set(m)
      BY <1>3, <2>1
    <3> HIDE DEF Now, Set
    <3> QED
      BY <1>2, <2>1, <3>1
  <2>2. CASE m = n /\ m # h[x]
    <3>1. Now(m) = Set(m) \cup {x} /\ x \notin Set(m)
      BY <1>3, <2>2
    <3> HIDE DEF Now, Set
    <3>2. Cardinality(Now(m)) = Cardinality(Set(m)) + 1
      BY <1>2, <3>1, FS_AddElement
    <3> QED
      BY <1>2, <2>2, <3>2
  <2>3. CASE m # n /\ m = h[x]
    <3>1. Now(m) = Set(m) \ {x} /\ x \in Set(m)
      BY <1>3, <2>3
    <3> HIDE DEF Now, Set
    <3>2. Cardinality(Now(m)) = Cardinality(Set(m)) - 1
      BY <1>2, <3>1, FS_RemoveElement
    <3> QED
      BY <1>2, <2>3, <3>2
  <2>4. CASE m # n /\ m # h[x]
    <3>1. Now(m) = Set(m)
      BY <1>3, <2>4
    <3> HIDE DEF Now, Set
    <3> QED
      BY <1>2, <2>4, <3>1
  <2> QED
    BY <2>1, <2>2, <2>3, <2>4
<1> DEFINE a == ReferencesOf(h)
           b == Fewer(More(a, n), h[x])
<1>5. \A m \in Node : ReferencesOf(k)[m] = Cardinality(Now(m)) /\ a[m] = Cardinality(Set(m))
  BY DEF ReferencesOf
<1>6. a \in [Node -> Nat]
  BY ReferencesCounted
<1> HIDE DEF a, Now, Set
<1>7. b \in [Node -> Int]
      /\ \A m \in Node : b[m] = a[m] + (IF m = n THEN 1 ELSE 0) - (IF m = h[x] THEN 1 ELSE 0)
  <2> DEFINE c == More(a, n)
  <2>1. c \in [Node -> Int] /\ \A m \in Node : c[m] = a[m] + (IF m = n THEN 1 ELSE 0)
    BY <1>3, <1>6 DEF More
  <2>2. b = Fewer(c, h[x])
    OBVIOUS
  <2> HIDE DEF c
  <2>3. b \in [Node -> Int] /\ \A m \in Node : b[m] = c[m] - (IF m = h[x] THEN 1 ELSE 0)
    <3>1. CASE h[x] = Null
      BY <1>3, <2>1, <2>2, <3>1 DEF Fewer
    <3>2. CASE h[x] # Null
      <4>1. b = [c EXCEPT ![h[x]] = @ - 1] /\ h[x] \in Node
        BY <1>3, <2>2, <3>2 DEF Fewer
      <4> HIDE DEF b
      <4> QED
        BY <2>1, <4>1
    <3> QED
      BY <3>1, <3>2
  <2> HIDE DEF b
  <2>4. ASSUME NEW m \in Node
        PROVE  b[m] = a[m] + (IF m = n THEN 1 ELSE 0) - (IF m = h[x] THEN 1 ELSE 0)
    <3>1. a[m] \in Nat /\ c[m] = a[m] + (IF m = n THEN 1 ELSE 0)
      BY <1>6, <2>1
    <3>2. b[m] = c[m] - (IF m = h[x] THEN 1 ELSE 0)
      BY <2>3
    <3> HIDE DEF b, c
    <3> QED
      BY <3>1, <3>2
  <2> QED
    BY <2>3, <2>4
<1> HIDE DEF b
<1>8. ReferencesOf(k) = [m \in Node |-> ReferencesOf(k)[m]] /\ b = [m \in Node |-> b[m]]
  BY <1>7 DEF ReferencesOf
<1>9. ReferencesOf(k) = b
  BY <1>2, <1>4, <1>5, <1>7, <1>8
<1> QED
  BY <1>1, <1>9 DEF k, b, a

\* One reference more, counted as such.
LEMMA ReferSound ==
    ASSUME NEW hp, NEW ext, NEW rank, Sound(hp, ext, rank), NEW n \in Live(hp)
    PROVE  /\ Sound(Refer(hp, n), More(ext, n), rank)
           /\ Live(Refer(hp, n)) = Live(hp)
           /\ Survives(hp, Refer(hp, n))
           /\ \A m \in Live(hp) : Refer(hp, n)[m].ref = IF m = n THEN hp[m].ref + 1 ELSE hp[m].ref
<1> DEFINE new == Refer(hp, n)
           b == Touched(hp[n], hp[n].ref + 1, hp[n].parent)
           e == More(ext, n)
<1>1. /\ hp \in Heaps /\ n \in Node /\ n # Null /\ Live(hp) \subseteq Node
      /\ ext \in [Node -> Nat]
      /\ \A m \in Live(hp) : hp[m] \in GoodBlock /\ hp[m].ref \in Int /\ hp[m].parent \in Node \cup {Null}
      /\ \A m \in Live(hp) : Untouched(hp, hp, m)
  BY LiveBlocks, BlockFields, UntouchedSame, TreeAssumption DEF Sound
<1>2. /\ new \in Heaps /\ new[n] = b /\ \A m \in Node \ {n} : new[m] = hp[m]
  BY <1>1, ReferHeap
<1>3. /\ b \in GoodBlock /\ b.ref = hp[n].ref + 1 /\ b.parent = hp[n].parent
      /\ b.child = hp[n].child
  <2>1. hp[n] \in GoodBlock /\ hp[n].ref + 1 \in Int /\ hp[n].parent \in Node \cup {Null}
    BY <1>1
  <2> QED
    BY <2>1, TouchedGood
<1>4. e \in [Node -> Nat] /\ \A m \in Node : e[m] = IF m = n THEN ext[m] + 1 ELSE ext[m]
  BY <1>1 DEF More
<1> HIDE DEF new, b, e
<1>5. Live(new) = Live(hp)
  BY <1>1, <1>2, <1>3, LiveBlocks DEF Live
<1>6. \A m \in Live(hp) : /\ m \in Node
                          /\ new[m].parent = hp[m].parent /\ new[m].child = hp[m].child
                          /\ new[m].ref = IF m = n THEN hp[m].ref + 1 ELSE hp[m].ref
  BY <1>1, <1>2, <1>3
<1>7. Linked(new)
  <2>1. \A m \in Live(hp) :
        /\ hp[m].parent # Null =>
              hp[m].parent \in Live(hp) /\ m \in ToSet(hp[hp[m].parent].child)
        /\ \A x \in ToSet(hp[m].child) : x \in Live(hp) /\ hp[x].parent = m
        /\ IsInjective(hp[m].child)
    BY DEF Sound, Linked
  <2> QED
    BY <1>5, <1>6, <2>1 DEF Linked
<1>8. Counted(new, e)
  <2>1. \A m \in Live(hp) : new[m].ref = e[m] + (IF new[m].parent = Null THEN 0 ELSE 1)
    <3> TAKE m \in Live(hp)
    <3>1. hp[m].ref = ext[m] + (IF hp[m].parent = Null THEN 0 ELSE 1) /\ ext[m] \in Nat
      BY <1>1 DEF Sound, Counted
    <3> QED
      BY <1>4, <1>6, <3>1
  <2> QED
    BY <1>4, <1>5, <2>1 DEF Sound, Counted
<1>9. Ranked(new, rank)
  BY <1>5, <1>6 DEF Sound, Ranked
<1>10. Survives(hp, new)
  BY <1>1, <1>2, <1>3, <1>5 DEF Survives, Untouched, b
<1> QED
  BY <1>2, <1>4, <1>5, <1>6, <1>7, <1>8, <1>9, <1>10 DEF Sound, new, e

\* One reference less to n.
Less(hp, n) == [hp EXCEPT ![n].ref = @ - 1]

\* One reference less to an element that is referred to.
LEMMA LessSound ==
    ASSUME NEW hp, NEW ext, NEW rank, Sound(hp, ext, rank), NEW n \in Live(hp), ext[n] > 0
    PROVE  /\ Sound(Less(hp, n), Fewer(ext, n), rank)
           /\ Live(Less(hp, n)) = Live(hp)
           /\ Survives(hp, Less(hp, n))
           /\ \A m \in Live(hp) : m # n => Less(hp, n)[m].ref = hp[m].ref
<1> DEFINE new == Less(hp, n)
           b == Touched(hp[n], hp[n].ref - 1, hp[n].parent)
           e == Fewer(ext, n)
<1>1. /\ hp \in Heaps /\ n \in Node /\ n # Null /\ Live(hp) \subseteq Node
      /\ ext \in [Node -> Nat]
      /\ \A m \in Live(hp) : hp[m] \in GoodBlock /\ hp[m].ref \in Int /\ hp[m].parent \in Node \cup {Null}
      /\ \A m \in Live(hp) : Untouched(hp, hp, m)
  BY LiveBlocks, BlockFields, UntouchedSame, TreeAssumption DEF Sound
<1>2. /\ b \in GoodBlock /\ b.ref = hp[n].ref - 1 /\ b.parent = hp[n].parent
      /\ b.child = hp[n].child
  <2>1. hp[n] \in GoodBlock /\ hp[n].ref - 1 \in Int /\ hp[n].parent \in Node \cup {Null}
    BY <1>1
  <2> QED
    BY <2>1, TouchedGood
<1>3. /\ new \in Heaps /\ new[n] = b /\ \A m \in Node \ {n} : new[m] = hp[m]
  <2>1. b = [hp[n] EXCEPT !.ref = @ - 1]
    BY <1>1, BlockFields DEF Touched, Block
  <2> HIDE DEF b
  <2>2. new = [hp EXCEPT ![n] = b]
    BY <1>1, <2>1 DEF Less, Heaps
  <2> HIDE DEF new
  <2> QED
    BY <1>1, <1>2, <2>2 DEF Heaps
<1>4. e \in [Node -> Nat] /\ \A m \in Node : e[m] = IF m = n THEN ext[m] - 1 ELSE ext[m]
  BY <1>1 DEF Fewer
<1> HIDE DEF new, b, e
<1>5. Live(new) = Live(hp)
  BY <1>1, <1>2, <1>3, LiveBlocks DEF Live
<1>6. \A m \in Live(hp) : /\ m \in Node
                          /\ new[m].parent = hp[m].parent /\ new[m].child = hp[m].child
                          /\ new[m].ref = IF m = n THEN hp[m].ref - 1 ELSE hp[m].ref
  BY <1>1, <1>2, <1>3
<1>7. Linked(new)
  <2>1. \A m \in Live(hp) :
        /\ hp[m].parent # Null =>
              hp[m].parent \in Live(hp) /\ m \in ToSet(hp[hp[m].parent].child)
        /\ \A x \in ToSet(hp[m].child) : x \in Live(hp) /\ hp[x].parent = m
        /\ IsInjective(hp[m].child)
    BY DEF Sound, Linked
  <2> QED
    BY <1>5, <1>6, <2>1 DEF Linked
<1>8. Counted(new, e)
  <2>1. \A m \in Live(hp) : new[m].ref = e[m] + (IF new[m].parent = Null THEN 0 ELSE 1)
    <3> TAKE m \in Live(hp)
    <3>1. hp[m].ref = ext[m] + (IF hp[m].parent = Null THEN 0 ELSE 1) /\ ext[m] \in Nat
      BY <1>1 DEF Sound, Counted
    <3> QED
      BY <1>4, <1>6, <3>1
  <2> QED
    BY <1>4, <1>5, <2>1 DEF Sound, Counted
<1>9. Ranked(new, rank)
  BY <1>5, <1>6 DEF Sound, Ranked
<1>10. Survives(hp, new)
  BY <1>1, <1>2, <1>3, <1>5 DEF Survives, Untouched, b
<1> QED
  BY <1>3, <1>4, <1>5, <1>6, <1>7, <1>8, <1>9, <1>10 DEF Sound, new, e

\* What survives two steps survives both.
LEMMA SurvivesTwice ==
    ASSUME NEW hp1 \in Heaps, NEW hp2 \in Heaps, NEW hp3 \in Heaps,
           Survives(hp1, hp2), Survives(hp2, hp3)
    PROVE  Survives(hp1, hp3)
<1> SUFFICES ASSUME NEW m \in Live(hp3)
             PROVE  m \in Live(hp1) /\ Untouched(hp1, hp3, m)
  BY DEF Survives
<1>1. m \in Live(hp2) /\ hp3[m] = Touched(hp2[m], hp3[m].ref, hp3[m].parent)
  BY DEF Survives, Untouched
<1>2. m \in Live(hp1) /\ hp2[m] = Touched(hp1[m], hp2[m].ref, hp2[m].parent)
  BY <1>1 DEF Survives, Untouched
<1>3. hp1[m] \in Block
  BY <1>2, LiveBlocks, BlockFields
<1>4. \A r1, p1, r2, p2 : Touched(Touched(hp1[m], r1, p1), r2, p2) = Touched(hp1[m], r2, p2)
  BY <1>3 DEF Touched, Block
<1> QED
  BY <1>1, <1>2, <1>4 DEF Untouched

\* ~XMLNode and operator=: an element lost its reference, and what is not referred to
\* any more is gone, with everything that only it held.
LEMMA ReleaseSound ==
    ASSUME NEW hp, NEW ext, NEW rank, Sound(hp, ext, rank),
           NEW n \in Live(hp) \cup {Null}, n # Null => ext[n] > 0,
           \A m \in Live(hp) \ {n} : hp[m].ref # 0,
           NEW new, new = Release(hp, n)
    PROVE  Sound(new, Fewer(ext, n), rank) /\ Referred(new) /\ Survives(hp, new)
<1>1. hp \in Heaps /\ Null \notin Live(hp) /\ \A m \in Live(hp) : Untouched(hp, hp, m)
  BY LiveBlocks, UntouchedSame, TreeAssumption DEF Sound
<1>2. CASE n = Null
  BY <1>1, <1>2 DEF Release, Fewer, Referred, Survives
<1>3. CASE n # Null
  <2> DEFINE less == Less(hp, n)
  <2>1. n \in Live(hp) /\ new = EmptyTheNode(less, n, FALSE)
    BY <1>3 DEF Release, Less
  <2>2. /\ Sound(less, Fewer(ext, n), rank) /\ Live(less) = Live(hp) /\ Survives(hp, less)
        /\ \A m \in Live(hp) : m # n => less[m].ref = hp[m].ref
    BY <1>3, <2>1, LessSound
  <2> HIDE DEF less
  <2>3. Sound(new, Fewer(ext, n), rank) /\ Referred(new) /\ Survives(less, new)
    BY <2>1, <2>2, EmptyUnused
  <2>4. less \in Heaps /\ new \in Heaps
    BY <2>2, <2>3 DEF Sound
  <2> QED
    BY <1>1, <2>2, <2>3, <2>4, SurvivesTwice
<1> QED
  BY <1>2, <1>3

\* What is in the heap is sound, and referred to.
Shape(hp, k) ==
    /\ k \in [Handle -> Node \cup {Null}]
    /\ Referred(hp)
    /\ \E rank : Sound(hp, ReferencesOf(k), rank)

\* operator=, from the new reference to the release of the old one.
LEMMA PutSound ==
    ASSUME NEW hp, NEW k \in [Handle -> Node \cup {Null}], NEW rank,
           Sound(hp, ReferencesOf(k), rank),
           NEW x \in Handle, NEW n \in Live(hp) \cup {Null},
           \A m \in Live(hp) \ {n} : hp[m].ref # 0,
           NEW new, new = Release(Refer(hp, n), k[x]),
           NEW k2, k2 = [k EXCEPT ![x] = n]
    PROVE  Shape(new, k2) /\ Survives(hp, new)
<1> DEFINE ext == ReferencesOf(k)
           e == More(ext, n)
           mid == Refer(hp, n)
           old == k[x]
<1>1. /\ hp \in Heaps /\ Live(hp) \subseteq Node /\ Null \notin Node
      /\ \A m \in Live(hp) : Untouched(hp, hp, m) /\ hp[m].ref \in Int
  BY LiveBlocks, BlockFields, UntouchedSame, TreeAssumption DEF Sound
<1>2. /\ ext \in [Node -> Nat] /\ \A m \in Node \ Live(hp) : ext[m] = 0
      /\ \A m \in Live(hp) : hp[m].ref = ext[m] + (IF hp[m].parent = Null THEN 0 ELSE 1)
  BY DEF Sound, Counted
<1>3. old # Null => old \in Live(hp) /\ ext[old] > 0
  <2>1. old # Null => old \in Node /\ ext[old] > 0
    BY ReferencesCounted
  <2> HIDE DEF ext, old
  <2> QED
    BY <1>2, <2>1
<1>4. /\ Sound(mid, e, rank) /\ Live(mid) = Live(hp) /\ Survives(hp, mid)
      /\ \A m \in Live(hp) : mid[m].ref = IF m = n THEN hp[m].ref + 1 ELSE hp[m].ref
  <2>1. CASE n = Null
    BY <1>1, <2>1 DEF Refer, More, Survives
  <2>2. CASE n # Null
    <3>1. n \in Live(hp)
      BY <2>2
    <3> QED
      BY <3>1, ReferSound
  <2> QED
    BY <2>1, <2>2
<1>5. old # Null => e[old] > 0
  <2> HIDE DEF ext, old
  <2>1. n # Null => n \in Node
    BY <1>1
  <2>2. ASSUME old # Null
        PROVE  old \in Node /\ ext[old] \in Nat /\ ext[old] > 0
    BY <1>1, <1>2, <1>3, <2>2
  <2>3. ASSUME old # Null
        PROVE  e[old] = ext[old] \/ e[old] = ext[old] + 1
    BY <1>2, <2>1, <2>2, <2>3 DEF More
  <2> HIDE DEF e
  <2> QED
    BY <2>2, <2>3
<1>6. \A m \in Live(mid) \ {old} : mid[m].ref # 0
  <2> HIDE DEF mid, ext, old
  <2> TAKE m \in Live(mid) \ {old}
  <2>1. CASE m = n
    <3>1. ext[m] \in Nat /\ hp[m].ref = ext[m] + (IF hp[m].parent = Null THEN 0 ELSE 1)
      BY <1>1, <1>2, <1>4
    <3>2. mid[m].ref = hp[m].ref + 1
      BY <1>4, <2>1
    <3> QED
      BY <3>1, <3>2
  <2>2. CASE m # n
    BY <1>4, <2>2
  <2> QED
    BY <2>1, <2>2
<1>7. Sound(new, Fewer(e, old), rank) /\ Referred(new) /\ Survives(mid, new)
  <2> HIDE DEF mid, e, ext
  <2>1. old \in Live(mid) \cup {Null} /\ new = Release(mid, old)
    BY <1>3, <1>4 DEF mid
  <2> HIDE DEF old
  <2> QED
    BY <1>4, <1>5, <1>6, <2>1, ReleaseSound
<1>8. n \in Node \cup {Null}
  BY <1>1
<1>9. k2 \in [Handle -> Node \cup {Null}] /\ ReferencesOf(k2) = Fewer(e, old)
  BY <1>8, ReferencesMoved
<1>10. Survives(hp, new)
  <2>1. mid \in Heaps /\ new \in Heaps
    BY <1>4, <1>7 DEF Sound
  <2> HIDE DEF mid, e, old
  <2> QED
    BY <1>1, <1>4, <1>7, <2>1, SurvivesTwice
<1> QED
  BY <1>7, <1>9, <1>10 DEF Shape

-----------------------------------------------------------------------------
(* The invariant.                                                          *)

\* The inductive invariant.
TreeInv == Shape(heap, held)

\* TreeInv with the ranks named.
Ordered(rank) ==
    /\ Sound(heap, ReferencesOf(held), rank) /\ Referred(heap)
    /\ held \in [Handle -> Node \cup {Null}]

\* A handle refers to a live element: never to freed memory.
LEMMA HandlesLive ==
    ASSUME NEW rank, Ordered(rank), NEW h \in Handle, held[h] # Null
    PROVE  held[h] \in Live(heap)
<1>1. held[h] \in Node /\ ReferencesOf(held)[held[h]] > 0
  BY ReferencesCounted DEF Ordered
<1>2. held[h] \notin Live(heap) => ReferencesOf(held)[held[h]] = 0
  BY <1>1 DEF Ordered, Sound, Counted
<1> QED
  BY <1>1, <1>2

\* The empty heap has the invariant.
LEMMA InitTree == Init => TreeInv
<1> SUFFICES ASSUME Init PROVE TreeInv
  OBVIOUS
<1>1. /\ heap \in [Node -> {Free}] /\ held \in [Handle -> Node \cup {Null}]
      /\ \A h \in Handle : held[h] = Null
  BY DEF Init
<1>2. heap \in Heaps /\ Live(heap) = {}
  BY <1>1 DEF Heaps, Live
<1>3. ReferencesOf(held) \in [Node -> Nat] /\ \A n \in Node : ReferencesOf(held)[n] = 0
  <2>1. \A n \in Node : ReferencesOf(held)[n] # 0 => \E g \in Handle : held[g] = n
    BY <1>1, ReferencesCounted
  <2> QED
    BY <1>1, <2>1, ReferencesCounted, TreeAssumption
<1>4. \E rank : rank \in [Node -> Nat]
  <2>1. [n \in Node |-> 0] \in [Node -> Nat]
    OBVIOUS
  <2> QED
    BY <2>1
<1>5. PICK rank : rank \in [Node -> Nat]
  BY <1>4
<1>6. Sound(heap, ReferencesOf(held), rank)
  BY <1>2, <1>3, <1>5 DEF Sound, Linked, Counted, Ranked
<1> QED
  BY <1>1, <1>2, <1>6 DEF TreeInv, Shape, Referred

-----------------------------------------------------------------------------
(* What a block says it holds.                                             *)

\* One content: a child, or a text.
Item == [type : Types, is : Node \cup Value]
ItemOf(type, x) == [type |-> type, is |-> x]
At(b, k) == ItemOf(b.order[k].type, b[b.order[k].type][b.order[k].index + 1])

\* Contents, entry by entry.
LEMMA ContentsFields ==
    ASSUME NEW b \in GoodBlock
    PROVE  /\ Contents(b) \in Seq(Item)
           /\ Len(b.order) \in Nat /\ DOMAIN b.order = 1..Len(b.order)
           /\ Len(Contents(b)) = Len(b.order) /\ DOMAIN Contents(b) = 1..Len(b.order)
           /\ \A k \in 1..Len(b.order) :
                 /\ Contents(b)[k] = At(b, k)
                 /\ b.order[k].type \in Types /\ b.order[k].index \in Nat
                 /\ k \in Entries(b, b.order[k].type)
                 /\ b.order[k].index + 1 \in 1..Len(b[b.order[k].type])
<1>1. b \in Block /\ InOrder(b) /\ b.order \in Seq(OrderEntry)
  BY BlockFields DEF GoodBlock
<1>2. DOMAIN b.order = 1..Len(b.order) /\ Len(b.order) \in Nat
      /\ \A k \in DOMAIN b.order : b.order[k].type \in Types /\ b.order[k].index \in Nat
  <2>1. DOMAIN b.order = 1..Len(b.order) /\ Len(b.order) \in Nat
        /\ \A k \in DOMAIN b.order : b.order[k] \in OrderEntry
    BY <1>1
  <2> QED
    BY <2>1 DEF OrderEntry
<1> DEFINE items == Contents(b)
<1>3. items = [k \in 1..Len(b.order) |-> At(b, k)]
  BY <1>2 DEF Contents, At, ItemOf
<1>4. ASSUME NEW k \in 1..Len(b.order)
      PROVE  /\ k \in Entries(b, b.order[k].type)
             /\ b.order[k].index + 1 \in 1..Len(b[b.order[k].type])
             /\ At(b, k) \in Item
  <2> DEFINE t == b.order[k].type
             x == b.order[k].index
  <2>1. t \in Types /\ x \in Nat /\ k \in Entries(b, t)
    BY <1>2 DEF Entries
  <2>2. x \in {b.order[j].index : j \in Entries(b, t)}
    BY <2>1
  <2>3. x \in 0..Len(b[t]) - 1
    BY <1>1, <2>1, <2>2 DEF InOrder
  <2>4. b[t] \in Seq(ContentOf(t))
    BY <1>1, <2>1, FieldTypes
  <2> HIDE DEF t, x
  <2> DEFINE s == b[t]
  <2>5. s \in Seq(ContentOf(t)) /\ x \in 0..Len(s) - 1
    BY <2>3, <2>4
  <2> HIDE DEF s
  <2>6. x + 1 \in 1..Len(s) /\ s[x + 1] \in ContentOf(t)
    BY <2>5
  <2>7. s[x + 1] \in Node \cup Value
    BY <2>6 DEF ContentOf
  <2>8. ItemOf(t, s[x + 1]) \in Item
    BY <2>1, <2>7 DEF ItemOf, Item
  <2> QED
    BY <2>1, <2>6, <2>8 DEF At, t, x, s
<1>5. items \in [1..Len(b.order) -> Item] /\ \A k \in 1..Len(b.order) : items[k] = At(b, k)
  BY <1>3, <1>4
<1> HIDE DEF items
<1>6. items \in Seq(Item) /\ Len(items) = Len(b.order) /\ DOMAIN items = 1..Len(b.order)
  BY <1>2, <1>5
<1> QED
  BY <1>2, <1>4, <1>5, <1>6 DEF items

\* Two sequences are the same if their elements are.
LEMMA SameSequence ==
    ASSUME NEW S, NEW s \in Seq(S), NEW t \in Seq(S), Len(s) = Len(t),
           \A k \in 1..Len(s) : s[k] = t[k]
    PROVE  s = t
OBVIOUS

\* addToOrder puts the new content behind the others.
LEMMA ContentsAdded ==
    ASSUME NEW b \in GoodBlock, NEW type \in Types, NEW item \in ContentOf(type)
    PROVE  Contents(AddToOrder(b, type, item)) = Append(Contents(b), ItemOf(type, item))
<1> DEFINE c == AddToOrder(b, type, item)
           N == Len(b.order)
           e == Entry(type, Len(b[type]))
           x == ItemOf(type, item)
           s == Contents(b)
           r == Contents(c)
<1>1. /\ c \in GoodBlock
      /\ c[type] = Append(b[type], item)
      /\ c.order = Append(b.order, e)
      /\ \A t \in Types \ {type} : c[t] = b[t]
  BY AddedGood
<1>2. /\ b[type] \in Seq(ContentOf(type)) /\ b.order \in Seq(OrderEntry)
      /\ e \in OrderEntry /\ e.type = type /\ e.index = Len(b[type])
      /\ Len(b[type]) \in Nat
  <2>1. b[type] \in Seq(ContentOf(type)) /\ b.order \in Seq(OrderEntry)
    BY FieldTypes, BlockFields
  <2>2. Len(b[type]) \in Nat
    BY <2>1
  <2> QED
    BY <2>1, <2>2 DEF Entry, OrderEntry
<1>3. /\ s \in Seq(Item) /\ Len(s) = N /\ N \in Nat
      /\ \A k \in 1..N : /\ s[k] = At(b, k)
                         /\ b.order[k].type \in Types /\ b.order[k].index \in Nat
                         /\ b.order[k].index + 1 \in 1..Len(b[b.order[k].type])
  BY ContentsFields
<1> HIDE DEF c, s, e
<1>4. /\ r \in Seq(Item) /\ Len(r) = Len(c.order)
      /\ \A k \in 1..Len(c.order) : r[k] = At(c, k)
  BY <1>1, ContentsFields
<1>5. /\ Len(c.order) = N + 1 /\ c.order[N + 1] = e
      /\ \A k \in 1..N : c.order[k] = b.order[k]
  BY <1>1, <1>2, <1>3
<1>6. \A k \in 1..N : r[k] = s[k]
  <2> TAKE k \in 1..N
  <2> DEFINE t == b.order[k].type
             i == b.order[k].index
  <2>1. t \in Types /\ i \in Nat /\ i + 1 \in 1..Len(b[t]) /\ c.order[k].type = t /\ c.order[k].index = i
    BY <1>3, <1>5
  <2> HIDE DEF t, i
  <2>2. c[t][i + 1] = b[t][i + 1]
    <3>1. CASE t = type
      <4> DEFINE u == b[type]
      <4>1. u \in Seq(ContentOf(type)) /\ i + 1 \in 1..Len(u) /\ c[t] = Append(u, item)
        BY <1>1, <1>2, <2>1, <3>1
      <4> HIDE DEF u
      <4>2. Append(u, item)[i + 1] = u[i + 1]
        BY <4>1
      <4> QED
        BY <3>1, <4>1, <4>2 DEF u
    <3>2. CASE t # type
      BY <1>1, <2>1, <3>2
    <3> QED
      BY <3>1, <3>2
  <2>3. At(c, k) = At(b, k)
    BY <2>1, <2>2 DEF At, t, i
  <2>4. k \in 1..Len(c.order)
    BY <1>3, <1>5
  <2> QED
    BY <1>3, <1>4, <2>3, <2>4
<1>7. r[N + 1] = x
  <2>1. N + 1 \in 1..Len(c.order)
    BY <1>3, <1>5
  <2>2. c[type][Len(b[type]) + 1] = item
    BY <1>1, <1>2
  <2>3. At(c, N + 1) = ItemOf(type, item)
    BY <1>2, <1>5, <2>2 DEF At
  <2> QED
    BY <1>4, <2>1, <2>3
<1>8. x \in Item
  BY DEF ContentOf, ItemOf, Item
<1> HIDE DEF x, r, N
<1>9. Append(s, x) \in Seq(Item) /\ Len(Append(s, x)) = N + 1
      /\ \A k \in 1..N : Append(s, x)[k] = s[k]
      /\ Append(s, x)[N + 1] = x
  BY <1>3, <1>8
<1>10. r = Append(s, x)
  <2> DEFINE q == Append(s, x)
  <2>1. q \in Seq(Item) /\ Len(q) = N + 1 /\ \A k \in 1..N : q[k] = r[k]
    BY <1>6, <1>9
  <2>2. q[N + 1] = r[N + 1]
    BY <1>7, <1>9
  <2> HIDE DEF q
  <2>3. \A k \in 1..Len(q) : q[k] = r[k]
    BY <1>3, <2>1, <2>2
  <2>4. r \in Seq(Item) /\ Len(q) = Len(r)
    BY <1>4, <1>5, <2>1
  <2>5. q = r
    BY <2>1, <2>3, <2>4, SameSequence
  <2> QED
    BY <2>5 DEF q
<1> QED
  BY <1>10 DEF r, s, c, x

\* removeOrderElement, and the deletion from the array, take one content out.
LEMMA ContentsDeleted ==
    ASSUME NEW b \in GoodBlock, NEW type \in Types, NEW i \in 0..Len(b[type]) - 1
    PROVE  /\ FindPosition(b, type, i) \in 1..Len(b.order)
           /\ Contents(b)[FindPosition(b, type, i)] = ItemOf(type, b[type][i + 1])
           /\ Contents(DeleteItem(b, type, i)) = RemoveAt(Contents(b), FindPosition(b, type, i))
<1> DEFINE c == DeleteItem(b, type, i)
           N == Len(b.order)
           k == FindPosition(b, type, i)
           o == RemoveOrderElement(b, type, i)
           s == Contents(b)
           r == Contents(c)
<1>1. /\ c \in GoodBlock
      /\ c[type] = RemoveAt(b[type], i + 1)
      /\ c.order = o
      /\ \A t \in Types \ {type} : c[t] = b[t]
  BY DeletedGood
<1>2. /\ k \in 1..N /\ b.order[k].type = type /\ b.order[k].index = i
      /\ Len(o) = N - 1
      /\ \A j \in 1..N - 1 : o[j] = Shifted(b.order[Source(j, k)], type, i)
  <2>1. k = FindPosition(b, type, i) /\ o = RemoveOrderElement(b, type, i)
    OBVIOUS
  <2> HIDE DEF k, o
  <2> QED
    BY <2>1, DeletedOrder
<1>3. /\ s \in Seq(Item) /\ Len(s) = N /\ N \in Nat
      /\ \A j \in 1..N : /\ s[j] = At(b, j)
                         /\ b.order[j].type \in Types /\ b.order[j].index \in Nat
                         /\ j \in Entries(b, b.order[j].type)
                         /\ b.order[j].index + 1 \in 1..Len(b[b.order[j].type])
  BY ContentsFields
<1>4. b[type] \in Seq(ContentOf(type)) /\ Len(b[type]) \in Nat /\ i + 1 \in 1..Len(b[type])
  BY FieldTypes DEF GoodBlock
<1>5. \A x, y \in Entries(b, type) : x < y => b.order[x].index < b.order[y].index
  BY DEF GoodBlock, InOrder
<1> HIDE DEF c, k, o, s, N
<1>6. /\ r \in Seq(Item) /\ Len(r) = Len(c.order)
      /\ \A j \in 1..Len(c.order) : r[j] = At(c, j)
  BY <1>1, ContentsFields
<1>7. ASSUME NEW j \in 1..N - 1
      PROVE  r[j] = s[Source(j, k)]
  <2> DEFINE y == Source(j, k)
             t == b.order[y].type
             x == b.order[y].index
  <2>1. y \in 1..N /\ y # k
    BY <1>2, <1>3 DEF Source
  <2> HIDE DEF y
  <2>2. t \in Types /\ x \in Nat /\ y \in Entries(b, t) /\ x + 1 \in 1..Len(b[t])
    BY <1>3, <2>1
  <2>3. c.order[j] = Shifted(b.order[y], type, i)
    BY <1>1, <1>2 DEF y
  <2>4. j \in 1..Len(c.order)
    BY <1>1, <1>2
  <2>5. CASE t # type
    <3>1. c.order[j] = b.order[y]
      BY <2>3, <2>5 DEF Shifted
    <3>2. c[t] = b[t]
      BY <1>1, <2>2, <2>5
    <3>3. At(c, j) = At(b, y)
      BY <3>1, <3>2 DEF At
    <3> QED
      BY <1>3, <1>6, <2>1, <2>4, <3>3 DEF y
  <2>6. CASE t = type
    <3>1. x # i
      <4>1. k \in Entries(b, type) /\ y \in Entries(b, type) /\ k \in Int /\ y \in Int
        BY <1>2, <1>3, <2>1, <2>2, <2>6
      <4>2. k < y \/ y < k
        BY <2>1, <4>1
      <4>3. b.order[k].index = i /\ i \in Int
        BY <1>2
      <4>4. CASE k < y
        <5>1. b.order[k].index < b.order[y].index
          BY <1>5, <4>1, <4>4
        <5> QED
          BY <4>3, <5>1
      <4>5. CASE y < k
        <5>1. b.order[y].index < b.order[k].index
          BY <1>5, <4>1, <4>5
        <5> QED
          BY <4>3, <5>1
      <4> QED
        BY <4>2, <4>4, <4>5
    <3>2. b.order[y] \in OrderEntry
      <4>1. b.order \in Seq(OrderEntry) /\ y \in DOMAIN b.order
        BY <2>1, BlockFields, ContentsFields DEF N
      <4> QED
        BY <4>1
    <3>3. /\ c.order[j].type = type
          /\ c.order[j].index = IF x > i THEN x - 1 ELSE x
      BY <2>3, <2>6, <3>2 DEF Shifted, OrderEntry
    <3> DEFINE z == IF x > i THEN x - 1 ELSE x
               u == b[type]
    <3>4. z + 1 \in 1..Len(u) - 1 /\ u[x + 1] = IF z + 1 < i + 1 THEN u[z + 1] ELSE u[z + 1 + 1]
      <4>1. i \in Int /\ x \in Nat /\ x + 1 \in 1..Len(u) /\ x # i /\ Len(u) \in Nat /\ i + 1 \in 1..Len(u)
        BY <1>4, <2>2, <2>6, <3>1
      <4> HIDE DEF u, x
      <4>2. CASE x > i
        <5>1. z + 1 \in 1..Len(u) - 1 /\ ~(z + 1 < i + 1) /\ z + 1 + 1 = x + 1
          BY <4>1, <4>2
        <5> QED
          BY <5>1
      <4>3. CASE ~(x > i)
        <5>1. z + 1 \in 1..Len(u) - 1 /\ z + 1 < i + 1 /\ z + 1 = x + 1
          BY <4>1, <4>3
        <5> QED
          BY <5>1
      <4> QED
        BY <4>2, <4>3
    <3>5. RemoveAt(u, i + 1)[z + 1] = u[x + 1]
      <4>1. /\ u \in Seq(ContentOf(type)) /\ i + 1 \in 1..Len(u)
        BY <1>4
      <4> HIDE DEF u, z, x
      <4>2. \A l \in 1..Len(u) - 1 : RemoveAt(u, i + 1)[l] = IF l < i + 1 THEN u[l] ELSE u[l + 1]
        BY <4>1, RemovedAt
      <4> QED
        BY <3>4, <4>2
    <3>6. At(c, j) = At(b, y)
      <4>1. c[type][z + 1] = b[type][x + 1]
        BY <1>1, <3>5
      <4>2. c.order[j].type = type /\ c.order[j].index = z /\ b.order[y].type = type /\ b.order[y].index = x
        BY <2>6, <3>3
      <4> HIDE DEF z, x, u
      <4> QED
        BY <4>1, <4>2 DEF At
    <3> QED
      BY <1>3, <1>6, <2>1, <2>4, <3>6 DEF y
  <2> QED
    BY <2>5, <2>6
<1>8. s[k] = ItemOf(type, b[type][i + 1])
  BY <1>2, <1>3 DEF At
<1> HIDE DEF r
<1> DEFINE q == RemoveAt(s, k)
<1>9. q \in Seq(Item) /\ Len(q) = N - 1
      /\ \A j \in 1..N - 1 : q[j] = IF j < k THEN s[j] ELSE s[j + 1]
  BY <1>2, <1>3, RemovedAt
<1>10. \A j \in 1..N - 1 : q[j] = s[Source(j, k)]
  BY <1>9 DEF Source
<1> HIDE DEF q
<1>11. r = q
  <2>1. Len(r) = N - 1 /\ \A j \in 1..Len(q) : q[j] = r[j]
    BY <1>1, <1>2, <1>6, <1>7, <1>9, <1>10
  <2> QED
    BY <1>6, <1>9, <2>1, SameSequence
<1> QED
  BY <1>2, <1>8, <1>11 DEF N, k, r, q, s, c

\* An item of a block's contents is one of the document's.
LEMMA ItemFields ==
    ASSUME NEW t, NEW x, NEW u, NEW y
    PROVE  /\ ItemOf(t, x) = ItemOf(u, y) <=> t = u /\ x = y
           /\ ItemOf(t, x).type = t /\ ItemOf(t, x).is = x
           /\ Document!Child(x) = ItemOf("child", x)
           /\ Document!Leaf(t, x) = ItemOf(t, x)
BY DEF ItemOf, Document!Child, Document!Leaf

\* Counts and parents have nothing to do with the contents.
LEMMA ContentsTouched ==
    ASSUME NEW b \in GoodBlock, NEW r \in Int, NEW p \in Node \cup {Null}
    PROVE  Contents(Touched(b, r, p)) = Contents(b)
<1> DEFINE c == Touched(b, r, p)
           s == Contents(b)
           u == Contents(c)
<1>1. c \in GoodBlock /\ c.order = b.order /\ \A type \in Types : c[type] = b[type]
  BY TouchedGood
<1>2. /\ s \in Seq(Item) /\ Len(s) = Len(b.order)
      /\ \A k \in 1..Len(b.order) : s[k] = At(b, k) /\ b.order[k].type \in Types
  BY ContentsFields
<1> HIDE DEF c, s
<1>3. /\ u \in Seq(Item) /\ Len(u) = Len(c.order)
      /\ \A k \in 1..Len(c.order) : u[k] = At(c, k)
  BY <1>1, ContentsFields
<1>4. \A k \in 1..Len(b.order) : At(c, k) = At(b, k)
  BY <1>1, <1>2 DEF At
<1> HIDE DEF u
<1>5. Len(s) = Len(u) /\ \A k \in 1..Len(s) : s[k] = u[k]
  BY <1>1, <1>2, <1>3, <1>4
<1>6. s = u
  BY <1>2, <1>3, <1>5, SameSequence
<1> QED
  BY <1>6 DEF s, u, c

\* A block with an empty order has no contents.
LEMMA NoContents ==
    ASSUME NEW b \in GoodBlock, b.order = <<>>
    PROVE  Contents(b) = <<>>
<1>1. Contents(b) \in Seq(Item) /\ Len(Contents(b)) = Len(b.order)
  BY ContentsFields
<1> DEFINE s == Contents(b)
<1>2. s \in Seq(Item) /\ Len(s) = 0
  BY <1>1
<1> HIDE DEF s
<1>3. s = <<>>
  BY <1>2
<1> QED
  BY <1>3 DEF s

\* The entry of a content is where FindPosition says.
LEMMA EntryFound ==
    ASSUME NEW b \in GoodBlock, NEW type \in Types, NEW i \in 1..Len(b[type])
    PROVE  LET k == FindPosition(b, type, i - 1)
           IN  /\ k \in 1..Len(b.order) /\ b.order[k].type = type /\ b.order[k].index = i - 1
               /\ Contents(b)[k] = ItemOf(type, b[type][i])
<1> DEFINE x == i - 1
           k == FindPosition(b, type, x)
<1>1. b[type] \in Seq(ContentOf(type))
  BY FieldTypes, BlockFields
<1>2. Len(b[type]) \in Nat
  BY <1>1
<1>3. x \in 0..Len(b[type]) - 1 /\ x + 1 = i
  BY <1>2
<1> HIDE DEF x
<1>4. k \in 1..Len(b.order) /\ b.order[k].type = type /\ b.order[k].index = x
  BY <1>3, DeletedOrder
<1>5. Contents(b)[k] = ItemOf(type, b[type][x + 1])
  BY <1>3, ContentsDeleted
<1> QED
  BY <1>3, <1>4, <1>5 DEF x

\* The elements among the contents are those in the array, and each entry has its own.
LEMMA ChildContents ==
    ASSUME NEW b \in GoodBlock, NEW x
    PROVE  /\ Document!Child(x) \in ToSet(Contents(b)) <=> x \in ToSet(b.child)
           /\ \A k \in DOMAIN Contents(b) :
                 Contents(b)[k] = Document!Child(x) =>
                    \E i \in 1..Len(b.child) : b.child[i] = x /\ b.order[k] = Entry("child", i - 1)
<1>1. "child" \in Types /\ b["child"] = b.child /\ b.child \in Seq(Node)
  BY BlockFields DEF Types
<1>2. /\ DOMAIN Contents(b) = 1..Len(b.order)
      /\ \A k \in 1..Len(b.order) :
            /\ Contents(b)[k] = ItemOf(b.order[k].type, b[b.order[k].type][b.order[k].index + 1])
            /\ b.order[k].type \in Types /\ b.order[k].index \in Nat
            /\ b.order[k].index + 1 \in 1..Len(b[b.order[k].type])
  BY ContentsFields DEF At
<1>3. b.order \in Seq(OrderEntry) /\ DOMAIN b.order = 1..Len(b.order)
  BY BlockFields, ContentsFields
<1>4. Document!Child(x) = ItemOf("child", x)
  BY ItemFields
<1>5. ASSUME NEW k \in 1..Len(b.order), Contents(b)[k] = Document!Child(x)
      PROVE  \E i \in 1..Len(b.child) : b.child[i] = x /\ b.order[k] = Entry("child", i - 1)
  <2> DEFINE i == b.order[k].index + 1
  <2>1. b.order[k].type = "child" /\ b.child[i] = x /\ i \in 1..Len(b.child)
    BY <1>1, <1>2, <1>4, <1>5, ItemFields
  <2>2. b.order[k] \in OrderEntry /\ b.order[k].index \in Nat
    BY <1>2, <1>3
  <2>3. b.order[k] = Entry("child", b.order[k].index) /\ i - 1 = b.order[k].index
    BY <2>1, <2>2 DEF OrderEntry, Entry
  <2> QED
    BY <2>1, <2>3
<1>6. ASSUME x \in ToSet(b.child)
      PROVE  Document!Child(x) \in ToSet(Contents(b))
  <2>1. PICK i \in DOMAIN b.child : b.child[i] = x
    BY <1>6 DEF ToSet
  <2>2. i \in 1..Len(b["child"])
    BY <1>1
  <2>3. PICK k \in 1..Len(b.order) : Contents(b)[k] = ItemOf("child", b["child"][i])
    BY <1>1, <2>2, EntryFound
  <2>4. Contents(b)[k] = Document!Child(x) /\ k \in DOMAIN Contents(b)
    BY <1>1, <1>2, <1>4, <2>1, <2>3
  <2> QED
    BY <2>4 DEF ToSet
<1>7. ASSUME Document!Child(x) \in ToSet(Contents(b))
      PROVE  x \in ToSet(b.child)
  <2>1. PICK k \in 1..Len(b.order) : Contents(b)[k] = Document!Child(x)
    BY <1>2, <1>7 DEF ToSet
  <2>2. PICK i \in 1..Len(b.child) : b.child[i] = x
    BY <1>5, <2>1
  <2>3. i \in DOMAIN b.child
    BY <1>1
  <2> QED
    BY <2>2, <2>3 DEF ToSet
<1> QED
  BY <1>2, <1>5, <1>6, <1>7

\* In an array without repetition an element has one place among the contents.
LEMMA ChildPlace ==
    ASSUME NEW b \in GoodBlock, IsInjective(b.child), NEW i \in 1..Len(b.child)
    PROVE  LET k == FindPosition(b, "child", i - 1)
           IN  /\ Document!Place(Contents(b), b.child[i]) = k
               /\ k \in 1..Len(b.order) /\ b.order[k].type = "child" /\ b.order[k].index = i - 1
<1> DEFINE k == FindPosition(b, "child", i - 1)
           x == b.child[i]
           s == Contents(b)
<1>1. "child" \in Types /\ b["child"] = b.child /\ b.child \in Seq(Node)
  BY BlockFields DEF Types
<1>2. i \in 1..Len(b["child"])
  BY <1>1
<1>3. /\ k \in 1..Len(b.order) /\ b.order[k].type = "child" /\ b.order[k].index = i - 1
      /\ s[k] = ItemOf("child", b["child"][i])
  BY <1>1, <1>2, EntryFound
<1>4. s[k] = Document!Child(x) /\ k \in DOMAIN s
  BY <1>1, <1>3, ItemFields, ContentsFields
<1>5. b.order \in Seq(OrderEntry)
  BY BlockFields
<1>6. ASSUME NEW j \in DOMAIN s, s[j] = Document!Child(x)
      PROVE  j = k
  <2>1. PICK l \in 1..Len(b.child) : b.child[l] = x /\ b.order[j] = Entry("child", l - 1)
    BY <1>6, ChildContents
  <2>2. l = i
    <3>1. l \in DOMAIN b.child /\ i \in DOMAIN b.child
      BY <1>1
    <3> QED
      BY <2>1, <3>1 DEF IsInjective
  <2>3. b.order[j].type = "child" /\ b.order[j].index = i - 1
    BY <2>1, <2>2 DEF Entry
  <2>4. j \in 1..Len(b.order) /\ j \in Int /\ k \in Int
    BY <1>3, <1>6, ContentsFields
  <2>5. j \in Entries(b, "child") /\ k \in Entries(b, "child")
    BY <1>3, <2>3, <2>4, ContentsFields
  <2>6. \A y, z \in Entries(b, "child") : y < z => b.order[y].index < b.order[z].index
    BY <1>1 DEF GoodBlock, InOrder
  <2> HIDE DEF k
  <2>7. ~(j < k) /\ ~(k < j)
    BY <1>3, <2>3, <2>5, <2>6
  <2> QED
    BY <2>4, <2>7
<1> DEFINE q == Document!Place(s, x)
<1>7. q = CHOOSE j \in DOMAIN s : s[j] = Document!Child(x)
  BY DEF Document!Place
<1> HIDE DEF q, s, k, x
<1>8. q \in DOMAIN s /\ s[q] = Document!Child(x)
  BY <1>4, <1>7
<1>9. q = k
  BY <1>6, <1>8
<1> QED
  BY <1>3, <1>9 DEF q, s, k, x

-----------------------------------------------------------------------------
(* The tree that a heap stands for.                                        *)

\* What a block says.
Elem(b) == [named |-> b.named, items |-> Contents(b)]
\* The tree of a heap: its live elements.
TreeOf(hp) == [n \in Live(hp) |-> Elem(hp[n])]

\* t has the elements of hp, and says of them what hp does.
Describes(t, hp) == \A m \in Live(hp) : m \in DOMAIN t /\ t[m] = Elem(hp[m])

\* The library is the same on both sides.
LEMMA SameLibrary ==
    /\ \A s : Document!ToSet(s) = ToSet(s)
    /\ \A s : Document!Range(s) = Range(s)
    /\ \A s : Document!IsInjective(s) <=> IsInjective(s)
    /\ \A s, S : Document!Restrict(s, S) = Restrict(s, S)
    /\ \A s, i : Document!RemoveAt(s, i) = RemoveAt(s, i)
    /\ \A S, T : Document!Injection(S, T) = Injection(S, T)
BY DEF Document!ToSet, ToSet, Document!Range, Range, Document!IsInjective, IsInjective,
       Document!Restrict, Restrict, Document!RemoveAt, RemoveAt, Document!Injection, Injection

\* TreeOf(hp) describes hp.
LEMMA TreeFields ==
    ASSUME NEW hp
    PROVE  /\ DOMAIN TreeOf(hp) = Live(hp)
           /\ \A n \in Live(hp) : TreeOf(hp)[n] = Elem(hp[n])
           /\ Describes(TreeOf(hp), hp)
BY DEF TreeOf, Describes

\* What an element of the tree has.
LEMMA ElemFields ==
    ASSUME NEW b
    PROVE  Elem(b).named = b.named /\ Elem(b).items = Contents(b)
BY DEF Elem

\* The children of an element, in the tree and in the heap.
LEMMA TreeChildren ==
    ASSUME NEW hp, NEW ext, NEW rank, Sound(hp, ext, rank), NEW t, Describes(t, hp),
           NEW n \in Live(hp)
    PROVE  Document!Children(t, n) = ToSet(hp[n].child)
<1>1. hp[n] \in GoodBlock /\ t[n] = Elem(hp[n]) /\ Elem(hp[n]).items = Contents(hp[n])
  BY LiveBlocks, ElemFields DEF Sound, Describes
<1>2. \A x : Document!Child(x) \in ToSet(Contents(hp[n])) <=> x \in ToSet(hp[n].child)
  BY <1>1, ChildContents
<1>3. \A x \in ToSet(hp[n].child) : x \in DOMAIN t
  BY DEF Sound, Linked, Describes
<1>4. Document!Children(t, n) = {x \in DOMAIN t : Document!Child(x) \in ToSet(t[n].items)}
  BY SameLibrary DEF Document!Children
<1>5. t[n].items = Contents(hp[n])
  BY <1>1
<1>6. Document!Children(t, n) = {x \in DOMAIN t : x \in ToSet(hp[n].child)}
  BY <1>2, <1>4, <1>5
<1> QED
  BY <1>3, <1>6

\* What a sound heap keeps is what can be reached.
LEMMA KeptIsReachable ==
    ASSUME NEW hp, NEW k \in [Handle -> Node \cup {Null}], Shape(hp, k),
           NEW t, Describes(t, hp)
    PROVE  Document!Reachable(t, k) = TreeOf(hp)
<1>1. PICK rank : Sound(hp, ReferencesOf(k), rank)
  BY DEF Shape
<1> DEFINE ext == ReferencesOf(k)
           roots == Range(k) \ {Null}
           L == Live(hp)
<1>2. /\ hp \in Heaps /\ L \subseteq Node /\ ext \in [Node -> Nat] /\ rank \in [Node -> Nat]
      /\ Linked(hp) /\ Counted(hp, ext) /\ Ranked(hp, rank) /\ Referred(hp)
  BY <1>1, LiveBlocks DEF Sound, Shape
<1>3. L \subseteq DOMAIN t
  BY DEF Describes
<1>4. roots \subseteq L
  <2> SUFFICES ASSUME NEW g \in Handle, k[g] # Null PROVE k[g] \in L
    BY DEF Range
  <2>1. k[g] \in Node /\ ext[k[g]] > 0
    BY ReferencesCounted
  <2> HIDE DEF ext, L
  <2> QED
    BY <1>2, <2>1 DEF Counted, L
<1>5. \A n \in Node : ext[n] # 0 => n \in roots
  <2> SUFFICES ASSUME NEW n \in Node, ext[n] # 0 PROVE n \in roots
    OBVIOUS
  <2>1. PICK g \in Handle : k[g] = n
    BY ReferencesCounted
  <2> QED
    BY <2>1, TreeAssumption DEF Range
<1>6. \A m \in L : Document!Children(t, m) = ToSet(hp[m].child)
  BY <1>1, TreeChildren
<1> HIDE DEF ext, roots, L
<1>7. Document!Within(t, roots) \subseteq L
  <2>1. Document!IsClosed(t, L)
    BY <1>2, <1>6 DEF Document!IsClosed, Linked, L
  <2> QED
    BY <1>3, <1>4, <2>1 DEF Document!Within
<1>8. ASSUME NEW C \in SUBSET DOMAIN t, roots \subseteq C, Document!IsClosed(t, C)
      PROVE  L \subseteq C
  <2> DEFINE X == {m \in L : m \notin C}
             R == {rank[m] : m \in X}
  <2>1. SUFFICES ASSUME X # {} PROVE FALSE
    OBVIOUS
  <2>2. R \in SUBSET Nat /\ R # {}
    BY <1>2, <2>1
  <2>3. PICK i \in R : \A j \in R : i <= j
    <3> HIDE DEF R
    <3> QED
      BY <2>2, LeastNatural
  <2>4. PICK m \in X : \A x \in X : rank[m] <= rank[x]
    BY <2>3
  <2>5. /\ m \in L /\ m \notin C /\ m \in Node
        /\ hp[m].ref = ext[m] + (IF hp[m].parent = Null THEN 0 ELSE 1) /\ hp[m].ref # 0
        /\ ext[m] \in Nat
    BY <1>2 DEF Counted, Referred, L
  <2>6. CASE hp[m].parent = Null
    BY <1>5, <1>8, <2>5, <2>6
  <2>7. CASE hp[m].parent # Null
    <3> DEFINE p == hp[m].parent
    <3>1. p \in L /\ m \in ToSet(hp[p].child) /\ rank[p] < rank[m]
          /\ rank[p] \in Nat /\ rank[m] \in Nat
      BY <1>2, <2>5, <2>7 DEF Linked, Ranked, L
    <3> HIDE DEF p, X
    <3>2. p \in C
      BY <2>4, <3>1 DEF X
    <3>3. m \in Document!Children(t, p)
      BY <1>6, <3>1
    <3> QED
      BY <1>8, <2>5, <3>2, <3>3 DEF Document!IsClosed
  <2> QED
    BY <2>6, <2>7
<1>9. L \subseteq Document!Within(t, roots)
  BY <1>3, <1>8 DEF Document!Within
<1>10. Document!Reachable(t, k) = Restrict(t, L)
  <2>1. Document!Within(t, roots) = L
    BY <1>7, <1>9
  <2> QED
    BY <2>1, SameLibrary DEF Document!Reachable, roots
<1>11. Restrict(t, L) = [x \in L |-> t[x]]
  BY DEF Restrict
<1> QED
  BY <1>10, <1>11 DEF TreeOf, Describes, L

\* What describes a heap describes what survives of it.
LEMMA SurvivorsDescribed ==
    ASSUME NEW hp \in Heaps, NEW new \in Heaps, Survives(hp, new), NEW t, Describes(t, hp)
    PROVE  Describes(t, new)
<1> SUFFICES ASSUME NEW m \in Live(new) PROVE m \in DOMAIN t /\ t[m] = Elem(new[m])
  BY DEF Describes
<1>1. m \in Live(hp) /\ new[m] = Touched(hp[m], new[m].ref, new[m].parent)
  BY DEF Survives, Untouched
<1>2. m \in DOMAIN t /\ t[m] = Elem(hp[m])
  BY <1>1 DEF Describes
<1>3. hp[m] \in GoodBlock /\ new[m].ref \in Int /\ new[m].parent \in Node \cup {Null}
  BY <1>1, LiveBlocks, BlockFields
<1> DEFINE r == new[m].ref
           p == new[m].parent
<1>4. r \in Int /\ p \in Node \cup {Null} /\ new[m] = Touched(hp[m], r, p)
  BY <1>1, <1>3
<1> HIDE DEF r, p
<1>5. Contents(new[m]) = Contents(hp[m]) /\ new[m].named = hp[m].named
  BY <1>3, <1>4, ContentsTouched, TouchedGood
<1> QED
  BY <1>2, <1>5 DEF Elem

\* A step after which the invariant holds is one of the document, which keeps what can be
\* reached, if the tree it made describes the heap.
LEMMA StepKeeps ==
    ASSUME TreeInv', NEW t, Describes(t, heap')
    PROVE  Document!Become(t, held')
<1> DEFINE hp == heap'
           k == held'
<1>1. Shape(hp, k) /\ k \in [Handle -> Node \cup {Null}]
  BY DEF TreeInv, Shape, Sound, Referred, Linked, Counted, Ranked, Live, ReferencesOf
<1> HIDE DEF hp, k
<1>2. Document!Reachable(t, k) = TreeOf(hp)
  BY <1>1, KeptIsReachable DEF hp
<1>3. TreeOf(hp) = [n \in Live(heap) |-> [named |-> heap[n].named, items |-> Contents(heap[n])]]'
  BY DEF TreeOf, Elem, hp, Live, Contents
<1> QED
  BY <1>2, <1>3 DEF Document!Become, k

\* A step that sets a handle after it changed the heap to hp, for which t stands.
LEMMA PutBecomes ==
    ASSUME held \in [Handle -> Node \cup {Null}],
           NEW hp, NEW rank, Sound(hp, ReferencesOf(held), rank),
           NEW h \in Handle, NEW n \in Live(hp) \cup {Null},
           \A m \in Live(hp) \ {n} : hp[m].ref # 0,
           Put(hp, h, n), NEW t, Describes(t, hp)
    PROVE  /\ TreeInv'
           /\ Document!Become(t, held') /\ held' = Document!Set(h, n)
<1>1. held' = [held EXCEPT ![h] = n] /\ heap' = Release(Refer(hp, n), held[h])
  BY DEF Put
<1>2. Shape(heap', held') /\ Survives(hp, heap')
  BY <1>1, PutSound
<1>3. TreeInv'
  BY <1>2 DEF TreeInv, Shape, Sound, Referred, Linked, Counted, Ranked, Live, ReferencesOf
<1> DEFINE new == heap'
<1>4. new \in Heaps /\ hp \in Heaps /\ Survives(hp, new)
  BY <1>2 DEF Shape, Sound
<1> HIDE DEF new
<1>5. Describes(t, new)
  BY <1>4, SurvivorsDescribed
<1>6. Document!Become(t, held')
  BY <1>3, <1>5, StepKeeps DEF new
<1>7. held' = Document!Set(h, n)
  BY <1>1 DEF Document!Set
<1> QED
  BY <1>3, <1>6, <1>7

-----------------------------------------------------------------------------
(* The steps of the document, for the tree that the heap stands for.       *)

\* One content more, in the tree.
LEMMA ExtendedFields ==
    ASSUME NEW t, NEW b \in GoodBlock, NEW n \in DOMAIN t, t[n] = Elem(b),
           NEW type \in Types, NEW item \in ContentOf(type),
           NEW u, u = Document!Extended(t, n, ItemOf(type, item))
    PROVE  /\ DOMAIN u = DOMAIN t
           /\ u[n] = Elem(AddToOrder(b, type, item))
           /\ \A m \in DOMAIN t \ {n} : u[m] = t[m]
<1> DEFINE s == Append(Contents(b), ItemOf(type, item))
           c == AddToOrder(b, type, item)
           v == [t[n] EXCEPT !.items = Append(@, ItemOf(type, item))]
<1>1. Contents(c) = s /\ c.named = b.named
  BY ContentsAdded, AddedGood
<1>2. v = Elem(c)
  <2>1. v = [Elem(b) EXCEPT !.items = Append(Elem(b).items, ItemOf(type, item))]
    OBVIOUS
  <2>2. Elem(b).items = Contents(b)
    BY ElemFields
  <2>3. v = [Elem(b) EXCEPT !.items = s]
    BY <2>1, <2>2
  <2> HIDE DEF s, c, v
  <2>4. [Elem(b) EXCEPT !.items = s] = [named |-> b.named, items |-> s]
    BY DEF Elem
  <2> QED
    BY <1>1, <2>3, <2>4 DEF Elem
<1>3. u = [t EXCEPT ![n] = v]
  BY DEF Document!Extended
<1> HIDE DEF v, c, s
<1>4. DOMAIN u = DOMAIN t /\ u[n] = v /\ \A m \in DOMAIN t \ {n} : u[m] = t[m]
  BY <1>3
<1> QED
  BY <1>2, <1>4 DEF c

\* A new block, and an emptied one.
LEMMA NewElem ==
    ASSUME NEW b \in GoodBlock, b.order = <<>>
    PROVE  /\ b.named = TRUE => Elem(b) = Document!Bare
           /\ b.named = FALSE => Elem(b) = Document!Emptied
BY NoContents DEF Elem, Document!Bare, Document!Emptied

\* The operations that only set a handle.
LEMMA Pointed ==
    ASSUME NEW rank, Ordered(rank), NEW h \in Handle, NEW n \in Live(heap) \cup {Null},
           Put(heap, h, n)
    PROVE  TreeInv' /\ Document!DPoint(h, n)
<1>1. \A m \in Live(heap) \ {n} : heap[m].ref # 0
  BY DEF Ordered, Referred
<1>2. held \in [Handle -> Node \cup {Null}] /\ Sound(heap, ReferencesOf(held), rank)
  BY DEF Ordered
<1> DEFINE t == TreeOf(heap)
<1>3. Describes(t, heap)
  BY TreeFields
<1> HIDE DEF t
<1>4. TreeInv' /\ Document!Become(t, held') /\ held' = Document!Set(h, n)
  BY <1>1, <1>2, <1>3, PutBecomes
<1> QED
  BY <1>4 DEF Document!DPoint, Document!Become, t, TreeOf, Elem

\* The parent and the children of a live element are live.
LEMMA ParentLive ==
    ASSUME NEW rank, Ordered(rank), NEW n \in Live(heap)
    PROVE  /\ heap[n].parent # Null =>
                 heap[n].parent \in Live(heap) /\ n \in ToSet(heap[heap[n].parent].child)
           /\ \A m \in ToSet(heap[n].child) : m \in Live(heap)
BY DEF Ordered, Sound, Linked

\* The children of an element of the heap, in the tree.
LEMMA HeapChildren ==
    ASSUME NEW rank, Ordered(rank), NEW n \in Live(heap)
    PROVE  Document!Children(TreeOf(heap), n) = ToSet(heap[n].child)
BY TreeFields, TreeChildren DEF Ordered

\* The heap before the handle is set, in createXMLTopNode.
CreatedTop(n) == [heap EXCEPT ![n] = NewBlock(Null)]

\* createXMLTopNode.
LEMMA CreateTopTree ==
    ASSUME NEW rank, Ordered(rank), NEW h \in Handle, CreateTop(h)
    PROVE  TreeInv' /\ Document!DCreate(h)
<1>1. PICK n \in Node : heap[n] = Free /\ Put(CreatedTop(n), h, n)
  BY DEF CreateTop, CreatedTop
<1> DEFINE hp == CreatedTop(n)
           ext == ReferencesOf(held)
           b == NewBlock(Null)
<1>2. /\ heap \in Heaps /\ Live(heap) \subseteq Node /\ Null \notin Node
      /\ ext \in [Node -> Nat] /\ rank \in [Node -> Nat]
      /\ held \in [Handle -> Node \cup {Null}]
      /\ n \notin Live(heap)
  BY <1>1, LiveBlocks, TreeAssumption DEF Ordered, Sound, Live
<1>3. /\ b \in GoodBlock /\ b.parent = Null /\ b.ref = 0 /\ ToSet(b.child) = {}
      /\ IsInjective(b.child)
  <2>1. b \in GoodBlock /\ b.parent = Null /\ b.ref = 0 /\ b.child = <<>>
    BY NewBlockGood DEF NewBlock
  <2> HIDE DEF b
  <2> QED
    BY <2>1 DEF IsInjective, ToSet
<1>4. hp \in Heaps /\ hp[n] = b /\ \A m \in Node \ {n} : hp[m] = heap[m]
  <2> HIDE DEF b
  <2>1. hp = [heap EXCEPT ![n] = b]
    BY DEF CreatedTop, b
  <2> HIDE DEF hp
  <2> QED
    BY <1>2, <1>3, <2>1 DEF Heaps
<1> HIDE DEF hp, b, ext
<1>5. Live(hp) = Live(heap) \cup {n}
  BY <1>2, <1>3, <1>4, LiveBlocks DEF Live
<1>6. \A m \in Live(heap) : hp[m] = heap[m] /\ m # n
  BY <1>2, <1>4
<1>7. /\ Linked(heap) /\ Ranked(heap, rank) /\ Counted(heap, ext)
  BY DEF Ordered, Sound, ext
<1>8. Linked(hp)
  BY <1>3, <1>4, <1>5, <1>6, <1>7 DEF Linked
<1>9. Ranked(hp, rank)
  BY <1>3, <1>4, <1>5, <1>6, <1>7 DEF Ranked
<1>10. Counted(hp, ext)
  BY <1>2, <1>3, <1>4, <1>5, <1>6, <1>7 DEF Counted
<1>11. Sound(hp, ext, rank)
  BY <1>2, <1>4, <1>8, <1>9, <1>10 DEF Sound
<1>12. \A m \in Live(hp) \ {n} : hp[m].ref # 0
  BY <1>5, <1>6 DEF Ordered, Referred
<1>13. Sound(hp, ReferencesOf(held), rank) /\ n \in Live(hp) \cup {Null} /\ Put(hp, h, n)
  BY <1>1, <1>5, <1>11 DEF ext, hp
<1> DEFINE t == Document!With(TreeOf(heap), n, Document!Bare)
<1>14. Describes(t, hp)
  <2>1. t = Document!With(TreeOf(heap), n, Document!Bare)
    OBVIOUS
  <2> HIDE DEF t
  <2>2. /\ DOMAIN t = Live(heap) \cup {n} /\ t[n] = Document!Bare
        /\ \A m \in Live(heap) \ {n} : t[m] = Elem(heap[m])
    <3> DEFINE T == TreeOf(heap)
    <3>1. DOMAIN T = Live(heap) /\ \A m \in Live(heap) : T[m] = Elem(heap[m])
      BY TreeFields
    <3> DEFINE e == Document!Bare
    <3>2. t = Document!With(T, n, e)
      BY <2>1
    <3> HIDE DEF T, e
    <3>3. /\ DOMAIN t = DOMAIN T \cup {n} /\ t[n] = e
          /\ \A m \in DOMAIN T \ {n} : t[m] = T[m]
      BY <3>2 DEF Document!With
    <3> QED
      BY <3>1, <3>3 DEF e
  <2>3. b.order = <<>> /\ b.named = TRUE
    BY DEF b, NewBlock
  <2>4. Elem(hp[n]) = Document!Bare
    BY <1>3, <1>4, <2>3, NewElem
  <2> QED
    BY <1>5, <1>6, <2>2, <2>4 DEF Describes
<1> HIDE DEF t
<1>15. TreeInv' /\ Document!Become(t, held') /\ held' = Document!Set(h, n)
  BY <1>2, <1>12, <1>13, <1>14, PutBecomes
<1>16. n \in Node \ Live(heap)
  BY <1>2
<1> QED
  BY <1>15, <1>16 DEF Document!DCreate, Document!Fresh, Document!Become, t, TreeOf, Elem

\* getChildNode.
LEMMA GetChildNodeTree ==
    ASSUME NEW rank, Ordered(rank), NEW h \in Handle, NEW g \in Handle, GetChildNode(h, g)
    PROVE  TreeInv' /\ Document!DGetChild(h, g)
<1> DEFINE d == held[h]
<1>1. PICK n \in ToSet(heap[d].child) : Put(heap, g, n)
  BY DEF GetChildNode
<1>2. d \in Live(heap) /\ d # Null
  BY HandlesLive DEF GetChildNode
<1> HIDE DEF d
<1>3. n \in Live(heap) \cup {Null}
  BY <1>1, <1>2, ParentLive
<1>4. TreeInv' /\ Document!DPoint(g, n)
  BY <1>1, <1>3, Pointed
<1>5. n \in Document!Children(TreeOf(heap), d)
  BY <1>1, <1>2, HeapChildren
<1> QED
  BY <1>2, <1>4, <1>5 DEF Document!DGetChild, TreeOf, Elem, d

\* getParentNode.
LEMMA GetParentNodeTree ==
    ASSUME NEW rank, Ordered(rank), NEW h \in Handle, NEW g \in Handle, GetParentNode(h, g)
    PROVE  TreeInv' /\ Document!DGetParent(h, g)
<1> DEFINE d == held[h]
<1>1. PICK n : n = heap[d].parent
  OBVIOUS
<1>2. d \in Live(heap) /\ Put(heap, g, n) /\ n # Null
  BY <1>1, HandlesLive DEF GetParentNode
<1> HIDE DEF d
<1>3. n \in Live(heap) /\ d \in ToSet(heap[n].child)
  BY <1>1, <1>2, ParentLive
<1>4. TreeInv' /\ Document!DPoint(g, n)
  BY <1>2, <1>3, Pointed
<1>5. d \in Document!Children(TreeOf(heap), n)
  BY <1>3, HeapChildren
<1> QED
  BY <1>3, <1>4, <1>5 DEF Document!DGetParent, TreeOf, Elem, d

\* operator=.
LEMMA AssignTree ==
    ASSUME NEW rank, Ordered(rank), NEW h \in Handle, NEW g \in Handle, Assign(h, g)
    PROVE  TreeInv' /\ Document!DAssign(h, g)
<1>1. PICK n : n = held[h]
  OBVIOUS
<1>2. Put(heap, g, n)
  BY <1>1 DEF Assign
<1>3. n \in Live(heap) \cup {Null}
  BY <1>1, HandlesLive
<1>4. TreeInv' /\ Document!DPoint(g, n)
  BY <1>2, <1>3, Pointed
<1> QED
  BY <1>1, <1>4 DEF Document!DAssign, Document!DPoint, Document!Become, Document!Set

\* ~XMLNode.
LEMMA DropTree ==
    ASSUME NEW rank, Ordered(rank), NEW h \in Handle, Drop(h)
    PROVE  TreeInv' /\ Document!DDrop(h)
<1>1. Put(heap, h, Null)
  BY DEF Drop
<1>2. TreeInv' /\ Document!DPoint(h, Null)
  BY <1>1, Pointed
<1> QED
  BY <1>2 DEF Document!DDrop

\* There is room in an element if there is in the tree.
LEMMA ModelRoom ==
    ASSUME NEW rank, Ordered(rank), NEW h \in Handle, Room(h)
    PROVE  Document!Room(h)
<1> DEFINE d == held[h]
           T == TreeOf(heap)
<1>1. d # Null /\ d \in Live(heap) /\ Len(heap[d].order) < MaxItems
  BY HandlesLive DEF Room
<1> HIDE DEF d
<1>2. heap[d] \in GoodBlock
  BY <1>1, LiveBlocks DEF Ordered, Sound
<1>3. T[d].items = Contents(heap[d])
  BY <1>1, TreeFields, ElemFields
<1>4. Len(T[d].items) = Len(heap[d].order)
  BY <1>2, <1>3, ContentsFields
<1> QED
  BY <1>1, <1>4 DEF Document!Room, T, d, TreeOf, Elem

\* The heap before the handle is set, in addChild(name).
AddedByName(d, n) ==
    [heap EXCEPT ![n] = [NewBlock(d) EXCEPT !.ref = 1], ![d] = AddToOrder(@, "child", n)]

\* addChild(name): the new element ranks above its parent.
LEMMA AddChildByNameTree ==
    ASSUME NEW rank, Ordered(rank), NEW h \in Handle, NEW g \in Handle, AddChildByName(h, g)
    PROVE  TreeInv' /\ Document!DAddChild(h, g)
<1> DEFINE d == held[h]
<1>1. PICK n \in Node : heap[n] = Free /\ Put(AddedByName(d, n), g, n)
  BY DEF AddChildByName, AddedByName
<1>0. d \in Live(heap)
  BY HandlesLive DEF AddChildByName, Room
<1> DEFINE hp == AddedByName(d, n)
           ext == ReferencesOf(held)
           b == [NewBlock(d) EXCEPT !.ref = 1]
           c == AddToOrder(heap[d], "child", n)
           r == [rank EXCEPT ![n] = rank[d] + 1]
<1>2. /\ heap \in Heaps /\ Live(heap) \subseteq Node /\ Null \notin Node
      /\ ext \in [Node -> Nat] /\ rank \in [Node -> Nat]
      /\ held \in [Handle -> Node \cup {Null}]
      /\ n \notin Live(heap)
  BY <1>1, LiveBlocks, TreeAssumption DEF Ordered, Sound, Live
<1> HIDE DEF d
<1>3. /\ b \in GoodBlock /\ b.parent = d /\ b.ref = 1 /\ ToSet(b.child) = {}
      /\ IsInjective(b.child)
  <2> DEFINE a == NewBlock(d)
  <2>1. a \in GoodBlock /\ a.parent = d /\ a.child = <<>>
    BY <1>0, <1>2, NewBlockGood DEF NewBlock
  <2>2. b = Touched(a, 1, d)
    <3>1. [a EXCEPT !.ref = 1] = [a EXCEPT !.ref = 1, !.parent = a.parent]
      BY DEF NewBlock
    <3>2. a.parent = d
      BY <2>1
    <3> HIDE DEF a
    <3> QED
      BY <3>1, <3>2 DEF Touched, a
  <2> HIDE DEF a, b
  <2>3. d \in Node \cup {Null} /\ 1 \in Int
    BY <1>0, <1>2
  <2>4. /\ Touched(a, 1, d) \in GoodBlock
        /\ Touched(a, 1, d).ref = 1 /\ Touched(a, 1, d).parent = d
        /\ Touched(a, 1, d).child = a.child
    BY ONLY <2>1, <2>3, TouchedGood
  <2> DEFINE e == Touched(a, 1, d)
  <2>5. b = e /\ e \in GoodBlock /\ e.ref = 1 /\ e.parent = d /\ e.child = <<>>
    BY <2>1, <2>2, <2>4
  <2> HIDE DEF e
  <2>6. b \in GoodBlock /\ b.parent = d /\ b.ref = 1 /\ b.child = <<>>
    BY <2>5
  <2> QED
    BY <2>6 DEF IsInjective, ToSet
<1>4. /\ c \in GoodBlock /\ c.child = Append(heap[d].child, n)
      /\ c.ref = heap[d].ref /\ c.parent = heap[d].parent
  <2>1. heap[d] \in GoodBlock /\ n \in ContentOf("child") /\ "child" \in Types
    BY <1>0, <1>2, LiveBlocks DEF ContentOf, Types
  <2>2. c["child"] = Append(heap[d]["child"], n)
    BY <2>1, AddedGood
  <2> QED
    BY <2>1, <2>2, AddedGood
<1>5. /\ hp \in Heaps /\ hp[n] = b /\ hp[d] = c
      /\ \A m \in Node \ {n, d} : hp[m] = heap[m]
  <2>1. hp = [heap EXCEPT ![n] = b, ![d] = c]
    BY <1>0, <1>2 DEF AddedByName, Heaps
  <2> HIDE DEF b, c, hp
  <2> QED
    BY <1>0, <1>2, <1>3, <1>4, <2>1 DEF Heaps
<1>6. r \in [Node -> Nat] /\ r[n] = rank[d] + 1 /\ \A m \in Node \ {n} : r[m] = rank[m]
  BY <1>0, <1>2
<1> HIDE DEF hp, b, c, ext, r
<1>7. Live(hp) = Live(heap) \cup {n}
  <2>1. n \in Live(hp) /\ d \in Live(hp) /\ n # d
    BY <1>0, <1>2, <1>3, <1>4, <1>5, LiveBlocks
  <2>2. \A m \in Node \ {n, d} : hp[m] = heap[m]
    BY <1>5
  <2> QED
    BY <1>0, <2>1, <2>2 DEF Live
<1>8. /\ Linked(heap) /\ Ranked(heap, rank) /\ Counted(heap, ext)
  BY DEF Ordered, Sound, ext
<1>9. \A m \in Live(heap) :
         /\ m # n /\ m \in Node
         /\ hp[m].ref = heap[m].ref /\ hp[m].parent = heap[m].parent
         /\ ToSet(hp[m].child) = ToSet(heap[m].child) \cup (IF m = d THEN {n} ELSE {})
         /\ IsInjective(hp[m].child)
  <2> TAKE m \in Live(heap)
  <2>1. /\ m # n /\ m \in Node /\ heap[m].child \in Seq(Node) /\ IsInjective(heap[m].child)
        /\ \A x \in ToSet(heap[m].child) : x \in Live(heap)
    BY <1>2, <1>8, LiveBlocks, BlockFields DEF Linked
  <2>2. CASE m = d
    <3>1. n \notin ToSet(heap[m].child)
      BY <1>2, <2>1
    <3>2. /\ ToSet(Append(heap[m].child, n)) = ToSet(heap[m].child) \cup {n}
          /\ IsInjective(Append(heap[m].child, n))
      BY <2>1, <3>1, AppendedSet
    <3> QED
      BY <1>4, <1>5, <2>1, <2>2, <3>2
  <2>3. CASE m # d
    BY <1>5, <2>1, <2>3
  <2> QED
    BY <2>2, <2>3
<1>10. /\ hp[n].parent = d /\ hp[n].ref = 1 /\ ToSet(hp[n].child) = {} /\ IsInjective(hp[n].child)
  BY <1>3, <1>5
<1>11. Linked(hp)
  <2>1. ASSUME NEW m \in Live(heap)
        PROVE  /\ hp[m].parent # Null =>
                     hp[m].parent \in Live(hp) /\ m \in ToSet(hp[hp[m].parent].child)
               /\ \A x \in ToSet(hp[m].child) : x \in Live(hp) /\ hp[x].parent = m
    <3>1. /\ heap[m].parent # Null =>
                 heap[m].parent \in Live(heap) /\ m \in ToSet(heap[heap[m].parent].child)
          /\ \A x \in ToSet(heap[m].child) : x \in Live(heap) /\ heap[x].parent = m
      BY <1>8 DEF Linked
    <3> QED
      BY <1>7, <1>9, <1>10, <3>1
  <2>2. hp[n].parent \in Live(hp) /\ n \in ToSet(hp[hp[n].parent].child)
    BY <1>0, <1>7, <1>9, <1>10
  <2> QED
    BY <1>7, <1>9, <1>10, <2>1, <2>2 DEF Linked
<1>12. Ranked(hp, r)
  <2>1. ASSUME NEW m \in Live(heap), hp[m].parent # Null
        PROVE  r[hp[m].parent] < r[m]
    <3>1. heap[m].parent # Null /\ heap[m].parent \in Live(heap) /\ rank[heap[m].parent] < rank[m]
      BY <1>8, <1>9, <2>1 DEF Ranked, Linked
    <3> QED
      BY <1>6, <1>9, <3>1
  <2>2. r[hp[n].parent] < r[n]
    <3>1. d \in Node /\ d # n /\ rank[d] \in Nat
      BY <1>0, <1>2
    <3> QED
      BY <1>6, <1>10, <3>1
  <2> QED
    BY <1>7, <2>1, <2>2 DEF Ranked
<1>13. Counted(hp, ext)
  <2>1. ext[n] = 0
    BY <1>2, <1>8 DEF Counted
  <2>2. d # Null
    BY <1>0, <1>2
  <2>3. \A m \in Live(heap) : hp[m].ref = ext[m] + (IF hp[m].parent = Null THEN 0 ELSE 1)
    BY <1>8, <1>9 DEF Counted
  <2>4. \A m \in Node \ Live(hp) : ext[m] = 0
    BY <1>7, <1>8 DEF Counted
  <2>5. hp[n].ref = ext[n] + (IF hp[n].parent = Null THEN 0 ELSE 1)
    BY <1>10, <2>1, <2>2
  <2> QED
    BY <1>7, <2>3, <2>4, <2>5 DEF Counted
<1>14. Sound(hp, ext, r)
  BY <1>2, <1>5, <1>6, <1>11, <1>12, <1>13 DEF Sound
<1>15. \A m \in Live(hp) \ {n} : hp[m].ref # 0
  BY <1>7, <1>9 DEF Ordered, Referred
<1>16. Sound(hp, ReferencesOf(held), r) /\ n \in Live(hp) \cup {Null} /\ Put(hp, g, n)
  BY <1>1, <1>7, <1>14 DEF ext, hp
<1> DEFINE T == TreeOf(heap)
           t1 == Document!Extended(T, d, Document!Child(n))
           t == Document!With(t1, n, Document!Bare)
<1>17. /\ DOMAIN T = Live(heap) /\ d \in DOMAIN T
       /\ \A m \in Live(heap) : T[m] = Elem(heap[m])
  BY <1>0, TreeFields
<1> HIDE DEF T
<1>18. /\ DOMAIN t1 = Live(heap) /\ t1[d] = Elem(c)
       /\ \A m \in Live(heap) \ {d} : t1[m] = Elem(heap[m])
  <2> DEFINE type == "child"
  <2>1. type \in Types /\ n \in ContentOf(type) /\ heap[d] \in GoodBlock /\ T[d] = Elem(heap[d])
        /\ c = AddToOrder(heap[d], type, n)
    BY <1>0, <1>2, <1>17, LiveBlocks DEF Types, ContentOf, c
  <2>2. t1 = Document!Extended(T, d, ItemOf(type, n))
    BY ItemFields
  <2> HIDE DEF type, t1
  <2> QED
    BY <1>17, <2>1, <2>2, ExtendedFields
<1>19. Describes(t, hp)
  <2>1. t = Document!With(t1, n, Document!Bare)
    OBVIOUS
  <2> HIDE DEF t, t1
  <2>2. /\ DOMAIN t = Live(heap) \cup {n} /\ t[n] = Document!Bare
        /\ \A m \in Live(heap) \ {n} : t[m] = t1[m]
    BY <1>18, <2>1 DEF Document!With
  <2>3. b.order = <<>> /\ b.named = TRUE
    BY DEF b, NewBlock
  <2>4. Elem(hp[n]) = Document!Bare
    BY <1>3, <1>5, <2>3, NewElem
  <2>5. \A m \in Live(heap) : m # n /\ m \in Node
    BY <1>2
  <2>6. \A m \in Live(heap) : t[m] = Elem(hp[m])
    BY <1>5, <1>18, <2>2, <2>5
  <2> QED
    BY <1>7, <2>2, <2>4, <2>6 DEF Describes
<1>20. TreeInv' /\ Document!Become(t, held') /\ held' = Document!Set(g, n)
  <2> HIDE DEF t
  <2> QED
    BY <1>2, <1>15, <1>16, <1>19, PutBecomes
<1>21. n \in Node \ Live(heap)
  BY <1>2
<1>22. Document!Room(h)
  BY ModelRoom DEF AddChildByName, d
<1> QED
  BY <1>20, <1>21, <1>22 DEF Document!DAddChild, Document!Fresh, Document!Become, t, t1, T, d, TreeOf, Elem

\* Other texts in d.
WithBlock(d, b) == [heap EXCEPT ![d] = b]

\* A step that changes only texts, and their order, in one element.
LEMMA LeavesSound ==
    ASSUME NEW rank, Ordered(rank), NEW d \in Live(heap), NEW b \in GoodBlock,
           b.ref = heap[d].ref, b.parent = heap[d].parent, b.child = heap[d].child,
           heap' = WithBlock(d, b), held' = held,
           NEW t, DOMAIN t = Live(heap), t[d] = Elem(b),
           \A m \in Live(heap) \ {d} : t[m] = Elem(heap[m])
    PROVE  TreeInv' /\ Document!Become(t, held)
<1> DEFINE hp == WithBlock(d, b)
           ext == ReferencesOf(held)
<1>1. /\ heap \in Heaps /\ Live(heap) \subseteq Node
      /\ ext \in [Node -> Nat] /\ rank \in [Node -> Nat]
      /\ held \in [Handle -> Node \cup {Null}]
      /\ Linked(heap) /\ Ranked(heap, rank) /\ Counted(heap, ext)
  BY LiveBlocks DEF Ordered, Sound
<1>2. hp \in Heaps /\ hp[d] = b /\ \A m \in Node \ {d} : hp[m] = heap[m]
  BY <1>1 DEF WithBlock, Heaps
<1> HIDE DEF hp, ext
<1>3. Live(hp) = Live(heap)
  <2>1. d \in Live(hp)
    BY <1>1, <1>2, LiveBlocks
  <2> QED
    BY <1>2, <2>1 DEF Live
<1>4. \A m \in Live(heap) :
         /\ m \in Node
         /\ hp[m].ref = heap[m].ref /\ hp[m].parent = heap[m].parent /\ hp[m].child = heap[m].child
  BY <1>1, <1>2
<1>5. Linked(hp)
  <2>1. \A m \in Live(heap) :
        /\ heap[m].parent # Null =>
              heap[m].parent \in Live(heap) /\ m \in ToSet(heap[heap[m].parent].child)
        /\ \A x \in ToSet(heap[m].child) : x \in Live(heap) /\ heap[x].parent = m
        /\ IsInjective(heap[m].child)
    BY <1>1 DEF Linked
  <2> QED
    BY <1>3, <1>4, <2>1 DEF Linked
<1>6. Ranked(hp, rank) /\ Counted(hp, ext)
  BY <1>1, <1>3, <1>4 DEF Ranked, Counted
<1>7. Sound(hp, ext, rank)
  BY <1>1, <1>2, <1>5, <1>6 DEF Sound
<1>8. Referred(hp)
  BY <1>3, <1>4 DEF Referred, Ordered
<1>9. Shape(hp, held)
  BY <1>1, <1>7, <1>8 DEF Shape, ext
<1>10. Shape(heap', held')
  BY <1>9 DEF hp
<1>11. TreeInv'
  BY <1>10 DEF TreeInv, Shape, Sound, Referred, Linked, Counted, Ranked, Live, ReferencesOf
<1>12. Document!Become(t, held)
  <2>1. Describes(t, hp)
    BY <1>1, <1>2, <1>3 DEF Describes
  <2>2. Document!Become(t, held')
    BY <1>11, <2>1, StepKeeps DEF hp
  <2> QED
    BY <2>2 DEF Document!Become
<1> QED
  BY <1>11, <1>12

\* The types that are not elements.
LEMMA LeafTypes ==
    ASSUME NEW type \in Leaves
    PROVE  type \in Types /\ type # "child" /\ ContentOf(type) = Value
BY TreeAssumption DEF Types, ContentOf

\* addText, addClear.
LEMMA AddLeafTree ==
    ASSUME NEW rank, Ordered(rank), NEW h \in Handle, NEW type \in Leaves, NEW v \in Value,
           AddLeaf(h, type, v)
    PROVE  TreeInv' /\ Document!DAddLeaf(h, type, v)
<1> DEFINE d == held[h]
           b == AddToOrder(heap[d], type, v)
<1>1. d \in Live(heap)
  BY HandlesLive DEF AddLeaf, Room
<1>2. heap \in Heaps /\ heap[d] \in GoodBlock /\ d \in Node
  BY <1>1, LiveBlocks DEF Ordered, Sound
<1>3. heap' = WithBlock(d, b) /\ held' = held
  BY <1>2 DEF AddLeaf, WithBlock, Heaps
<1> HIDE DEF d
<1>4. type \in Types /\ v \in ContentOf(type) /\ type # "child"
  BY LeafTypes
<1>5. /\ b \in GoodBlock /\ b.ref = heap[d].ref /\ b.parent = heap[d].parent
      /\ b.child = heap[d].child
  BY <1>2, <1>4, AddedGood
<1> DEFINE T == TreeOf(heap)
           t == Document!Extended(T, d, Document!Leaf(type, v))
<1>6. /\ DOMAIN T = Live(heap) /\ d \in DOMAIN T
      /\ \A m \in Live(heap) : T[m] = Elem(heap[m])
  BY <1>1, TreeFields
<1>7. t = Document!Extended(T, d, ItemOf(type, v)) /\ T[d] = Elem(heap[d])
      /\ b = AddToOrder(heap[d], type, v)
  BY <1>1, <1>6, ItemFields
<1> HIDE DEF b, T, t
<1>8. /\ DOMAIN t = Live(heap)
      /\ t[d] = Elem(b) /\ \A m \in Live(heap) \ {d} : t[m] = Elem(heap[m])
  <2>1. DOMAIN t = DOMAIN T /\ t[d] = Elem(b) /\ \A m \in DOMAIN T \ {d} : t[m] = T[m]
    BY <1>2, <1>4, <1>6, <1>7, ExtendedFields
  <2> QED
    BY <1>6, <2>1
<1>9. TreeInv' /\ Document!Become(t, held)
  BY <1>1, <1>3, <1>5, <1>8, LeavesSound
<1>10. Document!Room(h)
  BY ModelRoom DEF AddLeaf
<1> QED
  BY <1>9, <1>10 DEF Document!DAddLeaf, t, T, d, TreeOf, Elem

\* deleteText, deleteClear.
LEMMA DeleteLeafTree ==
    ASSUME NEW rank, Ordered(rank), NEW h \in Handle, NEW type \in Leaves, DeleteLeaf(h, type)
    PROVE  TreeInv' /\ Document!DDeleteLeaf(h)
<1> DEFINE d == held[h]
<1>1. d \in Live(heap)
  BY HandlesLive DEF DeleteLeaf
<1>2. heap \in Heaps /\ heap[d] \in GoodBlock /\ d \in Node
  BY <1>1, LiveBlocks DEF Ordered, Sound
<1>3. PICK i \in DOMAIN heap[d][type] : heap' = WithBlock(d, DeleteItem(heap[d], type, i - 1))
  BY <1>2 DEF DeleteLeaf, WithBlock, Heaps
<1>4. held' = held
  BY DEF DeleteLeaf
<1> HIDE DEF d
<1> DEFINE b == DeleteItem(heap[d], type, i - 1)
<1>5. type \in Types /\ type # "child" /\ ContentOf(type) = Value
  BY LeafTypes
<1>6. i - 1 \in 0..Len(heap[d][type]) - 1
  <2>1. heap[d][type] \in Seq(Value)
    BY <1>2, <1>5, FieldTypes, BlockFields
  <2> DEFINE s == heap[d][type]
  <2>2. s \in Seq(Value) /\ i \in DOMAIN s
    BY <2>1
  <2> HIDE DEF s
  <2>3. i - 1 \in 0..Len(s) - 1
    BY <2>2 DEF Document!Become
  <2> QED
    BY <2>3 DEF s
<1>7. /\ b \in GoodBlock /\ b.ref = heap[d].ref /\ b.parent = heap[d].parent
      /\ b.child = heap[d].child
  BY <1>2, <1>5, <1>6, DeletedGood
<1> HIDE DEF b
<1>8. heap' = WithBlock(d, b)
  BY <1>3 DEF b
<1> DEFINE T == TreeOf(heap)
           k == FindPosition(heap[d], type, i - 1)
           v == [T[d] EXCEPT !.items = RemoveAt(@, k)]
           t == [T EXCEPT ![d] = v]
<1>9. /\ DOMAIN T = Live(heap) /\ d \in DOMAIN T
      /\ \A m \in Live(heap) : T[m] = Elem(heap[m])
  BY <1>1, TreeFields
<1>10. /\ k \in DOMAIN Contents(heap[d])
       /\ Contents(heap[d])[k].type = type
       /\ Contents(b) = RemoveAt(Contents(heap[d]), k)
  <2> DEFINE j == i - 1
  <2>1. j \in 0..Len(heap[d][type]) - 1
    BY <1>6
  <2>2. b = DeleteItem(heap[d], type, j) /\ k = FindPosition(heap[d], type, j)
    BY DEF b
  <2> HIDE DEF j, k
  <2>3. /\ k \in 1..Len(heap[d].order)
        /\ Contents(heap[d])[k] = ItemOf(type, heap[d][type][j + 1])
        /\ Contents(b) = RemoveAt(Contents(heap[d]), k)
    BY <1>2, <1>5, <2>1, <2>2, ContentsDeleted
  <2>4. DOMAIN Contents(heap[d]) = 1..Len(heap[d].order)
    BY <1>2, ContentsFields
  <2> QED
    BY <2>3, <2>4, ItemFields
<1>11. v = Elem(b)
  <2>1. T[d] = Elem(heap[d]) /\ b.named = heap[d].named
    BY <1>1, <1>2, <1>5, <1>6, <1>9, DeletedGood DEF b
  <2> DEFINE s == RemoveAt(Contents(heap[d]), k)
  <2>2. v = [Elem(heap[d]) EXCEPT !.items = s]
    <3>1. T[d].items = Contents(heap[d])
      BY <2>1, ElemFields
    <3> QED
      BY <2>1, <3>1
  <2>3. [Elem(heap[d]) EXCEPT !.items = s] = [named |-> heap[d].named, items |-> s]
    BY DEF Elem
  <2>4. Contents(b) = s
    BY <1>10
  <2> HIDE DEF v, s
  <2> QED
    BY <2>1, <2>2, <2>3, <2>4 DEF Elem
<1> HIDE DEF T, k, v
<1>12. /\ DOMAIN t = Live(heap)
       /\ t[d] = Elem(b) /\ \A m \in Live(heap) \ {d} : t[m] = Elem(heap[m])
  BY <1>9, <1>11
<1>13. TreeInv' /\ Document!Become(t, held)
  <2> HIDE DEF t
  <2> QED
    BY <1>1, <1>4, <1>7, <1>8, <1>12, LeavesSound
<1>14. d # Null
  BY DEF DeleteLeaf, d
<1>15. k \in DOMAIN T[d].items /\ T[d].items[k].type \in Leaves
  <2>1. T[d].items = Contents(heap[d])
    BY <1>1, <1>9, ElemFields
  <2> QED
    BY <1>10, <2>1
<1>16. t = [T EXCEPT ![d].items = Document!RemoveAt(@, k)]
  BY SameLibrary DEF v
<1> HIDE DEF t
<1> QED
  BY <1>13, <1>14, <1>15, <1>16 DEF Document!DDeleteLeaf, T, d, TreeOf, Elem

-----------------------------------------------------------------------------
(* Elements that move.                                                     *)

\* The elements below n are those in it.
LEMMA BelowIsWithin ==
    ASSUME NEW rank, Ordered(rank), NEW n \in Live(heap)
    PROVE  Document!Within(TreeOf(heap), {n}) = Below(n)
<1> DEFINE t == TreeOf(heap)
           G == Below(n)
           ext == ReferencesOf(held)
<1>1. Sound(heap, ext, rank) /\ Linked(heap) /\ Ranked(heap, rank) /\ rank \in [Node -> Nat]
      /\ Live(heap) \subseteq Node
  BY LiveBlocks DEF Ordered, Sound
<1> HIDE DEF ext
<1>2. /\ n \in G /\ G \subseteq Live(heap) /\ ClosedIn(heap, G)
      /\ \A m \in G : m = n \/ heap[m].parent \in G
  BY <1>1, BelowFacts
<1>3. /\ DOMAIN t = Live(heap)
      /\ \A m \in Live(heap) : Document!Children(t, m) = ToSet(heap[m].child)
  BY TreeFields, HeapChildren
<1> HIDE DEF t, G
<1>4. Document!IsClosed(t, G)
  BY <1>2, <1>3 DEF Document!IsClosed, ClosedIn
<1>5. ASSUME NEW C \in SUBSET DOMAIN t, {n} \subseteq C, Document!IsClosed(t, C)
      PROVE  G \subseteq C
  <2> DEFINE X == {m \in G : m \notin C}
             R == {rank[m] : m \in X}
  <2>1. SUFFICES ASSUME X # {} PROVE FALSE
    OBVIOUS
  <2>2. R \in SUBSET Nat /\ R # {}
    BY <1>1, <1>2, <2>1
  <2>3. PICK i \in R : \A j \in R : i <= j
    <3> HIDE DEF R
    <3> QED
      BY <2>2, LeastNatural
  <2>4. PICK m \in X : \A x \in X : rank[m] <= rank[x]
    BY <2>3
  <2> DEFINE p == heap[m].parent
  <2>5. m \in G /\ m \notin C /\ m \in Live(heap) /\ p \in G /\ p \in Live(heap) /\ p # Null
    BY <1>1, <1>2, <1>5, TreeAssumption
  <2>6. m \in ToSet(heap[p].child) /\ rank[p] < rank[m] /\ rank[p] \in Nat /\ rank[m] \in Nat
    BY <1>1, <2>5 DEF Linked, Ranked
  <2> HIDE DEF p, X
  <2>7. p \in C
    BY <2>4, <2>5, <2>6 DEF X
  <2>8. m \in Document!Children(t, p)
    BY <1>3, <2>5, <2>6
  <2> QED
    BY <1>5, <2>5, <2>7, <2>8 DEF Document!IsClosed
<1>6. Document!Within(t, {n}) \subseteq G
  BY <1>2, <1>3, <1>4 DEF Document!Within
<1>7. G \subseteq Document!Within(t, {n})
  BY <1>2, <1>3, <1>5 DEF Document!Within
<1> QED
  BY <1>6, <1>7 DEF t, G

\* Counts and parents have nothing to do with the tree.
LEMMA ElemTouched ==
    ASSUME NEW b \in GoodBlock, NEW r \in Int, NEW p \in Node \cup {Null}
    PROVE  Elem(Touched(b, r, p)) = Elem(b)
<1>1. Contents(Touched(b, r, p)) = Contents(b) /\ Touched(b, r, p).named = b.named
  BY ContentsTouched, TouchedGood
<1> QED
  BY <1>1 DEF Elem

\* A child taken out of a block, in the tree.
Cut(e, n) == [e EXCEPT !.items = RemoveAt(@, Document!Place(@, n))]

\* A block that loses one of its children does so in the tree.
LEMMA CutElem ==
    ASSUME NEW b \in GoodBlock, IsInjective(b.child), NEW i \in 1..Len(b.child),
           NEW n, n = b.child[i]
    PROVE  Cut(Elem(b), n) = Elem(DeleteItem(b, "child", i - 1))
<1> DEFINE k == FindPosition(b, "child", i - 1)
           c == DeleteItem(b, "child", i - 1)
           s == RemoveAt(Contents(b), k)
<1>1. Document!Place(Contents(b), n) = k
  BY ChildPlace
<1>2. Contents(c) = s /\ c.named = b.named
  <2> DEFINE type == "child"
             j == i - 1
  <2>1. type \in Types /\ b.child \in Seq(Node) /\ b[type] = b.child
    BY BlockFields DEF Types
  <2>2. j \in 0..Len(b[type]) - 1
    BY <2>1
  <2>3. k = FindPosition(b, type, j) /\ c = DeleteItem(b, type, j)
    OBVIOUS
  <2> HIDE DEF type, j, k, c, s
  <2>4. Contents(c) = RemoveAt(Contents(b), k)
    BY <2>1, <2>2, <2>3, ContentsDeleted
  <2>5. c.named = b.named
    BY <2>1, <2>2, <2>3, DeletedGood
  <2> QED
    BY <2>4, <2>5 DEF s
<1> HIDE DEF c
<1>3. Cut(Elem(b), n) = [Elem(b) EXCEPT !.items = s]
  <2>1. Elem(b).items = Contents(b)
    BY ElemFields
  <2> HIDE DEF k
  <2> QED
    BY <1>1, <2>1 DEF Cut
<1> HIDE DEF s
<1>4. [Elem(b) EXCEPT !.items = s] = [named |-> b.named, items |-> s]
  BY DEF Elem
<1> QED
  BY <1>2, <1>3, <1>4 DEF Elem, c

\* c is hp, but that n has left its parent's array.
IsCut(hp, c, n) ==
    \A m \in Live(hp) :
        IF m = hp[n].parent
        THEN \E i \in 1..Len(hp[m].child) :
                hp[m].child[i] = n /\ c[m] = DeleteItem(hp[m], "child", i - 1)
        ELSE Elem(c[m]) = Elem(hp[m])

\* A heap in which n has left its parent stands for the tree without n in anything.
LEMMA CutTree ==
    ASSUME NEW hp, NEW ext, NEW rank, Sound(hp, ext, rank), NEW n \in Live(hp),
           NEW c, Live(c) = Live(hp), IsCut(hp, c, n)
    PROVE  Document!Without(TreeOf(hp), n) = TreeOf(c)
<1> DEFINE T == TreeOf(hp)
           L == Live(hp)
           u == Document!Without(T, n)
<1>1. /\ DOMAIN T = L
      /\ \A m \in L : T[m] = Elem(hp[m]) /\ Document!Children(T, m) = ToSet(hp[m].child)
  BY TreeFields, TreeChildren
<1>2. /\ hp \in Heaps
      /\ \A m \in L : /\ hp[m] \in GoodBlock /\ IsInjective(hp[m].child)
                      /\ n \in ToSet(hp[m].child) <=> m = hp[n].parent
  BY LiveBlocks, TreeAssumption DEF Sound, Linked
<1> HIDE DEF T
<1>3. /\ DOMAIN u = L /\ u = [m \in L |-> u[m]]
      /\ \A m \in L : u[m] = IF n \in Document!Children(T, m) THEN Cut(T[m], n) ELSE T[m]
  BY <1>1, SameLibrary DEF Document!Without, Cut
<1> HIDE DEF u, L
<1>4. ASSUME NEW m \in L PROVE u[m] = Elem(c[m])
  <2>1. CASE m = hp[n].parent
    <3>1. PICK i \in 1..Len(hp[m].child) :
             hp[m].child[i] = n /\ c[m] = DeleteItem(hp[m], "child", i - 1)
      BY <2>1 DEF IsCut, L
    <3>2. Cut(Elem(hp[m]), n) = Elem(c[m])
      BY <1>2, <3>1, CutElem
    <3> QED
      BY <1>1, <1>2, <1>3, <2>1, <3>2
  <2>2. CASE m # hp[n].parent
    <3>1. Elem(c[m]) = Elem(hp[m])
      BY <2>2 DEF IsCut, L
    <3> QED
      BY <1>1, <1>2, <1>3, <2>2, <3>1
  <2> QED
    BY <2>1, <2>2
<1>5. u = [m \in L |-> Elem(c[m])]
  BY <1>3, <1>4
<1> QED
  BY <1>5 DEF TreeOf, u, T, L

\* detachFromParent takes the element out of its parent in the tree.
LEMMA ParentDetached ==
    ASSUME NEW hp, NEW ext, NEW rank, Sound(hp, ext, rank), NEW n \in Live(hp),
           hp[n].parent # Null, NEW cut, cut = DetachFromParent(hp, n)
    PROVE  IsCut(hp, cut, n) /\ Live(cut) = Live(hp)
<1> DEFINE p == hp[n].parent
<1>1. p = hp[n].parent /\ p # Null
  OBVIOUS
<1> HIDE DEF p
<1>2. /\ p \in Live(hp) /\ p # n /\ cut \in Heaps
      /\ \A m \in Node \ {p} : cut[m] = hp[m]
      /\ cut[p] \in GoodBlock
      /\ \E i \in 1..Len(hp[p].child) :
            hp[p].child[i] = n /\ cut[p] = DeleteItem(hp[p], "child", i - 1)
  BY <1>1, DetachedHeap
<1>3. hp \in Heaps /\ Live(hp) \subseteq Node
  BY LiveBlocks DEF Sound
<1>4. Live(cut) = Live(hp)
  BY <1>2, <1>3, LiveBlocks DEF Live
<1> QED
  BY <1>1, <1>2, <1>3, <1>4 DEF IsCut

\* The first half of Attach takes the element out of the tree's arrays.
LEMMA LooseTree ==
    ASSUME NEW hp, NEW ext, NEW rank, Sound(hp, ext, rank), NEW n \in Live(hp),
           NEW c, c = Loose(hp, n)
    PROVE  Document!Without(TreeOf(hp), n) = TreeOf(c)
<1>1. hp \in Heaps /\ Live(hp) \subseteq Node /\ Null \notin Node /\ hp[n] \in GoodBlock
      /\ hp[n].parent \in Node \cup {Null} /\ hp[n].ref + 1 \in Int
  BY LiveBlocks, BlockFields, TreeAssumption DEF Sound
<1>2. Live(c) = Live(hp)
  BY LooseHeap
<1>3. CASE hp[n].parent = Null
  <2>1. c = Refer(hp, n)
    BY <1>3 DEF Loose
  <2>2. /\ c[n] = Touched(hp[n], hp[n].ref + 1, hp[n].parent)
        /\ \A m \in Node \ {n} : c[m] = hp[m]
    BY <1>1, <2>1, ReferHeap
  <2> DEFINE r == hp[n].ref + 1
             p == hp[n].parent
  <2>3. r \in Int /\ p \in Node \cup {Null} /\ c[n] = Touched(hp[n], r, p)
    BY <1>1, <2>2
  <2> HIDE DEF r, p
  <2>4. Elem(c[n]) = Elem(hp[n])
    BY <1>1, <2>3, ElemTouched
  <2>5. IsCut(hp, c, n)
    BY <1>1, <1>3, <2>2, <2>4 DEF IsCut
  <2> QED
    BY <1>2, <2>5, CutTree
<1>4. CASE hp[n].parent # Null
  <2>1. c = DetachFromParent(hp, n)
    BY <1>4 DEF Loose
  <2>2. IsCut(hp, c, n)
    BY <1>4, <2>1, ParentDetached
  <2> QED
    BY <1>2, <2>2, CutTree
<1> QED
  BY <1>3, <1>4

\* addChild(XMLNode) for one element.
LEMMA AttachTree ==
    ASSUME NEW hp, NEW ext, NEW rank, Sound(hp, ext, rank),
           NEW n \in Live(hp), NEW d \in Live(hp), n # d, rank[d] < rank[n],
           NEW new, new = Attach(hp, d, n)
    PROVE  TreeOf(new) = Document!Moved(TreeOf(hp), n, d)
<1> DEFINE c == Loose(hp, n)
           L == Live(hp)
           t == TreeOf(c)
           type == "child"
           u == Document!Extended(t, d, ItemOf(type, n))
<1>1. /\ Sound(new, ext, rank) /\ Live(new) = L
      /\ new[n] = Touched(c[n], c[n].ref, d)
      /\ new[d] = AddToOrder(c[d], type, n)
      /\ \A m \in Node \ {n, d} : new[m] = c[m]
  BY AttachSound
<1>2. c = Loose(hp, n)
  OBVIOUS
<1> HIDE DEF c
<1>3. c \in Heaps /\ Live(c) = L
  BY <1>2, LooseHeap
<1>4. Document!Without(TreeOf(hp), n) = t
  BY <1>2, LooseTree
<1>5. L \subseteq Node /\ c[n] \in GoodBlock /\ c[d] \in GoodBlock /\ c[n].ref \in Int
      /\ d \in Node /\ n \in Node
  BY <1>3, LiveBlocks, BlockFields
<1>6. type \in Types /\ n \in ContentOf(type)
  BY <1>5 DEF Types, ContentOf
<1>7. DOMAIN t = L /\ \A m \in L : t[m] = Elem(c[m])
  BY <1>3, TreeFields
<1>8. Document!Moved(TreeOf(hp), n, d) = u
  BY <1>4, ItemFields DEF Document!Moved
<1> HIDE DEF t, u, type, L
<1>9. DOMAIN u = L /\ u[d] = Elem(new[d]) /\ \A m \in L \ {d} : u[m] = t[m]
  <2>1. d \in DOMAIN t /\ t[d] = Elem(c[d]) /\ u = Document!Extended(t, d, ItemOf(type, n))
    BY <1>7 DEF L, u
  <2>2. DOMAIN u = DOMAIN t /\ u[d] = Elem(AddToOrder(c[d], type, n))
        /\ \A m \in DOMAIN t \ {d} : u[m] = t[m]
    BY <1>5, <1>6, <2>1, ExtendedFields
  <2> QED
    BY <1>1, <1>7, <2>2
<1>10. Elem(new[n]) = Elem(c[n])
  <2> DEFINE r == c[n].ref
  <2>1. r \in Int /\ d \in Node \cup {Null} /\ new[n] = Touched(c[n], r, d)
    BY <1>1, <1>5
  <2> HIDE DEF r
  <2> QED
    BY <1>5, <2>1, ElemTouched
<1>11. \A m \in L : u[m] = Elem(new[m])
  BY <1>1, <1>5, <1>7, <1>9, <1>10
<1>12. u = [m \in L |-> Elem(new[m])]
  <2>1. u = [m \in DOMAIN u |-> u[m]]
    BY DEF u, Document!Extended
  <2> QED
    BY <1>9, <1>11, <2>1
<1> QED
  BY <1>1, <1>8, <1>12 DEF TreeOf

\* AttachAll ends in S if no Attach leaves S.
LEMMA AttachAllMoves ==
    ASSUME NEW hp, NEW d, NEW moved \in Seq(Node), NEW S, hp \in S,
           \A k \in 1..Len(moved) : \A s \in S :
              /\ Attach(s, d, moved[k]) \in S
              /\ TreeOf(Attach(s, d, moved[k])) = Document!Moved(TreeOf(s), moved[k], d)
    PROVE  /\ AttachAll(hp, d, moved) \in S
           /\ TreeOf(AttachAll(hp, d, moved)) = Document!MovedAll(TreeOf(hp), moved, d)
<1> DEFINE N == Len(moved)
           step == [k \in 1..N |-> [s \in S |-> Attach(s, d, moved[k])]]
           P(f) == f = [k \in 0..N |-> IF k = 0 THEN hp ELSE Attach(f[k - 1], d, moved[k])]
<1>1. N \in Nat
  OBVIOUS
<1>0. \A k \in 1..N : \A s \in S :
         /\ Attach(s, d, moved[k]) \in S
         /\ TreeOf(Attach(s, d, moved[k])) = Document!Moved(TreeOf(s), moved[k], d)
  OBVIOUS
<1> HIDE DEF N
<1>2. \A k \in 1..N : \A s \in S : step[k][s] = Attach(s, d, moved[k]) /\ step[k][s] \in S
  BY <1>0
<1>3. PICK f : IsLoop(f, N, S, hp, step)
  <2> HIDE DEF step
  <2> QED
    BY <1>1, <1>2, Iteration
<1> HIDE DEF step
<1>4. P(f)
  <2>1. f \in [0..N -> S] /\ f[0] = hp /\ \A k \in 1..N : f[k] = step[k][f[k - 1]]
    BY <1>3 DEF IsLoop
  <2>2. \A k \in 1..N : f[k] = Attach(f[k - 1], d, moved[k])
    <3> TAKE k \in 1..N
    <3>1. f[k - 1] \in S
      BY <1>1, <2>1
    <3> QED
      BY <1>2, <2>1, <3>1
  <2>3. \A k \in 0..N : f[k] = IF k = 0 THEN hp ELSE Attach(f[k - 1], d, moved[k])
    <3> TAKE k \in 0..N
    <3>1. CASE k = 0
      BY <2>1, <3>1
    <3>2. CASE k # 0
      <4>1. k \in 1..N
        BY <1>1, <3>2
      <4> QED
        BY <2>2, <3>2, <4>1
    <3> QED
      BY <3>1, <3>2
  <2>4. f = [k \in 0..N |-> f[k]]
    BY <2>1
  <2> QED
    BY <2>3, <2>4
<1> DEFINE upto == CHOOSE g : P(g)
<1>5. AttachAll(hp, d, moved) = upto[N]
  BY DEF AttachAll, N
<1>6. P(upto)
  <2> HIDE DEF P
  <2> QED
    BY <1>4
<1> HIDE DEF upto
<1>7. upto[0] = hp /\ \A k \in 1..N : upto[k] = Attach(upto[k - 1], d, moved[k])
  BY <1>1, <1>6
<1> HIDE DEF P
<1> DEFINE T == {k \in 0..N : upto[k] \in S}
<1>8. 0 \in T
  BY <1>1, <1>7
<1>9. \A k \in 1..N : k - 1 \in T => k \in T
  BY <1>0, <1>1, <1>7
<1>10. 0..N \subseteq T
  <2> HIDE DEF T
  <2> QED
    BY <1>1, <1>8, <1>9, UpTo
<1> DEFINE Q(g) == g = [k \in 0..N |-> IF k = 0 THEN TreeOf(hp)
                                      ELSE Document!Moved(g[k - 1], moved[k], d)]
           trees == [k \in 0..N |-> TreeOf(upto[k])]
<1>11. /\ trees[0] = TreeOf(hp) /\ DOMAIN trees = 0..N
       /\ \A k \in 1..N : trees[k] = Document!Moved(trees[k - 1], moved[k], d)
  <2>1. \A k \in 0..N : trees[k] = TreeOf(upto[k])
    OBVIOUS
  <2>2. \A k \in 1..N : k \in 0..N /\ k - 1 \in 0..N /\ 0 \in 0..N /\ upto[k - 1] \in S
    BY <1>1, <1>10
  <2>3. trees[0] = TreeOf(upto[0])
    BY <1>1, <2>1
  <2> HIDE DEF trees, T
  <2>4. \A k \in 1..N : trees[k] = Document!Moved(trees[k - 1], moved[k], d)
    BY <1>0, <1>7, <2>1, <2>2
  <2> QED
    BY <1>7, <2>3, <2>4 DEF trees
<1>12. Q(trees)
  <2> HIDE DEF trees, T
  <2>1. \A k \in 0..N : trees[k] = IF k = 0 THEN TreeOf(hp)
                                   ELSE Document!Moved(trees[k - 1], moved[k], d)
    BY <1>1, <1>11
  <2>2. trees = [k \in 0..N |-> trees[k]]
    BY <1>11 DEF trees
  <2> QED
    BY <2>1, <2>2
<1> HIDE DEF trees, T
<1> DEFINE docs == CHOOSE g : Q(g)
<1>13. Document!MovedAll(TreeOf(hp), moved, d) = docs[N]
  BY DEF Document!MovedAll, N
<1>14. Q(docs)
  <2> HIDE DEF Q
  <2> QED
    BY <1>12
<1> HIDE DEF docs
<1>15. docs[0] = TreeOf(hp) /\ \A k \in 1..N : docs[k] = Document!Moved(docs[k - 1], moved[k], d)
  BY <1>1, <1>14
<1> HIDE DEF Q
<1> DEFINE U == {k \in 0..N : docs[k] = trees[k]}
<1>16. 0 \in U
  BY <1>1, <1>11, <1>15
<1>17. \A k \in 1..N : k - 1 \in U => k \in U
  BY <1>1, <1>11, <1>15
<1>18. 0..N \subseteq U
  <2> HIDE DEF U
  <2> QED
    BY <1>1, <1>16, <1>17, UpTo
<1>19. N \in 0..N /\ N \in T
  BY <1>1, <1>10
<1>20. docs[N] = trees[N]
  BY <1>18, <1>19
<1>21. trees[N] = TreeOf(upto[N])
  BY <1>19 DEF trees
<1>22. upto[N] \in S
  BY <1>19 DEF T
<1> QED
  BY <1>5, <1>13, <1>20, <1>21, <1>22

\* The ranks after what is below an element has been put into d.
Lowered(rank, G, d) == [m \in Node |-> IF m \in G THEN rank[m] + rank[d] + 1 ELSE rank[m]]

\* Everything below an element can be ranked above any element that is not below it.
LEMMA LoweredRanks ==
    ASSUME NEW hp, NEW ext, NEW rank, Sound(hp, ext, rank), NEW d \in Live(hp),
           NEW G \in SUBSET Live(hp), ClosedIn(hp, G), d \notin G,
           NEW r, r = Lowered(rank, G, d)
    PROVE  Sound(hp, ext, r) /\ \A x \in G : r[d] < r[x]
<1>1. /\ hp \in Heaps /\ Live(hp) \subseteq Node /\ rank \in [Node -> Nat]
      /\ Linked(hp) /\ Ranked(hp, rank)
  BY LiveBlocks DEF Sound
<1>2. /\ r \in [Node -> Nat] /\ d \in Node /\ rank[d] \in Nat
      /\ \A m \in Node : r[m] = IF m \in G THEN rank[m] + rank[d] + 1 ELSE rank[m]
  BY <1>1 DEF Lowered
<1>3. ASSUME NEW m \in Live(hp), hp[m].parent # Null
      PROVE  r[hp[m].parent] < r[m]
  <2> DEFINE p == hp[m].parent
  <2>1. /\ p \in Live(hp) /\ m \in ToSet(hp[p].child) /\ rank[p] < rank[m]
        /\ rank[p] \in Nat /\ rank[m] \in Nat /\ p \in Node /\ m \in Node
    BY <1>1, <1>3 DEF Linked, Ranked
  <2>2. p \in G => m \in G
    BY <2>1 DEF ClosedIn
  <2> HIDE DEF p
  <2>3. r[p] < r[m]
    BY <1>2, <2>1, <2>2
  <2> QED
    BY <2>3 DEF p
<1>4. \A x \in G : r[d] < r[x]
  BY <1>1, <1>2
<1> QED
  BY <1>1, <1>2, <1>3, <1>4 DEF Sound, Ranked

\* Cardinality is the same on both sides.
LEMMA SameCardinality == \A S : Document!Cardinality(S) = Cardinality(S)
BY DEF Document!Cardinality, Cardinality

\* The children of an element are listed in its array as they come among its contents.
LEMMA OneListing ==
    ASSUME NEW rank, Ordered(rank), NEW n \in Live(heap)
    PROVE  heap[n].child \in Document!Listings(TreeOf(heap), n)
<1> DEFINE b == heap[n]
           s == b.child
           C == Document!Children(TreeOf(heap), n)
           items == TreeOf(heap)[n].items
           pos(i) == FindPosition(b, "child", i - 1)
<1>1. b \in GoodBlock /\ IsInjective(s) /\ s \in Seq(Node)
  BY LiveBlocks, BlockFields DEF Ordered, Sound, Linked
<1>2. C = ToSet(s)
  BY HeapChildren
<1>3. items = Contents(b)
  BY TreeFields, ElemFields
<1>4. ASSUME NEW i \in 1..Len(s)
      PROVE  /\ Document!Place(Contents(b), s[i]) = pos(i)
             /\ pos(i) \in Entries(b, "child") /\ pos(i) \in Int /\ b.order[pos(i)].index = i - 1
  <2> DEFINE k == FindPosition(b, "child", i - 1)
  <2>1. /\ Document!Place(Contents(b), s[i]) = k
        /\ k \in 1..Len(b.order) /\ b.order[k].type = "child" /\ b.order[k].index = i - 1
    BY <1>1, ChildPlace
  <2>2. DOMAIN b.order = 1..Len(b.order) /\ Len(b.order) \in Nat
    BY <1>1, ContentsFields
  <2> HIDE DEF k
  <2>3. k \in Entries(b, "child") /\ k \in Int
    BY <2>1, <2>2 DEF Entries
  <2> QED
    BY <2>1, <2>3 DEF k
<1>5. \A j, k \in Entries(b, "child") : j < k => b.order[j].index < b.order[k].index
  BY <1>1 DEF GoodBlock, InOrder, Types
<1> HIDE DEF pos, b, s, C, items
<1>6. ASSUME NEW j \in 1..Len(s), NEW k \in 1..Len(s), j < k
      PROVE  pos(j) < pos(k)
  <2>1. /\ pos(j) \in Entries(b, "child") /\ pos(j) \in Int /\ b.order[pos(j)].index = j - 1
        /\ pos(k) \in Entries(b, "child") /\ pos(k) \in Int /\ b.order[pos(k)].index = k - 1
    BY <1>4
  <2>2. Len(s) \in Nat
    BY <1>1
  <2>3. CASE pos(k) < pos(j)
    <3>1. k - 1 < j - 1
      BY <1>5, <2>1, <2>3
    <3> QED
      BY <1>6, <2>2, <3>1
  <2>4. CASE pos(k) = pos(j)
    <3>1. k - 1 = j - 1
      BY <2>1, <2>4
    <3> QED
      BY <1>6, <2>2, <3>1
  <2> QED
    BY <2>1, <2>3, <2>4
<1>7. DOMAIN s = 1..Len(s) /\ Len(s) \in Nat /\ s \in [1..Len(s) -> C]
  <2>1. DOMAIN s = 1..Len(s) /\ Len(s) \in Nat /\ s = [i \in 1..Len(s) |-> s[i]]
    BY <1>1
  <2>2. \A i \in 1..Len(s) : s[i] \in C
    BY <1>2, <2>1 DEF ToSet
  <2> QED
    BY <2>1, <2>2
<1>8. Cardinality(C) = Len(s)
  <2>1. s \in Injection(1..Len(s), C)
    BY <1>1, <1>7 DEF Injection
  <2>2. s \in Surjection(1..Len(s), C)
    BY <1>2, <1>7 DEF Surjection, ToSet
  <2>3. ExistsBijection(1..Len(s), C)
    BY <2>1, <2>2 DEF ExistsBijection, Bijection
  <2> QED
    BY <1>7, <2>3, FS_CountingElements
<1>9. \A j, k \in DOMAIN s : j < k => Document!Place(items, s[j]) < Document!Place(items, s[k])
  BY <1>3, <1>4, <1>6, <1>7
<1> DEFINE T == TreeOf(heap)
<1>10. C = Document!Children(T, n) /\ items = T[n].items
  BY DEF C, items
<1> HIDE DEF T
<1>11. s \in Document!Listings(T, n)
  <2>1. Document!Cardinality(C) = Len(s)
    BY <1>8, SameCardinality
  <2> HIDE DEF s, C, items
  <2> QED
    BY <1>7, <1>9, <1>10, <2>1 DEF Document!Listings
<1> QED
  BY <1>11 DEF s, b, T

\* addChild(XMLNode), for an element with a name and for one without.
LEMMA AddChildNodeTree ==
    ASSUME NEW rank, Ordered(rank), NEW h \in Handle, NEW g \in Handle, AddChildNode(h, g)
    PROVE  TreeInv' /\ Document!DAdopt(h, g)
<1> DEFINE d == held[h]
           n == held[g]
           G == Below(n)
           ext == ReferencesOf(held)
           moved == IF heap[n].named THEN <<n>> ELSE heap[n].child
           r == Lowered(rank, G, d)
<1>1. d \in Live(heap) /\ n \in Live(heap) /\ d \notin G
  BY HandlesLive DEF AddChildNode
<1>2. heap' = AttachAll(heap, d, moved) /\ held' = held
  BY DEF AddChildNode
<1>3. /\ Sound(heap, ext, rank) /\ heap \in Heaps /\ Live(heap) \subseteq Node
      /\ Null \notin Node
  BY LiveBlocks, TreeAssumption DEF Ordered, Sound
<1>4. /\ n \in G /\ G \subseteq Live(heap) /\ ClosedIn(heap, G)
  <2> HIDE DEF n, ext
  <2> QED
    BY <1>1, <1>3, BelowFacts
<1>5. moved \in Seq(Node) /\ \A k \in 1..Len(moved) : moved[k] \in G
  <2>1. CASE heap[n].named
    <3>1. moved = <<n>> /\ n \in Node
      BY <1>1, <1>3, <2>1
    <3> HIDE DEF moved, n
    <3> QED
      BY <1>4, <3>1
  <2>2. CASE ~heap[n].named
    <3>1. moved = heap[n].child /\ moved \in Seq(Node)
      BY <1>1, <1>3, <2>2, LiveBlocks, BlockFields
    <3>2. ToSet(heap[n].child) \subseteq G
      BY <1>1, <1>4 DEF ClosedIn
    <3> HIDE DEF moved, G
    <3>3. \A k \in 1..Len(moved) : moved[k] \in ToSet(moved)
      BY <3>1 DEF ToSet
    <3> QED
      BY <3>1, <3>2, <3>3
  <2> QED
    BY <2>1, <2>2
<1> HIDE DEF d, n, G, ext, moved, r
<1>6. Sound(heap, ext, r) /\ \A x \in G : r[d] < r[x]
  <2>1. r = Lowered(rank, G, d) /\ G \in SUBSET Live(heap)
    BY <1>4 DEF r
  <2> QED
    BY <1>1, <1>3, <1>4, <2>1, LoweredRanks
<1> DEFINE Fine(hp) == Sound(hp, ext, r) /\ Live(hp) = Live(heap) /\ Referred(hp)
           S == {hp \in Heaps : Fine(hp)}
<1>7. heap \in S
  BY <1>3, <1>6 DEF Ordered
<1>8. ASSUME NEW k \in 1..Len(moved), NEW hp \in S
      PROVE  /\ Attach(hp, d, moved[k]) \in S
             /\ TreeOf(Attach(hp, d, moved[k])) = Document!Moved(TreeOf(hp), moved[k], d)
  <2> DEFINE x == moved[k]
             new == Attach(hp, d, x)
  <2>1. /\ x \in Live(hp) /\ d \in Live(hp) /\ x # d /\ r[d] < r[x]
        /\ Sound(hp, ext, r) /\ Live(hp) = Live(heap) /\ Referred(hp)
    BY <1>1, <1>4, <1>5, <1>6
  <2>2. new = Attach(hp, d, x)
    OBVIOUS
  <2> HIDE DEF x, new, S
  <2>3. /\ Sound(new, ext, r) /\ Live(new) = Live(hp)
        /\ \A m \in Live(hp) : new[m].parent = IF m = x THEN d ELSE hp[m].parent
    BY <2>1, <2>2, AttachSound
  <2>4. Referred(new)
    <3>1. /\ \A m \in Live(hp) : hp[m].ref = ext[m] + (IF hp[m].parent = Null THEN 0 ELSE 1)
          /\ \A m \in Live(hp) : new[m].ref = ext[m] + (IF new[m].parent = Null THEN 0 ELSE 1)
          /\ \A m \in Live(hp) : ext[m] \in Nat
      BY <1>3, <2>1, <2>3 DEF Sound, Counted
    <3>2. d # Null
      BY <1>1, <1>3
    <3>3. \A m \in Live(hp) : hp[m].ref # 0
      BY <2>1 DEF Referred
    <3>4. ASSUME NEW m \in Live(hp) PROVE new[m].ref # 0
      <4>1. CASE m = x
        <5>1. new[m].parent # Null
          BY <2>3, <3>2, <4>1
        <5> QED
          BY <3>1, <5>1
      <4>2. CASE m # x
        <5>1. new[m].parent = hp[m].parent
          BY <2>3, <4>2
        <5> QED
          BY <3>1, <3>3, <5>1
      <4> QED
        BY <4>1, <4>2
    <3> QED
      BY <2>3, <3>4 DEF Referred
  <2>5. new \in Heaps
    BY <2>3 DEF Sound
  <2>6. TreeOf(new) = Document!Moved(TreeOf(hp), x, d)
    BY <2>1, <2>2, AttachTree
  <2> QED
    BY <2>1, <2>3, <2>4, <2>5, <2>6 DEF S, new, x
<1> HIDE DEF S
<1>9. /\ AttachAll(heap, d, moved) \in S
      /\ TreeOf(AttachAll(heap, d, moved)) = Document!MovedAll(TreeOf(heap), moved, d)
  BY <1>5, <1>7, <1>8, AttachAllMoves
<1>10. Sound(heap', ext, r) /\ Referred(heap')
  BY <1>2, <1>9 DEF S
<1>11. Shape(heap', held')
  BY <1>2, <1>10 DEF Shape, ext, Ordered
<1>12. TreeInv'
  BY <1>11 DEF TreeInv, Shape, Sound, Referred, Linked, Counted, Ranked, Live, ReferencesOf
<1> DEFINE T == TreeOf(heap)
           t == Document!MovedAll(T, moved, d)
           new == heap'
<1>13. t = TreeOf(new) /\ new \in Heaps /\ Live(new) = Live(heap)
  BY <1>2, <1>9 DEF S
<1> HIDE DEF t, T, new
<1>14. Document!Become(t, held)
  <2>1. Describes(t, new)
    BY <1>13, TreeFields
  <2>2. Document!Become(t, held')
    BY <1>12, <2>1, StepKeeps DEF new
  <2> QED
    BY <1>2, <2>2 DEF Document!Become
<1>15. Len(t[d].items) <= MaxItems
  <2>1. new[d] \in GoodBlock /\ t[d].items = Contents(new[d])
    BY <1>1, <1>13, LiveBlocks, TreeFields, ElemFields
  <2>2. Len(t[d].items) = Len(new[d].order)
    BY <2>1, ContentsFields
  <2> QED
    BY <2>2 DEF AddChildNode, new, d
<1>16. d \notin Document!Within(T, {n})
  BY <1>1, BelowIsWithin DEF G, T
<1>17. moved \in (IF T[n].named THEN {<<n>>} ELSE Document!Listings(T, n))
  <2>1. T[n].named = heap[n].named
    BY <1>1, TreeFields, ElemFields DEF T
  <2>2. heap[n].child \in Document!Listings(T, n)
    BY <1>1, OneListing DEF T
  <2> QED
    BY <2>1, <2>2 DEF moved
<1>18. d # Null /\ n # Null
  BY DEF AddChildNode, d, n
<1> QED
  BY <1>12, <1>14, <1>15, <1>16, <1>17, <1>18 DEF Document!DAdopt, t, T, d, n, TreeOf, Elem

\* deleteNodeContent: everything below the element is emptied, and what no handle refers
\* to is freed.
LEMMA DeleteNodeContentTree ==
    ASSUME NEW rank, Ordered(rank), NEW h \in Handle, DeleteNodeContent(h)
    PROVE  TreeInv' /\ Document!DDeleteContent(h)
<1> DEFINE n == held[h]
           cut == IF heap[n].parent = Null THEN heap ELSE LetGo(heap, n)
           ext == ReferencesOf(held)
           G == Below(n)
<1>1. n \in Live(heap)
  BY HandlesLive DEF DeleteNodeContent
<1>2. heap' = EmptyTheNode(cut, n, TRUE) /\ held' = held
  BY DEF DeleteNodeContent, LetGo
<1>3. Sound(heap, ext, rank) /\ heap \in Heaps /\ Live(heap) \subseteq Node
  BY LiveBlocks DEF Ordered, Sound
<1>4. /\ n \in G /\ G \subseteq Live(heap) /\ ClosedIn(heap, G)
      /\ \A m \in G : m = n \/ heap[m].parent \in G
      /\ heap[n].parent \notin G
  <2> HIDE DEF n, ext
  <2> QED
    BY <1>1, <1>3, BelowFacts
<1>0. n # Null
  BY DEF DeleteNodeContent
<1> HIDE DEF n, ext, G
<1>5. /\ Sound(cut, ext, rank) /\ Live(cut) = Live(heap) /\ cut[n].parent = Null
      /\ \A m \in Live(heap) \ {n} : cut[m].ref = heap[m].ref /\ cut[m].parent = heap[m].parent
      /\ \A m \in Live(heap) : ToSet(cut[m].child) \subseteq ToSet(heap[m].child)
      /\ IsCut(heap, cut, n)
  <2>1. CASE heap[n].parent = Null
    <3>1. cut = heap
      BY <2>1
    <3> HIDE DEF cut
    <3>2. Null \notin Live(heap)
      BY <1>3, TreeAssumption
    <3>3. IsCut(heap, cut, n)
      BY <2>1, <3>1, <3>2 DEF IsCut
    <3> QED
      BY <1>3, <2>1, <3>1, <3>3
  <2>2. CASE heap[n].parent # Null
    <3> DEFINE p == heap[n].parent
               two == DetachFromParent(heap, n)
    <3>1. cut = LetGo(heap, n)
      BY <2>2
    <3> HIDE DEF cut
    <3>2. Sound(cut, ext, rank) /\ Live(cut) = Live(heap) /\ cut[n].parent = Null
          /\ cut[n] = Touched(heap[n], heap[n].ref - 1, Null)
      BY <1>1, <1>3, <2>2, <3>1, LetGoSound
    <3>3. p # Null /\ p = heap[n].parent /\ two = DetachFromParent(heap, n)
      BY <2>2
    <3> HIDE DEF p, two
    <3>4. /\ p \in Live(heap) /\ p # n /\ two \in Heaps
          /\ \A m \in Node \ {p} : two[m] = heap[m]
          /\ two[p].ref = heap[p].ref /\ two[p].parent = heap[p].parent
          /\ ToSet(two[p].child) = ToSet(heap[p].child) \ {n}
      BY <1>1, <1>3, <3>3, DetachedHeap
    <3>5. \A m \in Node \ {n} : cut[m] = two[m]
      <4>1. cut = [two EXCEPT ![n].parent = Null, ![n].ref = @ - 1]
        BY <3>1, <3>3 DEF LetGo
      <4>2. \A m \in Node \ {n} : [two EXCEPT ![n].parent = Null, ![n].ref = @ - 1][m] = two[m]
        BY <1>1, <1>3, <3>4 DEF Heaps
      <4> QED
        BY <4>1, <4>2
    <3>6. ToSet(cut[n].child) = ToSet(heap[n].child)
      <4>1. heap[n] \in GoodBlock /\ heap[n].ref - 1 \in Int
        BY <1>1, <1>3, LiveBlocks, BlockFields
      <4>2. Touched(heap[n], heap[n].ref - 1, Null).child = heap[n].child
        BY <4>1, TouchedGood
      <4> QED
        BY <3>2, <4>2
    <3>7. \A m \in Live(heap) \ {n} : cut[m].ref = heap[m].ref /\ cut[m].parent = heap[m].parent
      BY <1>3, <3>4, <3>5
    <3>8. \A m \in Live(heap) : ToSet(cut[m].child) \subseteq ToSet(heap[m].child)
      <4> TAKE m \in Live(heap)
      <4>1. CASE m = n
        BY <3>6, <4>1
      <4>2. CASE m = p
        BY <1>3, <3>4, <3>5, <4>2
      <4>3. CASE m # n /\ m # p
        BY <1>3, <3>4, <3>5, <4>3
      <4> QED
        BY <4>1, <4>2, <4>3
    <3>9. IsCut(heap, cut, n)
      <4>1. IsCut(heap, two, n)
        BY <1>1, <1>3, <2>2, <3>3, ParentDetached
      <4>2. Elem(cut[n]) = Elem(heap[n])
        <5> DEFINE one == heap[n].ref - 1
        <5>1. /\ heap[n] \in GoodBlock /\ one \in Int /\ Null \in Node \cup {Null}
              /\ cut[n] = Touched(heap[n], one, Null)
          BY <1>1, <1>3, <3>2, LiveBlocks, BlockFields
        <5> HIDE DEF one
        <5> QED
          BY <5>1, ElemTouched
      <4>3. \A m \in Live(heap) \ {n} : cut[m] = two[m]
        BY <1>3, <3>5
      <4>4. heap[n].parent # n
        BY <3>3, <3>4
      <4> QED
        BY <4>1, <4>2, <4>3, <4>4 DEF IsCut
    <3> QED
      BY <3>2, <3>7, <3>8, <3>9
  <2> QED
    BY <2>1, <2>2
<1> HIDE DEF cut
<1>6. /\ \A m \in Live(cut) \ {n} : cut[m].ref # 0
      /\ G \in SUBSET Node /\ ClosedIn(cut, G)
      /\ \A m \in G : m = n \/ cut[m].parent \in G
  <2>1. \A m \in Live(cut) \ {n} : cut[m].ref # 0
    BY <1>5 DEF Ordered, Referred
  <2>2. ClosedIn(cut, G)
    <3>1. \A m \in Live(heap) \cap G : ToSet(heap[m].child) \subseteq G
      BY <1>4 DEF ClosedIn
    <3>2. \A m \in Live(cut) \cap G : ToSet(cut[m].child) \subseteq G
      BY <1>5, <3>1
    <3> QED
      BY <3>2 DEF ClosedIn
  <2>3. \A m \in G : m = n \/ cut[m].parent \in G
    BY <1>4, <1>5
  <2> QED
    BY <1>3, <1>4, <2>1, <2>2, <2>3
<1> DEFINE new == heap'
           force == TRUE
<1>7. new = EmptyTheNode(cut, n, force) /\ n \in Live(cut) /\ force \in BOOLEAN
  BY <1>1, <1>2, <1>5
<1> HIDE DEF new, force
<1>8. /\ Sound(new, ext, rank) /\ Referred(new) /\ Live(new) \subseteq Live(cut)
      /\ \A m \in Node \ G : new[m] = cut[m]
      /\ force => \A m \in Live(new) \cap G : Blanked(new, m)
  BY <1>4, <1>5, <1>6, <1>7, EmptyContent
<1>9. Shape(heap', held')
  <2>1. Shape(new, held)
    BY <1>8 DEF Shape, ext, Ordered
  <2> QED
    BY <1>2, <2>1 DEF new
<1>10. TreeInv'
  BY <1>9 DEF TreeInv, Shape, Sound, Referred, Linked, Counted, Ranked, Live, ReferencesOf
<1> DEFINE T == TreeOf(heap)
           u == Document!Without(T, n)
           gone == Document!Within(T, {n})
           t == [m \in DOMAIN T |-> IF m \in gone THEN Document!Emptied ELSE u[m]]
<1>11. gone = G
  BY <1>1, BelowIsWithin DEF G
<1>12. u = TreeOf(cut)
  BY <1>1, <1>3, <1>5, CutTree
<1>13. DOMAIN T = Live(heap) /\ \A m \in Live(heap) : u[m] = Elem(cut[m])
  BY <1>5, <1>12, TreeFields
<1> HIDE DEF T, u, gone
<1>14. Describes(t, new)
  <2>1. DOMAIN t = Live(heap)
        /\ \A m \in Live(heap) : t[m] = IF m \in G THEN Document!Emptied ELSE Elem(cut[m])
    BY <1>11, <1>13
  <2> HIDE DEF t
  <2> SUFFICES ASSUME NEW m \in Live(new) PROVE m \in DOMAIN t /\ t[m] = Elem(new[m])
    BY DEF Describes
  <2>2. m \in Live(heap) /\ m \in Node
    BY <1>3, <1>5, <1>8
  <2>3. CASE m \in G
    <3>1. new[m] = Blank(new[m].ref) /\ new[m].ref \in Int
      <4>1. new[m] \in GoodBlock
        BY <1>8, LiveBlocks DEF Sound
      <4> QED
        BY <1>8, <2>3, <4>1, BlockFields DEF Blanked, force
    <3>2. new[m] \in GoodBlock /\ new[m].order = <<>> /\ new[m].named = FALSE
      BY <3>1, BlankGood
    <3>3. Elem(new[m]) = Document!Emptied
      BY <3>2, NewElem
    <3> QED
      BY <2>1, <2>2, <2>3, <3>3
  <2>4. CASE m \notin G
    BY <1>8, <2>1, <2>2, <2>4
  <2> QED
    BY <2>3, <2>4
<1> HIDE DEF t
<1>15. Document!Become(t, held)
  <2>1. Document!Become(t, held')
    BY <1>10, <1>14, StepKeeps DEF new
  <2> QED
    BY <1>2, <2>1 DEF Document!Become
<1> QED
  BY <1>0, <1>10, <1>15 DEF Document!DDeleteContent, t, gone, u, T, n, TreeOf, Elem

\* b with other children, as many.
Renamed(b, r, p, s) == [b EXCEPT !.ref = r, !.parent = p, !.child = s]
AsLong(s, t) == Len(s) = Len(t)
\* s is t under f.
Mapped(s, f, t) == \A i \in DOMAIN t : s[i] = f[t[i]]

\* A block is in order with other children, as many.
LEMMA RenamedGood ==
    ASSUME NEW b \in GoodBlock, NEW r \in Int, NEW p \in Node \cup {Null},
           NEW s \in Seq(Node), AsLong(s, b.child), NEW c, c = Renamed(b, r, p, s)
    PROVE  /\ c \in GoodBlock
           /\ c.ref = r /\ c.parent = p /\ c.child = s /\ c.named = b.named /\ c.order = b.order
           /\ \A type \in Types \ {"child"} : c[type] = b[type]
<1>1. b \in Block /\ InOrder(b)
  BY DEF GoodBlock
<1>2. /\ c \in Block
      /\ c.ref = r /\ c.parent = p /\ c.child = s /\ c.named = b.named /\ c.order = b.order
  BY <1>1 DEF Renamed, Block
<1>3. \A type \in Types \ {"child"} : c[type] = b[type]
  BY <1>1, TypeCases DEF Renamed, Block
<1>4. \A type \in Types : Len(c[type]) = Len(b[type])
  <2> TAKE type \in Types
  <2>1. CASE type = "child"
    BY <1>2, <2>1 DEF AsLong
  <2>2. CASE type # "child"
    BY <1>3, <2>2
  <2> QED
    BY <2>1, <2>2
<1>5. InOrder(c)
  <2>1. \A type \in Types : Entries(c, type) = Entries(b, type)
    BY <1>2 DEF Entries
  <2> SUFFICES ASSUME NEW type \in Types
               PROVE  /\ {c.order[k].index : k \in Entries(c, type)} = 0..Len(c[type]) - 1
                      /\ \A j, k \in Entries(c, type) : j < k => c.order[j].index < c.order[k].index
    BY DEF InOrder
  <2>2. /\ {b.order[k].index : k \in Entries(b, type)} = 0..Len(b[type]) - 1
        /\ \A j, k \in Entries(b, type) : j < k => b.order[j].index < b.order[k].index
    BY <1>1 DEF InOrder
  <2> QED
    BY <1>2, <1>4, <2>1, <2>2
<1> QED
  BY <1>2, <1>3, <1>5 DEF GoodBlock

\* A renamed block, in the tree.
LEMMA RenamedElem ==
    ASSUME NEW b \in GoodBlock, NEW r \in Int, NEW p \in Node \cup {Null},
           NEW s \in Seq(Node), AsLong(s, b.child), NEW f,
           Mapped(s, f, b.child), NEW c, c = Renamed(b, r, p, s)
    PROVE  Elem(c) = Document!Copied(Elem(b), f)
<1> DEFINE N == Len(b.order)
           u == Contents(b)
           v == Contents(c)
           w == [k \in DOMAIN u |-> IF u[k].type = "child" THEN Document!Child(f[u[k].is]) ELSE u[k]]
<1>1. /\ c \in GoodBlock
      /\ c.child = s /\ c.named = b.named /\ c.order = b.order
      /\ \A type \in Types \ {"child"} : c[type] = b[type]
  <2>1. /\ b \in GoodBlock /\ r \in Int /\ p \in Node \cup {Null} /\ s \in Seq(Node)
        /\ AsLong(s, b.child) /\ c = Renamed(b, r, p, s)
    OBVIOUS
  <2>2. c \in GoodBlock
    BY ONLY <2>1, RenamedGood
  <2>3. b \in Block
    BY DEF GoodBlock
  <2>4. c.child = s /\ c.named = b.named /\ c.order = b.order
    BY <2>3 DEF Renamed, Block
  <2>5. \A type \in Types \ {"child"} : c[type] = b[type]
    BY <2>3, TypeCases DEF Renamed, Block
  <2> QED
    BY ONLY <2>2, <2>4, <2>5
<1>2. /\ DOMAIN u = 1..N
      /\ \A k \in 1..N : /\ u[k] = ItemOf(b.order[k].type, b[b.order[k].type][b.order[k].index + 1])
                         /\ b.order[k].type \in Types
                         /\ b.order[k].index + 1 \in 1..Len(b[b.order[k].type])
  BY ContentsFields DEF At
<1>3. /\ DOMAIN v = 1..N /\ v \in Seq(Item)
      /\ \A k \in 1..N : v[k] = ItemOf(b.order[k].type, c[b.order[k].type][b.order[k].index + 1])
  <2>1. /\ Len(c.order) = N /\ DOMAIN v = 1..Len(c.order) /\ v \in Seq(Item)
        /\ \A k \in 1..Len(c.order) : v[k] = At(c, k)
    BY <1>1, ContentsFields
  <2> QED
    BY <1>1, <2>1 DEF At
<1>4. b.child \in Seq(Node) /\ DOMAIN b.child = 1..Len(b.child)
  <2>1. b.child \in Seq(Node)
    BY BlockFields
  <2> QED
    BY <2>1
<1> HIDE DEF u, v, N
<1>5. ASSUME NEW k \in 1..N
      PROVE  v[k] = w[k]
  <2> DEFINE type == b.order[k].type
             x == b.order[k].index + 1
  <2>1. /\ type \in Types /\ x \in 1..Len(b[type])
        /\ u[k] = ItemOf(type, b[type][x]) /\ v[k] = ItemOf(type, c[type][x])
    BY <1>2, <1>3
  <2>2. w[k] = IF u[k].type = "child" THEN Document!Child(f[u[k].is]) ELSE u[k]
    BY <1>2
  <2> HIDE DEF type, x, w
  <2>3. u[k].type = type /\ u[k].is = b[type][x]
    BY <2>1, ItemFields
  <2>4. CASE type = "child"
    <3>1. c[type][x] = f[b[type][x]]
      <4>1. s[x] = f[b.child[x]]
        BY <1>4, <2>1, <2>4 DEF Mapped
      <4> QED
        BY <1>1, <2>4, <4>1
    <3>2. Document!Child(f[b[type][x]]) = ItemOf("child", f[b[type][x]])
      BY ItemFields
    <3> QED
      BY <2>1, <2>2, <2>3, <2>4, <3>1, <3>2
  <2>5. CASE type # "child"
    BY <1>1, <2>1, <2>2, <2>3, <2>5
  <2> QED
    BY <2>4, <2>5
<1>6. v = w
  <2>1. DOMAIN w = 1..N
    BY <1>2
  <2>2. v = [k \in 1..N |-> v[k]]
    BY <1>3
  <2>3. w = [k \in 1..N |-> w[k]]
    BY <1>2
  <2> HIDE DEF w
  <2>4. [k \in 1..N |-> v[k]] = [k \in 1..N |-> w[k]]
    BY <1>5
  <2> QED
    BY <2>2, <2>3, <2>4
<1>7. Document!Copied(Elem(b), f) = [Elem(b) EXCEPT !.items = w]
  <2>1. Elem(b).items = u
    BY ElemFields DEF u
  <2> QED
    BY <2>1 DEF Document!Copied
<1> HIDE DEF w
<1>8. [Elem(b) EXCEPT !.items = w] = [named |-> b.named, items |-> w]
  BY DEF Elem
<1> QED
  BY <1>1, <1>6, <1>7, <1>8 DEF Elem, v

\* The copy of x, when n is copied and f says where to.
CopiedBlock(f, n, x) ==
    Renamed(heap[x], IF x = n THEN 0 ELSE 1, IF x = n THEN Null ELSE f[heap[x].parent],
            [i \in DOMAIN heap[x].child |-> f[heap[x].child[i]]])

\* The heap before the handle is set, in deepCopy.
CopiedHeap(f, n) ==
    [m \in Node |-> IF m \in Range(f) THEN CopiedBlock(f, n, CHOOSE x \in Below(n) : f[x] = m)
                    ELSE heap[m]]

\* One block of a deepCopy: counted by its parent's array, with the copies of the
\* children for children.
LEMMA CopiedBlockGood ==
    ASSUME NEW rank, Ordered(rank), NEW n \in Live(heap), NEW x \in Below(n),
           NEW f \in [Below(n) -> Node], IsInjective(f),
           NEW c, c = CopiedBlock(f, n, x)
    PROVE  /\ c \in GoodBlock
           /\ c.ref = (IF x = n THEN 0 ELSE 1)
           /\ x = n => c.parent = Null
           /\ x # n => heap[x].parent \in Below(n) /\ c.parent = f[heap[x].parent]
           /\ ToSet(heap[x].child) \subseteq Below(n)
           /\ ToSet(c.child) = {f[y] : y \in ToSet(heap[x].child)}
           /\ IsInjective(c.child)
           /\ Elem(c) = Document!Copied(Elem(heap[x]), f)
<1> DEFINE G == Below(n)
           b == heap[x]
           s == b.child
           t == [i \in DOMAIN s |-> f[s[i]]]
           r == IF x = n THEN 0 ELSE 1
           p == IF x = n THEN Null ELSE f[b.parent]
           ext == ReferencesOf(held)
<1>1. Sound(heap, ext, rank) /\ heap \in Heaps /\ Live(heap) \subseteq Node
  BY LiveBlocks DEF Ordered, Sound
<1>2. /\ n \in G /\ G \subseteq Live(heap) /\ ClosedIn(heap, G)
      /\ \A m \in G : m = n \/ heap[m].parent \in G
  <2> HIDE DEF ext
  <2> QED
    BY <1>1, BelowFacts
<1> HIDE DEF G
<1>3. /\ f \in [G -> Node] /\ x \in G
      /\ \A y, z \in G : f[y] = f[z] => y = z
  BY DEF G, IsInjective
<1>4. b \in GoodBlock /\ s \in Seq(Node) /\ IsInjective(s) /\ ToSet(s) \subseteq G
  <2>1. b \in GoodBlock /\ x \in Live(heap)
    BY <1>1, <1>2, <1>3, LiveBlocks
  <2>2. IsInjective(s) /\ ToSet(s) \subseteq G
    BY <1>1, <1>2, <1>3, <2>1 DEF Sound, Linked, ClosedIn
  <2> QED
    BY <2>1, <2>2, BlockFields
<1>5. c = Renamed(b, r, p, t)
  BY DEF CopiedBlock
<1>6. r \in Int /\ p \in Node \cup {Null}
  BY <1>2, <1>3
<1>7. \A i \in DOMAIN s : s[i] \in ToSet(s) /\ s[i] \in G /\ f[s[i]] \in Node
  <2>1. \A i \in DOMAIN s : s[i] \in ToSet(s)
    BY DEF ToSet
  <2> HIDE DEF s
  <2> QED
    BY <1>3, <1>4, <2>1
<1>8. t \in Seq(Node) /\ Len(t) = Len(s) /\ DOMAIN t = DOMAIN s /\ \A i \in DOMAIN s : t[i] = f[s[i]]
  <2> HIDE DEF s
  <2>1. Len(s) \in Nat /\ DOMAIN s = 1..Len(s)
    BY <1>4
  <2>2. t \in [1..Len(s) -> Node] /\ \A i \in DOMAIN s : t[i] = f[s[i]]
    BY <1>7, <2>1
  <2> HIDE DEF t
  <2>3. t \in Seq(Node) /\ Len(t) = Len(s) /\ DOMAIN t = DOMAIN s
    BY <2>1, <2>2
  <2> QED
    BY <2>2, <2>3
<1>9. IsInjective(t)
  <2>1. \A i, j \in DOMAIN s : s[i] = s[j] => i = j
    BY <1>4 DEF IsInjective
  <2> HIDE DEF s, t
  <2>2. \A i, j \in DOMAIN t : t[i] = t[j] => i = j
    BY <1>3, <1>7, <1>8, <2>1
  <2> QED
    BY <2>2 DEF IsInjective
<1>10. ToSet(t) = {f[y] : y \in ToSet(s)}
  <2> HIDE DEF s, t
  <2> QED
    BY <1>8 DEF ToSet
<1>15. \A i \in DOMAIN b.child : t[i] = f[b.child[i]]
  BY <1>8
<1> HIDE DEF t
<1>11. /\ c \in GoodBlock /\ c.ref = r /\ c.parent = p /\ c.child = t
      /\ Elem(c) = Document!Copied(Elem(b), f)
  <2>1. b \in GoodBlock
    BY <1>4
  <2>2. t \in Seq(Node)
    BY <1>8
  <2>3. AsLong(t, b.child)
    BY <1>8 DEF AsLong
  <2>4. r \in Int
    BY <1>6
  <2>5. p \in Node \cup {Null}
    BY <1>6
  <2>9. Mapped(t, f, b.child)
    BY <1>15 DEF Mapped
  <2> HIDE DEF r, p, b, s
  <2>6. c = Renamed(b, r, p, t)
    BY <1>5
  <2> DEFINE c2 == Renamed(b, r, p, t)
  <2>7. c2 = Renamed(b, r, p, t)
    OBVIOUS
  <2> HIDE DEF c2
  <2>8. c2 \in GoodBlock /\ c2.ref = r /\ c2.parent = p /\ c2.child = t
    BY <2>1, <2>2, <2>3, <2>4, <2>5, <2>7, RenamedGood
  <2>10. Elem(c2) = Document!Copied(Elem(b), f)
    BY <2>1, <2>2, <2>3, <2>4, <2>5, <2>7, <2>9, RenamedElem
  <2> QED
    BY <2>6, <2>8, <2>10 DEF c2
<1>12. x # n => heap[x].parent \in G /\ c.parent = f[heap[x].parent]
  BY <1>2, <1>3, <1>11
<1>13. x = n => c.parent = Null
  BY <1>11
<1> QED
  BY <1>4, <1>9, <1>10, <1>11, <1>12, <1>13 DEF G

\* deepCopy: each copy ranks as its original.
LEMMA DeepCopyTree ==
    ASSUME NEW rank, Ordered(rank), NEW h \in Handle, NEW g \in Handle, DeepCopy(h, g)
    PROVE  TreeInv' /\ Document!DDeepCopy(h, g)
<1> DEFINE n == held[h]
           G == Below(n)
           ext == ReferencesOf(held)
<1>1. PICK f \in Injection(G, Node \ Live(heap)) : Put(CopiedHeap(f, n), g, f[n])
  BY DEF DeepCopy, CopiedHeap, CopiedBlock, Renamed
<1>2. n \in Live(heap)
  BY HandlesLive DEF DeepCopy
<1>3. /\ Sound(heap, ext, rank) /\ heap \in Heaps /\ Live(heap) \subseteq Node
      /\ Null \notin Node /\ held \in [Handle -> Node \cup {Null}]
      /\ ext \in [Node -> Nat] /\ rank \in [Node -> Nat]
      /\ Linked(heap) /\ Ranked(heap, rank) /\ Counted(heap, ext) /\ Referred(heap)
  BY LiveBlocks, TreeAssumption DEF Ordered, Sound
<1> HIDE DEF n, ext
<1>4. /\ n \in G /\ G \subseteq Live(heap) /\ heap[n].parent \notin G
  BY <1>2, <1>3, BelowFacts
<1>5. /\ f \in [G -> Node] /\ IsInjective(f) /\ DOMAIN f = G
      /\ \A x \in G : f[x] \in Node /\ f[x] \notin Live(heap)
      /\ \A x, y \in G : f[x] = f[y] => x = y
  BY <1>1 DEF Injection, IsInjective
<1> DEFINE hp == CopiedHeap(f, n)
           R == Range(f)
           Origin(m) == CHOOSE x \in G : f[x] = m
           r == [m \in Node |-> IF m \in R THEN rank[Origin(m)] ELSE rank[m]]
<1>6. /\ \A x \in G : f[x] \in R /\ Origin(f[x]) = x
      /\ \A m \in R : m \in Node /\ m \notin Live(heap) /\ \E x \in G : m = f[x]
  BY <1>5 DEF Range
<1>7. /\ \A x \in G : hp[f[x]] = CopiedBlock(f, n, x)
      /\ \A m \in Node \ R : hp[m] = heap[m]
      /\ hp = [m \in Node |-> hp[m]]
  BY <1>5, <1>6 DEF CopiedHeap
<1>8. /\ r \in [Node -> Nat]
      /\ \A x \in G : r[f[x]] = rank[x]
      /\ \A m \in Live(heap) : r[m] = rank[m]
  <2>1. \A m \in Node : r[m] = IF m \in R THEN rank[Origin(m)] ELSE rank[m]
    OBVIOUS
  <2>2. \A x \in G : x \in Node
    BY <1>3, <1>4
  <2>3. ASSUME NEW m \in Node PROVE r[m] \in Nat
    <3>1. CASE m \in R
      <4>1. PICK x \in G : m = f[x]
        BY <1>6, <3>1
      <4> QED
        BY <1>3, <1>6, <2>1, <2>2, <3>1, <4>1
    <3>2. CASE m \notin R
      BY <1>3, <2>1, <3>2
    <3> QED
      BY <3>1, <3>2
  <2>4. r = [m \in Node |-> r[m]]
    OBVIOUS
  <2> HIDE DEF r, R, Origin
  <2>5. r \in [Node -> Nat]
    BY <2>3, <2>4
  <2> QED
    BY <1>3, <1>5, <1>6, <2>1, <2>5
<1> HIDE DEF G, hp, R, Origin, r
<1>9. ASSUME NEW x \in G
      PROVE  /\ hp[f[x]] \in GoodBlock
             /\ hp[f[x]].ref = (IF x = n THEN 0 ELSE 1)
             /\ x = n => hp[f[x]].parent = Null
             /\ x # n => /\ heap[x].parent \in G /\ heap[x].parent # Null
                         /\ hp[f[x]].parent = f[heap[x].parent]
             /\ ToSet(heap[x].child) \subseteq G
             /\ ToSet(hp[f[x]].child) = {f[y] : y \in ToSet(heap[x].child)}
             /\ IsInjective(hp[f[x]].child)
             /\ Elem(hp[f[x]]) = Document!Copied(Elem(heap[x]), f)
  <2> DEFINE c == hp[f[x]]
  <2>1. c = CopiedBlock(f, n, x)
    BY <1>7
  <2> HIDE DEF c
  <2>2. x \in Below(n) /\ f \in [Below(n) -> Node]
    BY <1>5 DEF G
  <2>3. /\ c \in GoodBlock
        /\ c.ref = (IF x = n THEN 0 ELSE 1)
        /\ x = n => c.parent = Null
        /\ x # n => heap[x].parent \in Below(n) /\ c.parent = f[heap[x].parent]
        /\ ToSet(heap[x].child) \subseteq Below(n)
        /\ ToSet(c.child) = {f[y] : y \in ToSet(heap[x].child)}
        /\ IsInjective(c.child)
        /\ Elem(c) = Document!Copied(Elem(heap[x]), f)
    BY <1>2, <1>5, <2>1, <2>2, CopiedBlockGood
  <2> QED
    BY <1>3, <1>4, <2>3 DEF c, G
<1>10. hp \in Heaps
  <2>1. ASSUME NEW m \in Node PROVE hp[m] \in GoodBlock \cup {Free}
    <3>1. CASE m \in R
      BY <1>6, <1>9, <3>1
    <3>2. CASE m \notin R
      BY <1>3, <1>7, <3>2 DEF Heaps
    <3> QED
      BY <3>1, <3>2
  <2> QED
    BY <1>7, <2>1 DEF Heaps
<1>11. Live(hp) = Live(heap) \cup R
  <2>1. R \subseteq Live(hp)
    BY <1>6, <1>9, <1>10, LiveBlocks
  <2> QED
    BY <1>6, <1>7, <2>1 DEF Live
<1>12. \A m \in Live(heap) : m \notin R /\ m \in Node /\ hp[m] = heap[m]
  BY <1>3, <1>6, <1>7
<1>13. ASSUME NEW x \in G, x # n
       PROVE  /\ heap[x].parent \in Live(heap) /\ x \in ToSet(heap[heap[x].parent].child)
              /\ rank[heap[x].parent] < rank[x]
  BY <1>3, <1>4, <1>9, <1>13 DEF Linked, Ranked
<1>14. Linked(hp)
  <2>1. ASSUME NEW m \in Live(heap)
        PROVE  /\ hp[m].parent # Null =>
                     hp[m].parent \in Live(hp) /\ m \in ToSet(hp[hp[m].parent].child)
               /\ \A y \in ToSet(hp[m].child) : y \in Live(hp) /\ hp[y].parent = m
               /\ IsInjective(hp[m].child)
    <3>1. /\ heap[m].parent # Null =>
                 heap[m].parent \in Live(heap) /\ m \in ToSet(heap[heap[m].parent].child)
          /\ \A y \in ToSet(heap[m].child) : y \in Live(heap) /\ heap[y].parent = m
          /\ IsInjective(heap[m].child)
      BY <1>3 DEF Linked
    <3> QED
      BY <1>11, <1>12, <3>1
  <2>2. ASSUME NEW x \in G
        PROVE  /\ hp[f[x]].parent # Null =>
                     hp[f[x]].parent \in Live(hp) /\ f[x] \in ToSet(hp[hp[f[x]].parent].child)
               /\ \A y \in ToSet(hp[f[x]].child) : y \in Live(hp) /\ hp[y].parent = f[x]
               /\ IsInjective(hp[f[x]].child)
    <3>1. ASSUME hp[f[x]].parent # Null
          PROVE  hp[f[x]].parent \in Live(hp) /\ f[x] \in ToSet(hp[hp[f[x]].parent].child)
      <4> DEFINE p == heap[x].parent
      <4>1. x # n
        BY <1>9, <3>1
      <4>2. p \in G /\ hp[f[x]].parent = f[p] /\ x \in ToSet(heap[p].child)
        BY <1>9, <1>13, <4>1
      <4> HIDE DEF p
      <4>3. f[p] \in R /\ ToSet(hp[f[p]].child) = {f[y] : y \in ToSet(heap[p].child)}
        BY <1>6, <1>9, <4>2
      <4> QED
        BY <1>11, <4>2, <4>3
    <3>2. ASSUME NEW z \in ToSet(hp[f[x]].child)
          PROVE  z \in Live(hp) /\ hp[z].parent = f[x]
      <4>0. ToSet(hp[f[x]].child) = {f[y] : y \in ToSet(heap[x].child)}
        BY <1>9
      <4>1. PICK y \in ToSet(heap[x].child) : z = f[y]
        BY <4>0
      <4>2. y \in G /\ x \in Live(heap) /\ heap[y].parent = x
        BY <1>3, <1>4, <1>9 DEF Linked
      <4>3. y # n
        BY <1>4, <4>2
      <4>4. hp[f[y]].parent = f[x]
        BY <1>9, <4>2, <4>3
      <4> QED
        BY <1>6, <1>11, <4>1, <4>2, <4>4
    <3> QED
      BY <1>9, <3>1, <3>2
  <2>3. ASSUME NEW m \in Live(hp)
        PROVE  /\ hp[m].parent # Null =>
                     hp[m].parent \in Live(hp) /\ m \in ToSet(hp[hp[m].parent].child)
               /\ \A y \in ToSet(hp[m].child) : y \in Live(hp) /\ hp[y].parent = m
               /\ IsInjective(hp[m].child)
    <3>1. CASE m \in Live(heap)
      BY <2>1, <3>1
    <3>2. CASE m \in R
      <4>1. PICK x \in G : m = f[x]
        BY <1>6, <3>2
      <4> QED
        BY <2>2, <4>1
    <3> QED
      BY <1>11, <3>1, <3>2
  <2> QED
    BY <2>3 DEF Linked
<1>15. Ranked(hp, r)
  <2> SUFFICES ASSUME NEW m \in Live(hp), hp[m].parent # Null
               PROVE  r[hp[m].parent] < r[m]
    BY DEF Ranked
  <2>1. CASE m \in Live(heap)
    <3>1. heap[m].parent # Null /\ heap[m].parent \in Live(heap) /\ rank[heap[m].parent] < rank[m]
      BY <1>3, <1>12, <2>1 DEF Linked, Ranked
    <3> QED
      BY <1>8, <1>12, <2>1, <3>1
  <2>2. CASE m \in R
    <3>1. PICK x \in G : m = f[x]
      BY <1>6, <2>2
    <3>2. x # n
      BY <1>9, <3>1
    <3>3. heap[x].parent \in G /\ hp[m].parent = f[heap[x].parent] /\ rank[heap[x].parent] < rank[x]
      BY <1>9, <1>13, <3>1, <3>2
    <3> QED
      BY <1>8, <3>1, <3>3
  <2> QED
    BY <1>11, <2>1, <2>2
<1>16. Counted(hp, ext)
  <2>1. ASSUME NEW m \in Live(hp)
        PROVE  hp[m].ref = ext[m] + (IF hp[m].parent = Null THEN 0 ELSE 1)
    <3>1. CASE m \in Live(heap)
      BY <1>3, <1>12, <3>1 DEF Counted
    <3>2. CASE m \in R
      <4>1. PICK x \in G : m = f[x]
        BY <1>6, <3>2
      <4>2. ext[m] = 0
        BY <1>3, <1>6, <3>2 DEF Counted
      <4>3. CASE x = n
        BY <1>9, <4>1, <4>2, <4>3
      <4>4. CASE x # n
        <5>1. heap[x].parent \in G /\ hp[m].parent = f[heap[x].parent] /\ hp[m].ref = 1
          BY <1>9, <4>1, <4>4
        <5>2. hp[m].parent # Null
          BY <1>3, <1>5, <5>1
        <5> QED
          BY <4>2, <5>1, <5>2
      <4> QED
        BY <4>3, <4>4
    <3> QED
      BY <1>11, <3>1, <3>2
  <2>2. \A m \in Node \ Live(hp) : ext[m] = 0
    BY <1>3, <1>11 DEF Counted
  <2> QED
    BY <2>1, <2>2 DEF Counted
<1>17. Sound(hp, ReferencesOf(held), r)
  BY <1>3, <1>8, <1>10, <1>14, <1>15, <1>16 DEF Sound, ext
<1> DEFINE top == f[n]
<1>18. \A m \in Live(hp) \ {top} : hp[m].ref # 0
  <2> TAKE m \in Live(hp) \ {top}
  <2>1. CASE m \in Live(heap)
    BY <1>3, <1>12, <2>1 DEF Referred
  <2>2. CASE m \in R
    <3>1. PICK x \in G : m = f[x]
      BY <1>6, <2>2
    <3>2. x # n
      BY <3>1
    <3> QED
      BY <1>9, <3>1, <3>2
  <2> QED
    BY <1>11, <2>1, <2>2
<1>19. top \in Live(hp) \cup {Null} /\ Put(hp, g, top)
  BY <1>1, <1>4, <1>6, <1>11 DEF hp
<1> DEFINE T == TreeOf(heap)
           t == [m \in DOMAIN T \cup R |->
                    IF m \in R THEN Document!Copied(T[CHOOSE x \in DOMAIN f : f[x] = m], f) ELSE T[m]]
<1>20. DOMAIN T = Live(heap) /\ \A m \in Live(heap) : T[m] = Elem(heap[m])
  BY TreeFields
<1> HIDE DEF top, T
<1>21. Describes(t, hp)
  <2>1. DOMAIN t = Live(heap) \cup R
        /\ \A m \in Live(heap) : t[m] = Elem(heap[m])
    BY <1>12, <1>20
  <2>2. \A x \in G : t[f[x]] = Document!Copied(T[x], f)
    <3> TAKE x \in G
    <3>1. f[x] \in R /\ x = CHOOSE y \in DOMAIN f : f[y] = f[x]
      BY <1>5, <1>6
    <3> QED
      BY <3>1
  <2> HIDE DEF t
  <2>3. \A m \in Live(heap) : m \in DOMAIN t /\ t[m] = Elem(hp[m])
    BY <1>12, <2>1
  <2>4. \A m \in R : m \in DOMAIN t /\ t[m] = Elem(hp[m])
    <3> TAKE m \in R
    <3>1. PICK x \in G : m = f[x]
      BY <1>6
    <3>2. T[x] = Elem(heap[x])
      BY <1>4, <1>20
    <3> QED
      BY <1>9, <2>1, <2>2, <3>1, <3>2
  <2> QED
    BY <1>11, <2>3, <2>4 DEF Describes
<1>22. TreeInv' /\ Document!Become(t, held') /\ held' = Document!Set(g, top)
  <2> HIDE DEF t
  <2> QED
    BY <1>3, <1>17, <1>18, <1>19, <1>21, PutBecomes
<1>23. f \in Document!Injection(Document!Within(T, {n}), Node \ Live(heap))
  <2>1. Document!Within(T, {n}) = G
    BY <1>2, BelowIsWithin DEF G, T
  <2> QED
    BY <1>1, <2>1, SameLibrary
<1>24. n # Null
  BY <1>2, <1>3
<1>25. t = [m \in DOMAIN T \cup Document!Range(f) |->
               IF m \in Document!Range(f)
               THEN Document!Copied(T[CHOOSE x \in DOMAIN f : f[x] = m], f) ELSE T[m]]
  BY SameLibrary DEF R
<1> HIDE DEF t
<1> QED
  BY <1>20, <1>22, <1>23, <1>24, <1>25
     DEF Document!DDeepCopy, Document!Fresh, Document!Become, T, n, top, TreeOf, Elem

-----------------------------------------------------------------------------
(* The invariant and the refinement.                                       *)

\* No step of the program breaks the invariant, and each is a step of the document.
LEMMA NextTree == TreeInv /\ [Next]_xvars => TreeInv' /\ [Document!DNext]_(Document!dvars)
<1> SUFFICES ASSUME TreeInv, [Next]_xvars
             PROVE  TreeInv' /\ [Document!DNext]_(Document!dvars)
  OBVIOUS
<1>1. PICK rank : Ordered(rank)
  BY DEF TreeInv, Shape, Ordered
<1>2. ASSUME NEW h \in Handle, NEW g \in Handle, AddChildByName(h, g)
      PROVE  TreeInv' /\ Document!DNext
  BY <1>1, <1>2, AddChildByNameTree DEF Document!DNext
<1>3. ASSUME NEW h \in Handle, NEW g \in Handle, AddChildNode(h, g)
      PROVE  TreeInv' /\ Document!DNext
  BY <1>1, <1>3, AddChildNodeTree DEF Document!DNext
<1>4. ASSUME NEW h \in Handle, NEW g \in Handle, GetChildNode(h, g)
      PROVE  TreeInv' /\ Document!DNext
  BY <1>1, <1>4, GetChildNodeTree DEF Document!DNext
<1>5. ASSUME NEW h \in Handle, NEW g \in Handle, GetParentNode(h, g)
      PROVE  TreeInv' /\ Document!DNext
  BY <1>1, <1>5, GetParentNodeTree DEF Document!DNext
<1>6. ASSUME NEW h \in Handle, NEW g \in Handle, Assign(h, g)
      PROVE  TreeInv' /\ Document!DNext
  BY <1>1, <1>6, AssignTree DEF Document!DNext
<1>7. ASSUME NEW h \in Handle, NEW g \in Handle, DeepCopy(h, g)
      PROVE  TreeInv' /\ Document!DNext
  BY <1>1, <1>7, DeepCopyTree DEF Document!DNext
<1>8. ASSUME NEW h \in Handle, CreateTop(h)
      PROVE  TreeInv' /\ Document!DNext
  BY <1>1, <1>8, CreateTopTree DEF Document!DNext
<1>9. ASSUME NEW h \in Handle, Drop(h)
      PROVE  TreeInv' /\ Document!DNext
  BY <1>1, <1>9, DropTree DEF Document!DNext
<1>10. ASSUME NEW h \in Handle, DeleteNodeContent(h)
       PROVE  TreeInv' /\ Document!DNext
  BY <1>1, <1>10, DeleteNodeContentTree DEF Document!DNext
<1>11. ASSUME NEW h \in Handle, NEW type \in Leaves, DeleteLeaf(h, type)
       PROVE  TreeInv' /\ Document!DNext
  BY <1>1, <1>11, DeleteLeafTree DEF Document!DNext
<1>12. ASSUME NEW h \in Handle, NEW type \in Leaves, NEW v \in Value, AddLeaf(h, type, v)
       PROVE  TreeInv' /\ Document!DNext
  BY <1>1, <1>12, AddLeafTree DEF Document!DNext
<1>13. CASE UNCHANGED xvars
  <2>1. TreeInv'
    BY <1>13 DEF xvars, TreeInv, Shape, Sound, Referred, Linked, Counted, Ranked, Live, ReferencesOf
  <2>2. UNCHANGED Document!dvars
    BY <1>13 DEF xvars, Document!dvars, Live, Contents
  <2> QED
    BY <2>1, <2>2
<1> QED
  BY <1>2, <1>3, <1>4, <1>5, <1>6, <1>7, <1>8, <1>9, <1>10, <1>11, <1>12, <1>13 DEF Next

\* The empty heap stands for the empty document.
LEMMA DocumentInit == Init => Document!DInit
<1> SUFFICES ASSUME Init PROVE Document!DInit
  OBVIOUS
<1>1. Live(heap) = {}
  BY DEF Init, Live
<1> DEFINE t == [n \in Live(heap) |-> [named |-> heap[n].named, items |-> Contents(heap[n])]]
<1>2. t = <<>>
  BY <1>1
<1> HIDE DEF t
<1> QED
  BY <1>2 DEF Document!DInit, Init, t

\* The invariant has the counts exact: the array of the parent is the only one an
\* element is in, and it is there once.
LEMMA TreeCounts == TreeInv => CountsAreExact
<1> SUFFICES ASSUME TreeInv PROVE CountsAreExact
  OBVIOUS
<1>1. PICK rank : Ordered(rank)
  BY DEF TreeInv, Shape, Ordered
<1>2. /\ heap \in Heaps /\ Live(heap) \subseteq Node /\ Null \notin Node
      /\ held \in [Handle -> Node \cup {Null}]
      /\ Linked(heap) /\ Counted(heap, ReferencesOf(held))
      /\ \A n \in Live(heap) : heap[n].parent \in Node \cup {Null}
  BY <1>1, LiveBlocks, BlockFields, TreeAssumption DEF Ordered, Sound
<1>3. Range(held) \subseteq Live(heap) \cup {Null}
  BY <1>1, <1>2, HandlesLive DEF Range
<1>4. ASSUME NEW n \in Live(heap)
      PROVE  LET b == heap[n]
                 holders == {p \in Live(heap) : n \in ToSet(heap[p].child)}
             IN  /\ b.ref = Cardinality({h \in Handle : held[h] = n}) + Cardinality(holders)
                 /\ holders = {b.parent} \ {Null}
                 /\ IsInjective(b.child)
  <2> DEFINE p == heap[n].parent
             holders == {q \in Live(heap) : n \in ToSet(heap[q].child)}
             handles == {h \in Handle : held[h] = n}
  <2>1. holders = {p} \ {Null} /\ IsInjective(heap[n].child)
    BY <1>2 DEF Linked
  <2>2. heap[n].ref = Cardinality(handles) + (IF p = Null THEN 0 ELSE 1)
    BY <1>2 DEF Counted, ReferencesOf
  <2>3. Cardinality(holders) = IF p = Null THEN 0 ELSE 1
    <3>1. CASE p = Null
      <4>1. holders = {}
        BY <2>1, <3>1
      <4> HIDE DEF holders
      <4> QED
        BY <3>1, <4>1, FS_EmptySet
    <3>2. CASE p # Null
      <4>1. holders = {p}
        BY <2>1, <3>2
      <4> HIDE DEF holders, p
      <4> QED
        BY <3>2, <4>1, FS_Singleton
    <3> QED
      BY <3>1, <3>2
  <2>4. heap[n].ref = Cardinality(handles) + Cardinality(holders)
    <3> HIDE DEF handles, holders
    <3> QED
      BY <2>2, <2>3
  <2> HIDE DEF p
  <2> QED
    BY <2>1, <2>4 DEF p
<1> QED
  BY <1>3, <1>4 DEF CountsAreExact

\* The invariant has pOrder exact.
LEMMA TreeOrder == TreeInv => OrderIsExact
<1> SUFFICES ASSUME TreeInv, NEW n \in Live(heap) PROVE InOrder(heap[n])
  BY DEF OrderIsExact
<1>1. heap \in Heaps
  BY DEF TreeInv, Shape, Sound
<1>2. heap[n] \in GoodBlock
  BY <1>1, LiveBlocks
<1> QED
  BY <1>2 DEF GoodBlock

\* The invariant holds of every state, for any number of elements, handles and texts:
\* the tree stays a forest, in which counts, parent links, arrays and orders agree and
\* nothing is kept that nobody refers to (xmlParser.cpp: addChild, detachFromParent,
\* emptyTheNode, operator=, deepCopy, deleteNodeContent).
THEOREM TreeInvariance == Spec => []TreeInv
<1>1. Init => TreeInv
  BY InitTree
<1>2. TreeInv /\ [Next]_xvars => TreeInv'
  BY NextTree
<1> QED
  BY <1>1, <1>2, PTL DEF Spec

\* The count of an element is the number of handles and arrays that refer to it, after
\* any sequence of calls: none is freed while it is referred to (xmlParser.cpp:
\* emptyTheNode, operator=, detachFromParent).
THEOREM CountsCorrect == Spec => []CountsAreExact
BY TreeInvariance, TreeCounts, PTL

\* pOrder lists each content once, those of one type in the order of their array, after
\* any sequence of calls (xmlParser.cpp: addToOrder, removeOrderElement).
THEOREM OrderCorrect == Spec => []OrderIsExact
BY TreeInvariance, TreeOrder, PTL

\* Every operation does to the elements and handles what XmlDocument says of it.
THEOREM DocumentImplemented == Spec => ImplementsDocument
<1>1. Init => TreeInv /\ Document!DInit
  BY InitTree, DocumentInit
<1>2. TreeInv /\ [Next]_xvars => TreeInv' /\ [Document!DNext]_(Document!dvars)
  BY NextTree
<1> QED
  BY <1>1, <1>2, PTL DEF Spec, ImplementsDocument, Document!DSpec
=============================================================================
