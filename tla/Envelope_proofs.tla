-------------------------- MODULE Envelope_proofs ---------------------------
(* Proofs about Envelope with PartHeader, for numbers of any length and     *)
(* headers of any elements: where each piece of an SMS lies, and what the   *)
(* receiver reads there.                                                    *)
EXTENDS Envelope, Codecs_proofs

-----------------------------------------------------------------------------
(* The user data header.                                                   *)

Found == [ref : Seq(Nat), total : Nat, number : Nat]
WalkTypes == [ok : BOOLEAN, pos : Nat, found : Found]

\* What stands in a part of a sequence.
LEMMA PartOf ==
    ASSUME NEW S, NEW s \in Seq(S), NEW a \in 1..(Len(s) + 1), NEW b \in 0..Len(s), a <= b + 1
    PROVE  LET part == SubSeq(s, a, b)
           IN  /\ part \in Seq(S) /\ Len(part) = b - a + 1
               /\ \A i \in 1..(b - a + 1) : part[i] = s[a + i - 1]
<1> DEFINE part == SubSeq(s, a, b)
<1>0. a \in Int /\ b \in Int /\ Len(s) \in Nat
  OBVIOUS
<1>1. \A i \in a..b : s[i] \in S
  <2>1. \A i \in a..b : i \in 1..Len(s)
    BY <1>0
  <2> QED
    BY <2>1
<1>2. /\ part \in Seq(S) /\ Len(part) = IF a <= b THEN b - a + 1 ELSE 0
      /\ \A i \in 1..(b - a + 1) : part[i] = s[a + i - 1]
  BY <1>0, <1>1, SubSeqProperties
<1> HIDE DEF part
<1>3. Len(part) = b - a + 1
  BY <1>0, <1>2
<1> QED
  BY <1>2, <1>3 DEF part

LEMMA NumbersStay ==
    ASSUME NEW udh \in Seq(Nat), NEW pos \in Nat, pos + 2 <= Len(udh),
           Behind(pos, udh[pos + 2]) <= Len(udh), NEW none \in Found
    PROVE  Numbers(udh, pos, none) \in Found
<1> DEFINE id == udh[pos + 1]
           length == udh[pos + 2]
           octets == SubSeq(udh, pos + 3, pos + 2 + length)
<1>1. id \in Nat /\ length \in Nat /\ pos + 2 + length <= Len(udh) /\ Len(udh) \in Nat
  BY DEF Behind
<1>2. octets \in Seq(Nat) /\ Len(octets) = length /\ \A i \in 1..length : octets[i] \in Nat
  <2> DEFINE a == pos + 3
             b == pos + 2 + length
  <2> HIDE DEF length
  <2>1. a \in 1..(Len(udh) + 1) /\ b \in 0..Len(udh) /\ a <= b + 1 /\ b - a + 1 = length
    BY <1>1
  <2> HIDE DEF a, b
  <2>2. SubSeq(udh, a, b) \in Seq(Nat) /\ Len(SubSeq(udh, a, b)) = b - a + 1
    BY <2>1, PartOf
  <2>3. octets = SubSeq(udh, a, b)
    BY DEF a, b
  <2> HIDE DEF octets
  <2> QED
    BY <2>1, <2>2, <2>3
<1>3. Numbers(udh, pos, none) =
        CASE id = 0 /\ length = 3 -> [ref |-> <<octets[1]>>, total |-> octets[2], number |-> octets[3]]
          [] id = 8 /\ length = 4 -> [ref |-> <<octets[1], octets[2]>>, total |-> octets[3], number |-> octets[4]]
          [] OTHER -> none
  BY DEF Numbers
<1> HIDE DEF id, length, octets
<1>4. CASE id = 0 /\ length = 3
  <2>1. octets[1] \in Nat /\ octets[2] \in Nat /\ octets[3] \in Nat
    <3>1. 1 \in 1..length /\ 2 \in 1..length /\ 3 \in 1..length
      BY <1>4
    <3> QED
      BY <1>2, <3>1
  <2>2. Numbers(udh, pos, none) = [ref |-> <<octets[1]>>, total |-> octets[2], number |-> octets[3]]
    BY <1>3, <1>4
  <2>3. <<octets[1]>> \in Seq(Nat)
    BY <2>1
  <2> QED
    BY <2>1, <2>2, <2>3 DEF Found
<1>5. CASE id = 8 /\ length = 4
  <2>1. octets[1] \in Nat /\ octets[2] \in Nat /\ octets[3] \in Nat /\ octets[4] \in Nat
    <3>1. 1 \in 1..length /\ 2 \in 1..length /\ 3 \in 1..length /\ 4 \in 1..length
      BY <1>5
    <3> QED
      BY <1>2, <3>1
  <2>2. Numbers(udh, pos, none) = [ref |-> <<octets[1], octets[2]>>, total |-> octets[3], number |-> octets[4]]
    BY <1>3, <1>5
  <2>3. <<octets[1], octets[2]>> \in Seq(Nat)
    BY <2>1
  <2> QED
    BY <2>1, <2>2, <2>3 DEF Found
<1>6. CASE ~(id = 0 /\ length = 3) /\ ~(id = 8 /\ length = 4)
  BY <1>3, <1>6
<1> QED
  BY <1>4, <1>5, <1>6

LEMMA LookStays ==
    ASSUME NEW udh \in Seq(Nat), NEW walk \in WalkTypes, NEW pos \in Nat
    PROVE  Look(udh, walk, pos) \in WalkTypes
<1>1. CASE ~walk.ok \/ pos # walk.pos \/ pos + 1 >= Len(udh)
  <2>1. Look(udh, walk, pos) = walk
    BY <1>1 DEF Look
  <2> QED
    BY <2>1
<1>2. CASE ~(~walk.ok \/ pos # walk.pos \/ pos + 1 >= Len(udh))
  <2>1. pos + 2 <= Len(udh) /\ udh[pos + 2] \in Nat
    BY <1>2
  <2>2. CASE Behind(pos, udh[pos + 2]) > Len(udh)
    <3>1. Look(udh, walk, pos) = [walk EXCEPT !.ok = FALSE]
      BY <1>2, <2>2 DEF Look, Refuse
    <3> QED
      BY <3>1 DEF WalkTypes
  <2>3. CASE ~(Behind(pos, udh[pos + 2]) > Len(udh))
    <3> DEFINE latest == Numbers(udh, pos, walk.found)
               behind == Behind(pos, udh[pos + 2])
    <3>1. Look(udh, walk, pos) = [walk EXCEPT !.pos = behind, !.found = latest]
      BY <1>2, <2>3 DEF Look
    <3>2. behind \in Nat /\ behind <= Len(udh)
      BY <2>1, <2>3 DEF Behind
    <3>3. latest \in Found
      BY <2>1, <3>2, NumbersStay DEF WalkTypes
    <3> HIDE DEF latest, behind
    <3> QED
      BY <3>1, <3>2, <3>3 DEF WalkTypes
  <2> QED
    BY <2>2, <2>3
<1> QED
  BY <1>1, <1>2

LEMMA WalkStates ==
    ASSUME NEW udh \in Seq(Nat)
    PROVE  LET done == Walks(udh)
           IN  /\ done \in [0..Len(udh) -> WalkTypes] /\ done[0] = WalkStart
               /\ \A k \in 1..Len(udh) : done[k] = Look(udh, done[k - 1], k)
<1> DEFINE N == Len(udh)
           step == [k \in 1..N |-> [s \in WalkTypes |-> Look(udh, s, k)]]
           P(f) == f = [k \in 0..N |-> IF k = 0 THEN WalkStart ELSE Look(udh, f[k - 1], k)]
           done == Walks(udh)
<1>1. N \in Nat
  OBVIOUS
<1>2. WalkStart \in WalkTypes
  BY DEF WalkTypes, WalkStart, Unnumbered, Found
<1>3. \A k \in 1..N : \A s \in WalkTypes : step[k][s] = Look(udh, s, k) /\ step[k][s] \in WalkTypes
  BY LookStays
<1> HIDE DEF N, step
<1>4. PICK f : IsLoop(f, N, WalkTypes, WalkStart, step)
  BY <1>1, <1>2, <1>3, LoopStates
<1>5. f \in [0..N -> WalkTypes] /\ f[0] = WalkStart /\ \A k \in 1..N : f[k] = step[k][f[k - 1]]
  BY <1>4 DEF IsLoop
<1>6. \A k \in 1..N : k - 1 \in 0..N /\ f[k] = Look(udh, f[k - 1], k)
  <2> TAKE k \in 1..N
  <2>1. k - 1 \in 0..N
    BY <1>1
  <2>2. f[k - 1] \in WalkTypes
    BY <1>5, <2>1
  <2> QED
    BY <1>3, <1>5, <2>1, <2>2
<1>7. P(f)
  <2>1. f = [k \in 0..N |-> f[k]]
    BY <1>5
  <2>2. \A k \in 0..N : f[k] = IF k = 0 THEN WalkStart ELSE Look(udh, f[k - 1], k)
    <3> TAKE k \in 0..N
    <3>1. k = 0 \/ k \in 1..N
      BY <1>1
    <3> QED
      BY <1>5, <1>6, <3>1
  <2> QED
    BY <2>1, <2>2
<1>8. done = CHOOSE g : P(g)
  BY DEF Walks, N
<1>9. P(done)
  <2> HIDE DEF P, done
  <2> QED
    BY <1>7, <1>8
<1>10. done[0] = WalkStart /\ \A k \in 1..N : done[k] = Look(udh, done[k - 1], k)
  <2> HIDE DEF done
  <2>1. done = [k \in 0..N |-> IF k = 0 THEN WalkStart ELSE Look(udh, done[k - 1], k)]
    BY <1>9
  <2> QED
    BY <1>1, <2>1
<1>11. \A k \in 0..N : done[k] \in WalkTypes
  <2> DEFINE T == {k \in 0..N : done[k] \in WalkTypes}
  <2>1. 0 \in T
    BY <1>1, <1>2, <1>10
  <2>2. \A k \in 1..N : k - 1 \in T => k \in T
    <3> TAKE k \in 1..N
    <3> HAVE k - 1 \in T
    <3>1. done[k - 1] \in WalkTypes /\ k \in Nat /\ k \in 0..N
      BY <1>1
    <3>2. done[k] \in WalkTypes
      BY <1>10, <3>1, LookStays
    <3> QED
      BY <3>1, <3>2
  <2> HIDE DEF T
  <2>3. \A k \in 0..N : k \in T
    BY <1>1, <2>1, <2>2, UpTo
  <2> QED
    BY <2>3 DEF T
<1>12. done \in [0..N -> WalkTypes]
  <2>1. done = [k \in 0..N |-> IF k = 0 THEN WalkStart ELSE Look(udh, done[k - 1], k)]
    BY <1>9
  <2>2. done = [k \in 0..N |-> done[k]]
    BY <2>1
  <2> QED
    BY <1>11, <2>2
<1> QED
  BY <1>10, <1>12 DEF N



LEMMA ElementIs ==
    ASSUME NEW e \in HeaderElements
    PROVE  LET c == Len(e.octets)
           IN  /\ Element(e) \in Seq(Nat) /\ Len(Element(e)) = c + 2 /\ c \in Nat
               /\ Element(e)[1] = e.id /\ Element(e)[2] = c
               /\ \A j \in 1..c : Element(e)[2 + j] = e.octets[j]
<1> DEFINE o == e.octets
           c == Len(o)
           two == <<e.id, c>>
<1>1. o \in Seq(Nat) /\ c \in Nat /\ e.id \in Nat
  BY DEF HeaderElements
<1>2. two \in Seq(Nat) /\ Len(two) = 2 /\ two[1] = e.id /\ two[2] = c
  <2> HIDE DEF c
  <2> QED
    BY <1>1
<1>3. Element(e) = two \o o
  BY DEF Element
<1> HIDE DEF two
<1>4. /\ two \o o \in Seq(Nat) /\ Len(two \o o) = 2 + Len(o)
      /\ \A i \in 1..(2 + Len(o)) : (two \o o)[i] = IF i <= 2 THEN two[i] ELSE o[i - 2]
  <2> HIDE DEF o
  <2>1. /\ two \o o \in Seq(Nat) /\ Len(two \o o) = Len(two) + Len(o)
        /\ \A i \in 1..(Len(two) + Len(o)) : (two \o o)[i] = IF i <= Len(two) THEN two[i] ELSE o[i - Len(two)]
    BY <1>1, <1>2, ConcatProperties
  <2> QED
    BY <1>2, <2>1
<1>5. 1 \in 1..(2 + c) /\ 2 \in 1..(2 + c) /\ 2 + c = c + 2
  <2> HIDE DEF c
  <2> QED
    BY <1>1
<1>6. \A j \in 1..c : 2 + j \in 1..(2 + c) /\ ~(2 + j <= 2) /\ (2 + j) - 2 = j
  <2> HIDE DEF c
  <2> QED
    BY <1>1
<1> HIDE DEF o
<1> QED
  BY <1>1, <1>2, <1>3, <1>4, <1>5, <1>6 DEF o

LEMMA WrittenStates ==
    ASSUME NEW elements \in Seq(HeaderElements)
    PROVE  LET done == Written(elements)
           IN  /\ done \in [0..Len(elements) -> Seq(Nat)] /\ done[0] = <<>>
               /\ \A k \in 1..Len(elements) : done[k] = done[k - 1] \o Element(elements[k])
<1> DEFINE N == Len(elements)
           start == <<>>
           Add(s, k) == s \o Element(elements[k])
           step == [k \in 1..N |-> [s \in Seq(Nat) |-> Add(s, k)]]
           P(f) == f = [k \in 0..N |-> IF k = 0 THEN start ELSE Add(f[k - 1], k)]
           done == Written(elements)
<1>1. N \in Nat /\ \A k \in 1..N : elements[k] \in HeaderElements
  OBVIOUS
<1>2. start \in Seq(Nat)
  OBVIOUS
<1>a. \A k \in 1..N : \A s \in Seq(Nat) : Add(s, k) \in Seq(Nat)
  <2> TAKE k \in 1..N
  <2> TAKE s \in Seq(Nat)
  <2>1. Element(elements[k]) \in Seq(Nat)
    BY <1>1, ElementIs
  <2> QED
    BY <2>1, ConcatProperties
<1>3. \A k \in 1..N : \A s \in Seq(Nat) : step[k][s] = Add(s, k) /\ step[k][s] \in Seq(Nat)
  BY <1>a
<1> HIDE DEF N, step, start, Add
<1>4. PICK f : IsLoop(f, N, Seq(Nat), start, step)
  BY <1>1, <1>2, <1>3, LoopStates
<1>5. f \in [0..N -> Seq(Nat)] /\ f[0] = start /\ \A k \in 1..N : f[k] = step[k][f[k - 1]]
  BY <1>4 DEF IsLoop
<1>6. \A k \in 1..N : k - 1 \in 0..N /\ f[k] = Add(f[k - 1], k)
  <2> TAKE k \in 1..N
  <2>1. k - 1 \in 0..N
    BY <1>1
  <2>2. f[k - 1] \in Seq(Nat)
    BY <1>5, <2>1
  <2> QED
    BY <1>3, <1>5, <2>1, <2>2
<1>7. P(f)
  <2>1. f = [k \in 0..N |-> f[k]]
    BY <1>5
  <2>2. \A k \in 0..N : f[k] = IF k = 0 THEN start ELSE Add(f[k - 1], k)
    <3> TAKE k \in 0..N
    <3>1. k = 0 \/ k \in 1..N
      BY <1>1
    <3> QED
      BY <1>5, <1>6, <3>1
  <2> QED
    BY <2>1, <2>2
<1>8. done = CHOOSE g : P(g)
  BY DEF Written, N, start, Add
<1>9. P(done)
  <2> HIDE DEF P, done
  <2> QED
    BY <1>7, <1>8
<1>10. done[0] = start /\ \A k \in 1..N : done[k] = Add(done[k - 1], k)
  <2> HIDE DEF done
  <2>1. done = [k \in 0..N |-> IF k = 0 THEN start ELSE Add(done[k - 1], k)]
    BY <1>9
  <2> QED
    BY <1>1, <2>1
<1>11. \A k \in 0..N : done[k] \in Seq(Nat)
  <2> DEFINE T == {k \in 0..N : done[k] \in Seq(Nat)}
  <2>1. 0 \in T
    BY <1>1, <1>2, <1>10
  <2>2. \A k \in 1..N : k - 1 \in T => k \in T
    <3> TAKE k \in 1..N
    <3> HAVE k - 1 \in T
    <3>1. done[k - 1] \in Seq(Nat) /\ k \in Nat /\ k \in 0..N
      BY <1>1
    <3>2. done[k] \in Seq(Nat)
      BY <1>a, <1>10, <3>1
    <3> QED
      BY <3>1, <3>2
  <2> HIDE DEF T
  <2>3. \A k \in 0..N : k \in T
    BY <1>1, <2>1, <2>2, UpTo
  <2> QED
    BY <2>3 DEF T
<1>12. done \in [0..N -> Seq(Nat)]
  <2>1. done = [k \in 0..N |-> IF k = 0 THEN start ELSE Add(done[k - 1], k)]
    BY <1>9
  <2>2. done = [k \in 0..N |-> done[k]]
    BY <2>1
  <2> QED
    BY <1>11, <2>2
<1> QED
  BY <1>10, <1>12 DEF N, start, Add

\* Where element n lies in s, behind the octets of those before it.
LiesIn(s, h, n, e) ==
    LET a == Len(h[n - 1])
        c == Len(e.octets)
    IN  /\ a \in Nat /\ c \in Nat /\ Len(h[n]) = a + c + 2 /\ Len(h[n]) <= Len(s)
        /\ s[a + 1] = e.id /\ s[a + 2] = c /\ \A j \in 1..c : s[a + 2 + j] = e.octets[j]

LEMMA ElementsLie ==
    ASSUME NEW elements \in Seq(HeaderElements)
    PROVE  LET h == Written(elements)
               N == Len(elements)
           IN  /\ h[N] \in Seq(Nat) /\ h[0] = <<>>
               /\ \A n \in 1..N : LiesIn(h[N], h, n, elements[n])
               /\ \A m \in 0..N : Len(h[m]) \in Nat /\ \A n \in 0..m : Len(h[n]) <= Len(h[m])
<1> DEFINE h == Written(elements)
           N == Len(elements)
<1>1. /\ h \in [0..N -> Seq(Nat)] /\ h[0] = <<>>
      /\ \A k \in 1..N : h[k] = h[k - 1] \o Element(elements[k])
  BY WrittenStates
<1>2. N \in Nat /\ \A k \in 1..N : elements[k] \in HeaderElements
  OBVIOUS
<1> HIDE DEF h, N
<1> DEFINE Continues(m, n) == Len(h[n]) <= Len(h[m]) /\ \A i \in 1..Len(h[n]) : h[m][i] = h[n][i]
           T == {m \in 0..N : /\ \A n \in 0..m : Continues(m, n)
                              /\ \A n \in 1..m : LiesIn(h[m], h, n, elements[n])}
<1>3. \A n \in 0..N : h[n] \in Seq(Nat) /\ Len(h[n]) \in Nat
  BY <1>1
<1>4. 0 \in T
  <2>1. \A n \in 0..0 : Continues(0, n)
    <3>1. \A n \in 0..0 : n = 0
      OBVIOUS
    <3>2. Len(h[0]) \in Nat
      BY <1>2, <1>3
    <3> QED
      BY <3>1, <3>2
  <2>2. \A n \in 1..0 : LiesIn(h[0], h, n, elements[n])
    OBVIOUS
  <2> QED
    BY <1>2, <2>1, <2>2
<1>5. \A m \in 1..N : m - 1 \in T => m \in T
  <2> TAKE m \in 1..N
  <2> HAVE m - 1 \in T
  <2> DEFINE old == h[m - 1]
             e == elements[m]
             c == Len(e.octets)
             new == h[m]
  <2>1. m \in Nat /\ m \in 0..N /\ m - 1 \in 0..N /\ e \in HeaderElements
    BY <1>2
  <2>2. /\ \A n \in 0..(m - 1) : Continues(m - 1, n)
        /\ \A n \in 1..(m - 1) : LiesIn(old, h, n, elements[n])
    OBVIOUS
  <2>3. old \in Seq(Nat) /\ Len(old) \in Nat /\ new \in Seq(Nat) /\ Len(new) \in Nat /\ new = old \o Element(e)
    BY <1>1, <1>3, <2>1
  <2>4. /\ Element(e) \in Seq(Nat) /\ Len(Element(e)) = c + 2 /\ c \in Nat
        /\ Element(e)[1] = e.id /\ Element(e)[2] = c
        /\ \A j \in 1..c : Element(e)[2 + j] = e.octets[j]
    BY <2>1, ElementIs
  <2> DEFINE a == Len(old)
  <2>5. /\ Len(new) = a + (c + 2)
        /\ \A i \in 1..(a + (c + 2)) : new[i] = IF i <= a THEN old[i] ELSE Element(e)[i - a]
    <3> HIDE DEF old, c, new, e
    <3> DEFINE t == Element(e)
    <3>1. t \in Seq(Nat) /\ Len(t) = c + 2 /\ new = old \o t
      BY <2>3, <2>4
    <3> HIDE DEF t
    <3>2. /\ Len(old \o t) = Len(old) + Len(t)
          /\ \A i \in 1..(Len(old) + Len(t)) : (old \o t)[i] = IF i <= Len(old) THEN old[i] ELSE t[i - Len(old)]
      <4>1. old \in Seq(Nat) /\ t \in Seq(Nat)
        BY <2>3, <3>1
      <4> QED
        BY <4>1, ConcatProperties
    <3> QED
      BY <3>1, <3>2 DEF t
  <2> HIDE DEF old, c, new, e, T
  <2>6. a <= Len(new) /\ \A i \in 1..a : new[i] = old[i]
    <3>1. a \in Nat /\ \A i \in 1..a : i \in 1..(a + (c + 2)) /\ i <= a
      BY <2>3, <2>4
    <3> QED
      BY <2>3, <2>4, <2>5, <3>1
  <2>7. \A n \in 0..m : Continues(m, n)
    <3> TAKE n \in 0..m
    <3>1. n = m \/ n \in 0..(m - 1)
      BY <2>1
    <3>2. CASE n = m
      BY <2>3, <3>2 DEF new
    <3>3. CASE n \in 0..(m - 1)
      <4>1. n \in 0..N /\ Len(h[n]) \in Nat
        BY <1>2, <1>3, <2>1
      <4>2. Len(h[n]) <= a /\ \A i \in 1..Len(h[n]) : old[i] = h[n][i]
        BY <2>2, <3>3 DEF old
      <4>3. Len(h[n]) <= Len(new) /\ \A i \in 1..Len(h[n]) : i \in 1..a
        BY <2>3, <2>6, <4>1, <4>2
      <4> QED
        BY <2>6, <4>2, <4>3 DEF new
    <3> QED
      BY <3>1, <3>2, <3>3
  <2>8. LiesIn(new, h, m, e)
    <3>1. a \in Nat /\ c \in Nat /\ a + 1 \in 1..(a + (c + 2)) /\ ~(a + 1 <= a) /\ (a + 1) - a = 1
          /\ a + 2 \in 1..(a + (c + 2)) /\ ~(a + 2 <= a) /\ (a + 2) - a = 2 /\ a + (c + 2) = a + c + 2
      BY <2>3, <2>4
    <3>2. \A j \in 1..c : a + 2 + j \in 1..(a + (c + 2)) /\ ~(a + 2 + j <= a) /\ (a + 2 + j) - a = 2 + j
      BY <3>1
    <3>3. new[a + 1] = e.id /\ new[a + 2] = c
      BY <2>4, <2>5, <3>1
    <3>4. \A j \in 1..c : new[a + 2 + j] = e.octets[j]
      BY <2>4, <2>5, <3>2
    <3>5. Len(new) = a + c + 2 /\ Len(new) <= Len(new)
      BY <2>3, <2>5, <3>1
    <3> QED
      BY <3>1, <3>3, <3>4, <3>5 DEF LiesIn, old, new, c
  <2>9. \A n \in 1..m : LiesIn(new, h, n, elements[n])
    <3> TAKE n \in 1..m
    <3>1. n = m \/ n \in 1..(m - 1)
      BY <2>1
    <3>2. CASE n = m
      BY <2>8, <3>2 DEF e
    <3>3. CASE n \in 1..(m - 1)
      <4> DEFINE b == Len(h[n - 1])
                 d == Len(elements[n].octets)
                 top == Len(h[n])
                 x == elements[n]
      <4>1. /\ b \in Nat /\ d \in Nat /\ top = b + d + 2 /\ top <= a
            /\ old[b + 1] = x.id /\ old[b + 2] = d /\ \A j \in 1..d : old[b + 2 + j] = x.octets[j]
        BY <2>2, <3>3 DEF LiesIn
      <4> HIDE DEF b, d, top, x
      <4>2. b + 1 \in 1..a /\ b + 2 \in 1..a /\ top <= Len(new) /\ \A j \in 1..d : b + 2 + j \in 1..a
        <5>1. b \in Nat /\ d \in Nat /\ top = b + d + 2 /\ top <= a /\ a \in Nat
          BY <2>3, <4>1
        <5>2. a <= Len(new) /\ Len(new) \in Nat
          BY <2>3, <2>6
        <5> HIDE DEF a, new
        <5>3. b + 1 \in 1..a /\ b + 2 \in 1..a /\ \A j \in 1..d : b + 2 + j \in 1..a
          BY <5>1
        <5>4. top <= Len(new)
          BY <5>1, <5>2
        <5> QED
          BY <5>3, <5>4
      <4>3. new[b + 1] = x.id /\ new[b + 2] = d /\ \A j \in 1..d : new[b + 2 + j] = x.octets[j]
        BY <2>6, <4>1, <4>2
      <4> QED
        BY <4>1, <4>2, <4>3 DEF LiesIn, b, d, top, x
    <3> QED
      BY <3>1, <3>2, <3>3
  <2> QED
    BY <2>1, <2>7, <2>9 DEF T, new
<1> HIDE DEF T
<1>6. \A m \in 0..N : m \in T
  BY <1>2, <1>4, <1>5, UpTo
<1>7. N \in T /\ N \in 0..N
  BY <1>2, <1>6
<1>8. /\ \A n \in 1..N : LiesIn(h[N], h, n, elements[n])
      /\ \A m \in 0..N : \A n \in 0..m : Len(h[n]) <= Len(h[m])
  BY <1>6, <1>7 DEF T
<1> QED
  BY <1>1, <1>3, <1>7, <1>8 DEF h, N

\* Two sequences of one length with the same elements.
LEMMA SameSeq ==
    ASSUME NEW S, NEW s \in Seq(S), NEW t \in Seq(S), Len(s) = Len(t), \A i \in 1..Len(s) : s[i] = t[i]
    PROVE  s = t
  OBVIOUS

LEMMA NumbersAre ==
    ASSUME NEW o \in Seq(Nat)
    PROVE  /\ Len(o) = 3 => NumbersOf(o) = [ref |-> <<o[1]>>, total |-> o[2], number |-> o[3]]
           /\ Len(o) = 4 => NumbersOf(o) = [ref |-> <<o[1], o[2]>>, total |-> o[3], number |-> o[4]]
<1>1. NumbersOf(o) = [ref |-> SubSeq(o, 1, Len(o) - 2), total |-> o[Len(o) - 1], number |-> o[Len(o)]]
  BY DEF NumbersOf
<1>2. ASSUME Len(o) = 3 PROVE SubSeq(o, 1, 1) = <<o[1]>>
  <2> DEFINE p == SubSeq(o, 1, 1)
             q == <<o[1]>>
  <2>1. o[1] \in Nat
    <3>1. 1 \in 1..Len(o)
      BY <1>2
    <3> QED
      BY <3>1
  <2>2. p \in Seq(Nat) /\ Len(p) = 1 /\ p[1] = o[1]
    <3>1. 1 \in 1..(Len(o) + 1) /\ 1 \in 0..Len(o) /\ 1 <= 1 + 1 /\ 1 - 1 + 1 = 1 /\ 1 + 1 - 1 = 1
      BY <1>2
    <3>2. p \in Seq(Nat) /\ Len(p) = 1 - 1 + 1 /\ \A i \in 1..(1 - 1 + 1) : p[i] = o[1 + i - 1]
      BY <3>1, PartOf
    <3> HIDE DEF p
    <3> QED
      BY <3>1, <3>2
  <2>3. q \in Seq(Nat) /\ Len(q) = 1 /\ q[1] = o[1]
    BY <2>1
  <2>4. \A i \in 1..1 : i = 1
    OBVIOUS
  <2> HIDE DEF p, q
  <2>5. p = q
    BY <2>2, <2>3, <2>4, SameSeq
  <2> QED
    BY <2>5 DEF p, q
<1>3. ASSUME Len(o) = 4 PROVE SubSeq(o, 1, 2) = <<o[1], o[2]>>
  <2> DEFINE p == SubSeq(o, 1, 2)
             q == <<o[1], o[2]>>
  <2>1. o[1] \in Nat /\ o[2] \in Nat
    <3>1. 1 \in 1..Len(o) /\ 2 \in 1..Len(o)
      BY <1>3
    <3> QED
      BY <3>1
  <2>2. p \in Seq(Nat) /\ Len(p) = 2 /\ p[1] = o[1] /\ p[2] = o[2]
    <3>1. 1 \in 1..(Len(o) + 1) /\ 2 \in 0..Len(o) /\ 1 <= 2 + 1 /\ 2 - 1 + 1 = 2
      BY <1>3
    <3>2. p \in Seq(Nat) /\ Len(p) = 2 - 1 + 1 /\ \A i \in 1..(2 - 1 + 1) : p[i] = o[1 + i - 1]
      BY <3>1, PartOf
    <3>3. 1 \in 1..(2 - 1 + 1) /\ 2 \in 1..(2 - 1 + 1) /\ 1 + 1 - 1 = 1 /\ 1 + 2 - 1 = 2
      OBVIOUS
    <3> HIDE DEF p
    <3> QED
      BY <3>1, <3>2, <3>3
  <2>3. q \in Seq(Nat) /\ Len(q) = 2 /\ q[1] = o[1] /\ q[2] = o[2]
    BY <2>1
  <2>4. \A i \in 1..2 : i = 1 \/ i = 2
    OBVIOUS
  <2> HIDE DEF p, q
  <2>5. p = q
    BY <2>2, <2>3, <2>4, SameSeq
  <2> QED
    BY <2>5 DEF p, q
<1>4. ASSUME Len(o) = 3 PROVE NumbersOf(o) = [ref |-> <<o[1]>>, total |-> o[2], number |-> o[3]]
  <2>1. Len(o) - 2 = 1 /\ Len(o) - 1 = 2
    BY <1>4
  <2> QED
    BY <1>1, <1>2, <1>4, <2>1
<1>5. ASSUME Len(o) = 4 PROVE NumbersOf(o) = [ref |-> <<o[1], o[2]>>, total |-> o[3], number |-> o[4]]
  <2>1. Len(o) - 2 = 2 /\ Len(o) - 1 = 3
    BY <1>5
  <2> QED
    BY <1>1, <1>3, <1>5, <2>1
<1> QED
  BY <1>4, <1>5

NumberingTo(elements, n) == {i \in 1..n : IsNumbering(elements[i])}

\* Behind n elements.
WalkTo(elements, n, walk) ==
    /\ walk.ok /\ walk.pos = 1 + Len(Written(elements)[n])
    /\ IF NumberingTo(elements, n) = {} THEN walk.found = Unnumbered
       ELSE \E i : IsLast(i, NumberingTo(elements, n)) /\ walk.found = NumbersOf(elements[i].octets)

\* An element that is there is read, and its numbers if it has them.
LEMMA ElementRead ==
    ASSUME NEW elements \in Seq(HeaderElements), NEW udh \in Seq(Nat), NEW n \in 1..Len(elements),
           NEW h, h = Written(elements), NEW s, s = h[Len(elements)],
           1 + Len(h[n]) <= Len(udh), \A i \in 2..Len(udh) : udh[i] = s[i - 1],
           NEW walk \in WalkTypes, WalkTo(elements, n - 1, walk)
    PROVE  WalkTo(elements, n, Look(udh, walk, 1 + Len(h[n - 1])))
<1> DEFINE a == Len(h[n - 1])
           e == elements[n]
           o == e.octets
           c == Len(o)
           pos == 1 + a
           size == Len(udh)
           new == Look(udh, walk, pos)
<1>1. LiesIn(s, h, n, e)
  BY ElementsLie
<1>2. e \in HeaderElements /\ o \in Seq(Nat) /\ c \in Nat /\ e.id \in Nat
  <2>1. e \in HeaderElements
    OBVIOUS
  <2> HIDE DEF e
  <2>2. o \in Seq(Nat) /\ e.id \in Nat
    BY <2>1 DEF HeaderElements
  <2> HIDE DEF o
  <2> QED
    BY <2>1, <2>2
<1>3. /\ a \in Nat /\ Len(h[n]) = a + c + 2
      /\ s[a + 1] = e.id /\ s[a + 2] = c /\ \A j \in 1..c : s[a + 2 + j] = o[j]
  BY <1>1 DEF LiesIn
<1>4. a \in Nat /\ c \in Nat /\ size \in Nat /\ a + c + 3 <= size
  <2> DEFINE top == Len(h[n])
  <2>1. size \in Nat /\ 1 + top <= size
    OBVIOUS
  <2>2. top = a + c + 2
    BY <1>3
  <2> HIDE DEF a, c, size, top
  <2> QED
    BY <1>2, <1>3, <2>1, <2>2
<1>5. \A i \in 2..size : udh[i] = s[i - 1]
  OBVIOUS
<1>6. walk.ok /\ walk.pos = pos
  BY DEF WalkTo
<1> HIDE DEF a, o, c, size
<1>7. udh[pos + 1] = e.id /\ udh[pos + 2] = c
  <2>1. pos + 1 \in 2..size /\ (pos + 1) - 1 = a + 1 /\ pos + 2 \in 2..size /\ (pos + 2) - 1 = a + 2
    BY <1>4
  <2> QED
    BY <1>3, <1>5, <2>1
<1>8. SubSeq(udh, pos + 3, pos + 2 + c) = o
  <2> DEFINE x == pos + 3
             y == pos + 2 + c
             p == SubSeq(udh, x, y)
  <2>1. x \in 1..(size + 1) /\ y \in 0..size /\ x <= y + 1 /\ y - x + 1 = c
    BY <1>4
  <2>2. \A i \in 1..c : x + i - 1 \in 2..size /\ (x + i - 1) - 1 = a + 2 + i
    BY <1>4
  <2> HIDE DEF x, y
  <2>3. p \in Seq(Nat) /\ Len(p) = y - x + 1 /\ \A i \in 1..(y - x + 1) : p[i] = udh[x + i - 1]
    BY <2>1, PartOf DEF size
  <2> HIDE DEF p
  <2>4. Len(p) = c /\ Len(o) = c
    BY <2>1, <2>3 DEF c
  <2>5. \A i \in 1..c : p[i] = o[i]
    <3> TAKE i \in 1..c
    <3>1. p[i] = udh[x + i - 1]
      BY <2>1, <2>3
    <3>2. udh[x + i - 1] = s[a + 2 + i]
      BY <1>5, <2>2
    <3> QED
      BY <1>3, <3>1, <3>2
  <2>6. p = o
    BY <1>2, <2>3, <2>4, <2>5, SameSeq
  <2> QED
    BY <2>6 DEF p, x, y
<1> DEFINE latest == Numbers(udh, pos, walk.found)
<1>9. latest = IF IsNumbering(e) THEN NumbersOf(o) ELSE walk.found
  <2>1. latest = CASE e.id = 0 /\ c = 3 -> [ref |-> <<o[1]>>, total |-> o[2], number |-> o[3]]
                  [] e.id = 8 /\ c = 4 -> [ref |-> <<o[1], o[2]>>, total |-> o[3], number |-> o[4]]
                  [] OTHER -> walk.found
    BY <1>7, <1>8 DEF Numbers
  <2>2. IsNumbering(e) <=> (e.id = 0 /\ c = 3) \/ (e.id = 8 /\ c = 4)
    BY DEF IsNumbering, c, o
  <2>3. /\ c = 3 => NumbersOf(o) = [ref |-> <<o[1]>>, total |-> o[2], number |-> o[3]]
        /\ c = 4 => NumbersOf(o) = [ref |-> <<o[1], o[2]>>, total |-> o[3], number |-> o[4]]
    BY <1>2, NumbersAre DEF c
  <2> HIDE DEF latest
  <2>4. CASE e.id = 0 /\ c = 3
    BY <2>1, <2>2, <2>3, <2>4
  <2>5. CASE e.id = 8 /\ c = 4
    BY <2>1, <2>2, <2>3, <2>5
  <2>6. CASE ~(e.id = 0 /\ c = 3) /\ ~(e.id = 8 /\ c = 4)
    BY <2>1, <2>2, <2>6
  <2> QED
    BY <2>4, <2>5, <2>6
<1>10. new = [walk EXCEPT !.pos = 1 + Len(h[n]), !.found = latest]
  <2>1. Behind(pos, udh[pos + 2]) = 1 + Len(h[n]) /\ ~(1 + Len(h[n]) > size) /\ ~(pos + 1 >= size)
    <3> DEFINE top == Len(h[n])
    <3>1. top = a + c + 2
      BY <1>3
    <3>2. Behind(pos, udh[pos + 2]) = pos + 2 + c
      BY <1>7 DEF Behind
    <3> HIDE DEF top
    <3>3. pos + 2 + c = 1 + top /\ ~(1 + top > size) /\ ~(pos + 1 >= size)
      BY <1>2, <1>3, <1>4, <3>1
    <3> QED
      BY <3>2, <3>3 DEF top
  <2> QED
    BY <1>6, <2>1 DEF Look, size
<1>11. new.ok = walk.ok /\ new.pos = 1 + Len(h[n]) /\ new.found = latest
  BY <1>10 DEF WalkTypes
<1> HIDE DEF new, latest, pos
<1> DEFINE before == NumberingTo(elements, n - 1)
           seen == NumberingTo(elements, n)
<1>12. n \in Nat /\ \A i : i \in 1..n <=> i \in 1..(n - 1) \/ i = n
  OBVIOUS
<1>13. \A i \in before : i \in Nat /\ i <= n
  BY <1>12 DEF NumberingTo
<1>14. IF before = {} THEN walk.found = Unnumbered
       ELSE \E i : IsLast(i, before) /\ walk.found = NumbersOf(elements[i].octets)
  BY DEF WalkTo
<1>15. IF seen = {} THEN new.found = Unnumbered
       ELSE \E i : IsLast(i, seen) /\ new.found = NumbersOf(elements[i].octets)
  <2>1. CASE IsNumbering(e)
    <3>1. seen = before \cup {n}
      BY <1>12, <2>1 DEF NumberingTo
    <3>2. IsLast(n, seen)
      BY <1>12, <1>13, <3>1 DEF IsLast
    <3>3. new.found = NumbersOf(elements[n].octets)
      BY <1>9, <1>11, <2>1 DEF o
    <3>4. seen # {}
      BY <3>1
    <3> QED
      BY <3>2, <3>3, <3>4
  <2>2. CASE ~IsNumbering(e)
    <3>1. seen = before
      BY <1>12, <2>2 DEF NumberingTo
    <3>2. new.found = walk.found
      BY <1>9, <1>11, <2>2
    <3> QED
      BY <1>14, <3>1, <3>2
  <2> QED
    BY <2>1, <2>2
<1>16. WalkTo(elements, n, new)
  BY <1>6, <1>11, <1>15 DEF WalkTo
<1> QED
  BY <1>16 DEF new, pos, a

\* The walk reads as many elements as are there.
LEMMA WalkGoes ==
    ASSUME NEW elements \in Seq(HeaderElements), NEW udh \in Seq(Nat), NEW M \in 0..Len(elements),
           NEW h, h = Written(elements), NEW s, s = h[Len(elements)],
           1 + Len(h[M]) <= Len(udh), \A i \in 2..Len(udh) : udh[i] = s[i - 1]
    PROVE  WalkTo(elements, M, Walks(udh)[Len(h[M])])
<1> DEFINE N == Len(elements)
           size == Len(udh)
           done == Walks(udh)
           L(n) == Len(h[n])
<1>1. N \in Nat /\ M \in 0..N /\ M \in Nat /\ size \in Nat
  OBVIOUS
<1>2. /\ done \in [0..size -> WalkTypes] /\ done[0] = WalkStart
      /\ \A k \in 1..size : done[k] = Look(udh, done[k - 1], k)
  BY WalkStates
<1>3. /\ h[0] = <<>> /\ \A n \in 1..N : LiesIn(s, h, n, elements[n])
      /\ \A m \in 0..N : L(m) \in Nat /\ \A n \in 0..m : L(n) <= L(m)
  BY ElementsLie
<1>4. \A n \in 1..N : L(n - 1) + 2 <= L(n)
  <2> TAKE n \in 1..N
  <2> DEFINE c == Len(elements[n].octets)
  <2>1. L(n - 1) \in Nat /\ c \in Nat /\ L(n) = L(n - 1) + c + 2
    BY <1>3 DEF LiesIn
  <2> HIDE DEF c, L
  <2> QED
    BY <2>1
<1>5. 1 + L(M) <= size
  OBVIOUS
<1>6. L(0) = 0
  BY <1>3
<1> DEFINE T == {k \in 0..L(M) : \E n \in 0..M : WalkTo(elements, n, done[k]) /\ k < 1 + L(n)}
<1> HIDE DEF N, size, done, L
<1>7. L(M) \in Nat /\ \A n \in 0..M : L(n) \in Nat /\ L(n) <= L(M) /\ n \in 0..N
  BY <1>1, <1>3
<1>8. 0 \in T
  <2>1. NumberingTo(elements, 0) = {}
    BY DEF NumberingTo
  <2>2. WalkTo(elements, 0, done[0])
    <3>1. done[0].ok /\ done[0].pos = 1 /\ done[0].found = Unnumbered
      BY <1>2 DEF WalkStart
    <3>2. Len(Written(elements)[0]) = 0
      BY <1>6 DEF L
    <3> QED
      BY <2>1, <3>1, <3>2 DEF WalkTo
  <2>3. 0 \in 0..M /\ 0 < 1 + L(0)
    BY <1>1, <1>6
  <2> QED
    BY <1>7, <2>2, <2>3
<1>9. \A k \in 1..L(M) : k - 1 \in T => k \in T
  <2> TAKE k \in 1..L(M)
  <2> HAVE k - 1 \in T
  <2>1. k \in Nat /\ k \in 0..L(M) /\ k - 1 \in 0..size /\ k \in 1..size
    BY <1>1, <1>5, <1>7
  <2>2. PICK n \in 0..M : WalkTo(elements, n, done[k - 1]) /\ k - 1 < 1 + L(n)
    OBVIOUS
  <2>3. done[k] = Look(udh, done[k - 1], k) /\ done[k - 1] \in WalkTypes
    BY <1>2, <2>1
  <2>4. done[k - 1].pos = 1 + L(n) /\ L(n) \in Nat /\ n \in Nat
    BY <1>1, <1>7, <2>2 DEF WalkTo, L
  <2> HIDE DEF T
  <2>5. CASE k < 1 + L(n)
    <3>1. done[k] = done[k - 1]
      BY <2>1, <2>3, <2>4, <2>5 DEF Look
    <3> QED
      BY <2>1, <2>2, <2>5, <3>1 DEF T
  <2>6. CASE ~(k < 1 + L(n))
    <3>1. k = 1 + L(n)
      BY <2>1, <2>2, <2>4, <2>6
    <3>2. n # M
      BY <1>7, <2>1, <2>4, <3>1
    <3> DEFINE m == n + 1
    <3>3. m \in 0..M /\ m \in 1..N /\ m - 1 = n
      BY <1>1, <1>7, <2>4, <3>2
    <3>4. L(n) + 2 <= L(m) /\ L(m) \in Nat /\ L(m) <= L(M)
      BY <1>4, <1>7, <3>3
    <3>5. 1 + L(m) <= size /\ k < 1 + L(m)
      <4> DEFINE x == L(n)
                 y == L(m)
                 z == L(M)
      <4>1. /\ x \in Nat /\ y \in Nat /\ z \in Nat /\ k = 1 + x /\ x + 2 <= y /\ y <= z
            /\ 1 + z <= size /\ size \in Nat
        BY <1>1, <1>5, <1>7, <2>4, <3>1, <3>4
      <4> HIDE DEF x, y, z
      <4>2. 1 + y <= size /\ k < 1 + y
        BY <4>1
      <4> QED
        BY <4>2 DEF y
    <3>6. WalkTo(elements, m, Look(udh, done[k - 1], 1 + L(m - 1)))
      <4> HIDE DEF m
      <4>1. WalkTo(elements, m - 1, done[k - 1])
        BY <2>2, <3>3
      <4>2. m \in 1..Len(elements) /\ 1 + Len(h[m]) <= Len(udh)
        BY <3>3, <3>5 DEF N, L, size
      <4> QED
        BY <2>3, <4>1, <4>2, ElementRead DEF L
    <3>7. WalkTo(elements, m, done[k])
      BY <2>3, <3>1, <3>3, <3>6
    <3> QED
      BY <2>1, <3>3, <3>5, <3>7 DEF T
  <2> QED
    BY <2>5, <2>6
<1> HIDE DEF T
<1>10. \A k \in 0..L(M) : k \in T
  BY <1>7, <1>8, <1>9, UpTo
<1>11. PICK n \in 0..M : WalkTo(elements, n, done[L(M)]) /\ L(M) < 1 + L(n)
  <2>1. L(M) \in 0..L(M)
    BY <1>7
  <2>2. L(M) \in T
    BY <1>10, <2>1
  <2> QED
    BY <2>2 DEF T
<1>12. n = M
  <2>1. CASE n # M
    <3>1. n + 1 \in 0..M /\ n + 1 \in 1..N /\ (n + 1) - 1 = n
      BY <1>1, <2>1
    <3>2. L(n) + 2 <= L(n + 1) /\ L(n + 1) <= L(M) /\ L(n) \in Nat /\ L(n + 1) \in Nat
      BY <1>4, <1>7, <3>1
    <3> QED
      BY <1>7, <1>11, <3>2
  <2> QED
    BY <2>1
<1> QED
  BY <1>11, <1>12 DEF done, L

\* A header in front of its octets.
LEMMA HeaderIs ==
    ASSUME NEW elements \in Seq(HeaderElements), NEW h, h = Written(elements), NEW s, s = h[Len(elements)]
    PROVE  /\ Header(elements) \in Seq(Nat) /\ Len(Header(elements)) = 1 + Len(s) /\ Len(s) \in Nat
           /\ \A i \in 2..(1 + Len(s)) : Header(elements)[i] = s[i - 1]
<1> DEFINE one == <<Len(s)>>
<1>1. s \in Seq(Nat) /\ Len(s) \in Nat
  BY ElementsLie
<1>2. one \in Seq(Nat) /\ Len(one) = 1
  BY <1>1
<1>3. Header(elements) = one \o s
  BY DEF Header
<1> HIDE DEF one
<1>4. /\ one \o s \in Seq(Nat) /\ Len(one \o s) = Len(one) + Len(s)
      /\ \A i \in 1..(Len(one) + Len(s)) : (one \o s)[i] = IF i <= Len(one) THEN one[i] ELSE s[i - Len(one)]
  BY <1>1, <1>2, ConcatProperties
<1>5. \A i \in 2..(1 + Len(s)) : i \in 1..(1 + Len(s)) /\ ~(i <= 1)
  BY <1>1
<1> QED
  BY <1>1, <1>2, <1>3, <1>4, <1>5

LEMMA ReadToLast ==
    ASSUME NEW elements \in Seq(HeaderElements)
    PROVE  ReadToTheLast(elements)
<1> DEFINE N == Len(elements)
           h == Written(elements)
           s == h[N]
           udh == Header(elements)
           top == Len(s)
           numbering == {i \in DOMAIN elements : IsNumbering(elements[i])}
           walk == Walk(udh)
<1>1. udh \in Seq(Nat) /\ Len(udh) = 1 + top /\ top \in Nat /\ \A i \in 2..(1 + top) : udh[i] = s[i - 1]
  BY HeaderIs
<1>2. N \in 0..N /\ N \in Nat
  OBVIOUS
<1>3. 1 + Len(h[N]) <= Len(udh) /\ \A i \in 2..Len(udh) : udh[i] = s[i - 1]
  BY <1>1
<1>4. WalkTo(elements, N, Walks(udh)[top])
  <2> HIDE DEF udh, h
  <2>1. h = Written(elements)
    BY DEF h
  <2> QED
    BY <1>1, <1>2, <1>3, <2>1, WalkGoes
<1>5. walk = Walks(udh)[top]
  <2>1. Walks(udh)[1 + top] = Look(udh, Walks(udh)[top], 1 + top)
    <3>1. 1 + top \in 1..Len(udh) /\ (1 + top) - 1 = top
      <4> HIDE DEF top, udh
      <4> QED
        BY <1>1
    <3> HIDE DEF udh, top
    <3> QED
      BY <1>1, <3>1, WalkStates
  <2>2. (1 + top) + 1 >= Len(udh)
    <3> HIDE DEF top, udh
    <3> QED
      BY <1>1
  <2>3. Look(udh, Walks(udh)[top], 1 + top) = Walks(udh)[top]
    <3> HIDE DEF udh, top
    <3> QED
      BY <2>2 DEF Look
  <2> QED
    BY <1>1, <2>1, <2>3 DEF Walk
<1>6. numbering = NumberingTo(elements, N)
  BY DEF NumberingTo
<1>7. numbering \in SUBSET Nat
  BY <1>2
<1> HIDE DEF udh, h, s, top, walk, numbering, N
<1>8. walk.ok
  BY <1>4, <1>5 DEF WalkTo
<1>9. CASE numbering = {}
  <2>1. walk.found = Unnumbered
    BY <1>4, <1>5, <1>6, <1>9 DEF WalkTo
  <2> QED
    BY <1>8, <1>9, <2>1 DEF ReadToTheLast, walk, udh, numbering
<1>10. CASE numbering # {}
  <2>1. PICK i : IsLast(i, numbering) /\ walk.found = NumbersOf(elements[i].octets)
    BY <1>4, <1>5, <1>6, <1>10 DEF WalkTo
  <2>2. Max(numbering) = i
    BY <1>7, <2>1, LastIsMax
  <2> QED
    BY <1>8, <1>10, <2>1, <2>2 DEF ReadToTheLast, walk, udh, numbering
<1> QED
  BY <1>9, <1>10

LEMMA CutRefused ==
    ASSUME NEW elements \in Seq(HeaderElements)
    PROVE  CutIsRefused(elements)
<1> DEFINE N == Len(elements)
           h == Written(elements)
           s == h[N]
           header == Header(elements)
           udh == SubSeq(header, 1, Len(header) - 1)
           done == Walks(udh)
           e == elements[N]
           c == Len(e.octets)
<1> SUFFICES ASSUME elements # <<>>, c > 0 PROVE ~Walk(udh).ok
  BY DEF CutIsRefused
<1>1. N \in 1..N /\ N \in Nat /\ N - 1 \in 0..N
  OBVIOUS
<1>2. LiesIn(s, h, N, e) /\ s = h[N] /\ h = Written(elements)
  BY <1>1, ElementsLie
<1> DEFINE a == Len(h[N - 1])
           top == Len(s)
<1>3. a \in Nat /\ c \in Nat /\ top = a + c + 2 /\ s[a + 2] = c
  BY <1>2 DEF LiesIn
<1>4. header \in Seq(Nat) /\ Len(header) = 1 + top /\ top \in Nat /\ \A i \in 2..(1 + top) : header[i] = s[i - 1]
  BY HeaderIs
<1> HIDE DEF header, h, s, N, e, c, a, top
<1>5. udh \in Seq(Nat) /\ Len(udh) = top /\ \A i \in 2..top : udh[i] = s[i - 1]
  <2>1. 1 \in 1..(Len(header) + 1) /\ top \in 0..Len(header) /\ 1 <= top + 1 /\ top - 1 + 1 = top
        /\ Len(header) - 1 = top
    BY <1>4
  <2> DEFINE p == SubSeq(header, 1, top)
  <2>2. p \in Seq(Nat) /\ Len(p) = top - 1 + 1 /\ \A i \in 1..(top - 1 + 1) : p[i] = header[1 + i - 1]
    BY <1>4, <2>1, PartOf
  <2>3. udh = p
    BY <2>1
  <2>4. \A i \in 2..top : i \in 1..top /\ i \in 2..(1 + top) /\ 1 + i - 1 = i
    BY <1>4
  <2> HIDE DEF p, udh
  <2> QED
    BY <1>4, <2>1, <2>2, <2>3, <2>4
<1> HIDE DEF udh
<1>6. 1 + a <= Len(udh) /\ a + 1 <= top /\ a + 3 <= top
  BY <1>3, <1>5
<1>7. WalkTo(elements, N - 1, done[a])
  <2>1. N - 1 \in 0..Len(elements) /\ s = h[Len(elements)] /\ 1 + Len(h[N - 1]) <= Len(udh)
    BY <1>1, <1>2, <1>6 DEF N, a
  <2>2. \A i \in 2..Len(udh) : udh[i] = s[i - 1]
    BY <1>5
  <2>3. WalkTo(elements, N - 1, Walks(udh)[Len(h[N - 1])])
    BY <1>2, <1>5, <2>1, <2>2, WalkGoes
  <2> QED
    BY <2>3 DEF a
<1>8. /\ done \in [0..top -> WalkTypes]
      /\ \A k \in 1..top : done[k] = Look(udh, done[k - 1], k)
  BY <1>5, WalkStates
<1> HIDE DEF done
<1>9. ~done[1 + a].ok
  <2>1. 1 + a \in 1..top /\ (1 + a) - 1 = a /\ a \in 0..top
    BY <1>3, <1>4, <1>6
  <2>2. done[1 + a] = Look(udh, done[a], 1 + a) /\ done[a] \in WalkTypes
    BY <1>8, <2>1
  <2>3. done[a].ok /\ done[a].pos = 1 + a
    BY <1>2, <1>7 DEF WalkTo, a
  <2>4. udh[(1 + a) + 2] = c
    <3>1. (1 + a) + 2 \in 2..top /\ ((1 + a) + 2) - 1 = a + 2
      BY <1>3, <1>6
    <3>2. udh[(1 + a) + 2] = s[((1 + a) + 2) - 1]
      BY <1>5, <3>1
    <3> QED
      BY <1>3, <3>1, <3>2
  <2>5. Behind(1 + a, udh[(1 + a) + 2]) > Len(udh) /\ ~((1 + a) + 1 >= Len(udh))
    <3>1. Behind(1 + a, udh[(1 + a) + 2]) = (1 + a) + 2 + c
      BY <2>4 DEF Behind
    <3>2. (1 + a) + 2 + c > top /\ ~((1 + a) + 1 >= top)
      BY <1>3, <1>6
    <3> QED
      BY <1>5, <3>1, <3>2
  <2>6. done[1 + a] = [done[a] EXCEPT !.ok = FALSE]
    BY <2>2, <2>3, <2>5 DEF Look, Refuse
  <2> QED
    BY <2>2, <2>6 DEF WalkTypes
<1> DEFINE T == {k \in 0..top : k >= 1 + a => ~done[k].ok}
<1>10. 0 \in T
  BY <1>3, <1>4
<1>11. \A k \in 1..top : k - 1 \in T => k \in T
  <2> TAKE k \in 1..top
  <2> HAVE k - 1 \in T
  <2>1. k \in Nat /\ k \in 0..top
    BY <1>4
  <2>2. CASE k < 1 + a
    BY <1>3, <2>1, <2>2
  <2>3. CASE k = 1 + a
    BY <1>9, <2>1, <2>3
  <2>4. CASE k > 1 + a
    <3>1. ~done[k - 1].ok
      BY <1>3, <2>1, <2>4
    <3>2. done[k] = done[k - 1]
      BY <1>8, <3>1 DEF Look
    <3> QED
      BY <2>1, <3>1, <3>2
  <2> HIDE DEF T
  <2> QED
    BY <1>3, <2>1, <2>2, <2>3, <2>4
<1> HIDE DEF T
<1>12. \A k \in 0..top : k \in T
  BY <1>4, <1>10, <1>11, UpTo
<1>13. top \in 0..top /\ top >= 1 + a
  BY <1>3, <1>4, <1>6
<1>14. ~done[top].ok
  BY <1>12, <1>13 DEF T
<1> QED
  BY <1>5, <1>14 DEF Walk, done

-----------------------------------------------------------------------------
(* The octets around a text.                                               *)

\* What is kept of a number are digits.
LEMMA Cleared ==
    ASSUME NEW written \in Seq(0..Other)
    PROVE  ClearPhoneNo(written) \in Seq(0..9)
<1> DEFINE s == IF written # <<>> /\ Head(written) = Plus THEN Tail(written) ELSE written
           N == Len(s)
           P(k) == (\A i \in 1..k : s[i] < 10) /\ (k = N \/ s[k + 1] >= 10)
           n == CHOOSE k \in 0..N : P(k)
           E == {k \in 0..N : k = N \/ s[k + 1] >= 10}
<1>1. s \in Seq(0..Other) /\ N \in Nat
  <2> DEFINE S == 0..Other
  <2>1. written \in Seq(S)
    OBVIOUS
  <2> HIDE DEF S
  <2>2. written # <<>> => Tail(written) \in Seq(S)
    BY <2>1, HeadTailProperties
  <2>3. s \in Seq(S)
    BY <2>1, <2>2
  <2> QED
    BY <2>3 DEF S
<1>2. ClearPhoneNo(written) = SubSeq(s, 1, n)
  BY DEF ClearPhoneNo
<1>3. \A i \in 1..N : s[i] \in 0..11
  <2> HIDE DEF s
  <2> QED
    BY <1>1 DEF Other
<1> HIDE DEF s, N
<1>4. PICK k \in E : \A j \in E : k <= j
  <2>1. N \in E /\ E \in SUBSET Nat
    BY <1>1
  <2> HIDE DEF E
  <2> QED
    BY <2>1, LeastOf
<1>5. \A i \in 1..k : s[i] < 10
  <2> TAKE i \in 1..k
  <2>1. i \in 1..N /\ i - 1 \in 0..N /\ (i - 1) + 1 = i /\ i - 1 # N /\ ~(k <= i - 1)
    BY <1>1
  <2>2. ~(s[i] >= 10)
    BY <1>4, <2>1
  <2> QED
    BY <1>3, <2>1, <2>2
<1>6. k \in 0..N /\ P(k)
  BY <1>4, <1>5
<1>7. n \in 0..N /\ P(n)
  <2> HIDE DEF P
  <2> QED
    BY <1>6
<1> HIDE DEF n
<1>8. 1 \in 1..(Len(s) + 1) /\ n \in 0..Len(s) /\ 1 <= n + 1 /\ n - 1 + 1 = n
  BY <1>1, <1>7 DEF N
<1> DEFINE p == SubSeq(s, 1, n)
<1>9. p \in Seq(0..Other) /\ Len(p) = n - 1 + 1 /\ \A i \in 1..(n - 1 + 1) : p[i] = s[1 + i - 1]
  BY <1>1, <1>8, PartOf
<1> HIDE DEF p
<1>10. \A i \in 1..Len(p) : p[i] \in 0..9
  <2> TAKE i \in 1..Len(p)
  <2>1. i \in 1..n /\ i \in 1..N /\ 1 + i - 1 = i
    BY <1>1, <1>7, <1>8, <1>9
  <2>2. p[i] = s[i] /\ s[i] \in 0..11 /\ s[i] < 10
    BY <1>3, <1>7, <1>8, <1>9, <2>1
  <2> QED
    BY <2>2
<1>11. p \in Seq(0..9)
  BY <1>9, <1>10
<1> QED
  BY <1>2, <1>11 DEF p

LEMMA Swaps ==
    ASSUME NEW z \in Nat, z % 2 = 0, NEW i \in 1..z
    PROVE  Swapped(i) \in 1..z /\ Swapped(Swapped(i)) = i
<1>1. CASE i % 2 = 1
  <2>1. i + 1 <= z /\ (i + 1) % 2 # 1
    BY <1>1
  <2> QED
    BY <1>1, <2>1 DEF Swapped
<1>2. CASE i % 2 # 1
  <2>1. i - 1 \in 1..z /\ (i - 1) % 2 = 1
    BY <1>2
  <2> QED
    BY <1>2, <2>1 DEF Swapped
<1> QED
  BY <1>1, <1>2

\* How long a number is with its filler.
Evened(n) == n + (n % 2)

LEMMA Fills ==
    ASSUME NEW n \in Nat
    PROVE  Evened(n) \in Nat /\ Evened(n) % 2 = 0 /\ Evened(n) \in {n, n + 1} /\ (Evened(n) = n <=> n % 2 # 1)
  BY DEF Evened

LEMMA Encoded ==
    ASSUME NEW number \in Seq(0..9)
    PROVE  LET e == EncodeHexDec(number)
               n == Len(number)
           IN  /\ e \in Seq(Nat) /\ Len(e) = Evened(n)
               /\ \A i \in 1..Evened(n) : e[Swapped(i)] = IF i <= n THEN number[i] ELSE Filler
<1> DEFINE n == Len(number)
           z == Evened(n)
           s == IF n % 2 = 1 THEN Append(number, Filler) ELSE number
           e == EncodeHexDec(number)
<1>1. n \in Nat /\ z \in Nat /\ z % 2 = 0 /\ z \in {n, n + 1} /\ (z = n <=> n % 2 # 1)
  BY Fills
<1>2. number \in Seq(Nat) /\ Filler \in Nat
  BY DEF Filler
<1>3. s \in Seq(Nat) /\ Len(s) = z /\ \A i \in 1..z : s[i] = IF i <= n THEN number[i] ELSE Filler
  <2>1. CASE n % 2 = 1
    <3>1. s = Append(number, Filler) /\ z = n + 1
      BY <1>1, <2>1
    <3>2. /\ Append(number, Filler) \in Seq(Nat) /\ Len(Append(number, Filler)) = n + 1
          /\ \A i \in 1..(n + 1) : Append(number, Filler)[i] = IF i <= n THEN number[i] ELSE Filler
      BY <1>2
    <3> HIDE DEF s, z
    <3> QED
      BY <3>1, <3>2
  <2>2. CASE n % 2 # 1
    <3>1. s = number /\ z = n
      BY <1>1, <2>2
    <3>2. \A i \in 1..n : i <= n
      BY <1>1
    <3> HIDE DEF s, z
    <3> QED
      BY <1>2, <3>1, <3>2
  <2> QED
    BY <2>1, <2>2
<1>4. e = [i \in DOMAIN s |-> s[Swapped(i)]]
  BY DEF EncodeHexDec
<1> HIDE DEF s, e, n, z
<1>5. \A i \in 1..z : Swapped(i) \in 1..z /\ Swapped(Swapped(i)) = i
  BY <1>1, Swaps
<1>6. e = [i \in 1..z |-> s[Swapped(i)]]
  BY <1>3, <1>4
<1>7. \A i \in 1..z : s[Swapped(i)] \in Nat
  BY <1>3, <1>5
<1>8. e \in Seq(Nat) /\ Len(e) = z
  BY <1>1, <1>6, <1>7
<1>9. \A i \in 1..z : e[Swapped(i)] = s[i]
  BY <1>5, <1>6
<1> QED
  BY <1>3, <1>8, <1>9 DEF e, n, z

\* t stands in s behind p places.
LiesAt(s, p, t) == p + Len(t) <= Len(s) /\ \A i \in 1..Len(t) : s[p + i] = t[i]

\* What stands in a stands in b, at the same places.
Keeps(a, b) == \A p \in Nat : \A t \in Seq(Nat) : LiesAt(a, p, t) => LiesAt(b, p, t)

LEMMA AtGrows ==
    ASSUME NEW a \in Seq(Nat), NEW b \in Seq(Nat)
    PROVE  /\ a \o b \in Seq(Nat) /\ Len(a \o b) = Len(a) + Len(b) /\ Len(a) \in Nat /\ Len(b) \in Nat
           /\ LiesAt(a \o b, Len(a), b) /\ LiesAt(a \o b, 0, a) /\ Keeps(a, a \o b)
<1> DEFINE c == a \o b
           x == Len(a)
           y == Len(b)
<1>1. x \in Nat /\ y \in Nat
  OBVIOUS
<1>2. c \in Seq(Nat) /\ Len(c) = x + y /\ \A i \in 1..(x + y) : c[i] = IF i <= x THEN a[i] ELSE b[i - x]
  BY ConcatProperties
<1> HIDE DEF c
<1>3. Keeps(a, c)
  <2> SUFFICES \A p \in Nat : \A t \in Seq(Nat) : LiesAt(a, p, t) => LiesAt(c, p, t)
    BY DEF Keeps
  <2> TAKE p \in Nat
  <2> TAKE t \in Seq(Nat)
  <2> HAVE LiesAt(a, p, t)
  <2> DEFINE l == Len(t)
  <2>1. l \in Nat /\ p + l <= x /\ \A i \in 1..l : a[p + i] = t[i]
    BY DEF LiesAt
  <2> HIDE DEF x, y, l
  <2>2. \A i \in 1..l : p + i \in 1..(x + y) /\ p + i <= x
    BY <1>1, <2>1
  <2>3. p + l <= x + y
    BY <1>1, <2>1
  <2>4. \A i \in 1..l : c[p + i] = t[i]
    BY <1>2, <2>1, <2>2
  <2> QED
    BY <1>2, <2>3, <2>4 DEF LiesAt, l
<1> HIDE DEF x, y
<1>4. LiesAt(c, x, b)
  <2>1. \A i \in 1..y : x + i \in 1..(x + y) /\ ~(x + i <= x) /\ (x + i) - x = i
    BY <1>1
  <2>2. \A i \in 1..y : c[x + i] = b[i]
    BY <1>2, <2>1
  <2>3. x + y <= x + y
    BY <1>1
  <2> QED
    BY <1>2, <2>2, <2>3 DEF LiesAt, y
<1>5. LiesAt(c, 0, a)
  <2>1. \A i \in 1..x : 0 + i = i /\ i \in 1..(x + y) /\ i <= x
    BY <1>1
  <2>2. \A i \in 1..x : c[0 + i] = a[i]
    BY <1>2, <2>1
  <2>3. 0 + x <= x + y
    BY <1>1
  <2> QED
    BY <1>2, <2>2, <2>3 DEF LiesAt, x
<1> QED
  BY <1>1, <1>2, <1>3, <1>4, <1>5 DEF c, x, y

LEMMA KeepsOn ==
    ASSUME NEW a, NEW b, NEW c, Keeps(a, b), Keeps(b, c)
    PROVE  Keeps(a, c)
  BY DEF Keeps

LEMMA Kept ==
    ASSUME NEW a, NEW b, Keeps(a, b), NEW p \in Nat, NEW t \in Seq(Nat), LiesAt(a, p, t)
    PROVE  LiesAt(b, p, t)
  BY DEF Keeps

LEMMA OctetIs ==
    ASSUME NEW x \in Nat
    PROVE  /\ Digits(x) \in Seq(Nat) /\ Len(Digits(x)) = 2
           /\ 16 * Digits(x)[1] + Digits(x)[2] = x
<1>1. x \div 16 \in Nat /\ x % 16 \in Nat /\ 16 * (x \div 16) + (x % 16) = x
  OBVIOUS
<1> DEFINE q == x \div 16
           r == x % 16
<1> HIDE DEF q, r
<1>2. Digits(x) = <<q, r>>
  BY DEF Digits, q, r
<1>3. q \in Nat /\ r \in Nat /\ 16 * q + r = x
  BY <1>1 DEF q, r
<1> QED
  BY <1>2, <1>3

LEMMA OctetAt ==
    ASSUME NEW s \in Seq(Nat), NEW p \in Nat, NEW x \in Nat, LiesAt(s, p, Digits(x))
    PROVE  GetInt(s, p + 1) = x
<1> DEFINE d == Digits(x)
<1>1. d \in Seq(Nat) /\ Len(d) = 2 /\ 16 * d[1] + d[2] = x
  BY OctetIs
<1> HIDE DEF d
<1>2. p + 2 <= Len(s) /\ s[p + 1] = d[1] /\ s[p + 2] = d[2]
  <2>1. 1 \in 1..2 /\ 2 \in 1..2
    OBVIOUS
  <2> QED
    BY <1>1, <2>1 DEF LiesAt, d
<1>3. (p + 1) + 1 <= Len(s) /\ (p + 1) + 1 = p + 2
  BY <1>2
<1> QED
  BY <1>1, <1>2, <1>3 DEF GetInt

\* Flags that do not overlap can be told apart.
LEMMA FlagsApart ==
    ASSUME NEW hasUdh \in BOOLEAN, NEW rrq \in BOOLEAN, NEW valid \in BOOLEAN
    PROVE  LET first == 1 + Flag(64, hasUdh) + Flag(32, rrq) + Flag(16, valid)
           IN  /\ first \in Nat /\ ((first \div 64) % 2 = 1 <=> hasUdh)
               /\ ((first \div 32) % 2 = 1 <=> rrq) /\ ((first \div 16) % 2 = 1 <=> valid)
<1>1. CASE hasUdh /\ rrq /\ valid
  BY <1>1 DEF Flag
<1>2. CASE hasUdh /\ rrq /\ ~valid
  BY <1>2 DEF Flag
<1>3. CASE hasUdh /\ ~rrq /\ valid
  BY <1>3 DEF Flag
<1>4. CASE hasUdh /\ ~rrq /\ ~valid
  BY <1>4 DEF Flag
<1>5. CASE ~hasUdh /\ rrq /\ valid
  BY <1>5 DEF Flag
<1>6. CASE ~hasUdh /\ rrq /\ ~valid
  BY <1>6 DEF Flag
<1>7. CASE ~hasUdh /\ ~rrq /\ valid
  BY <1>7 DEF Flag
<1>8. CASE ~hasUdh /\ ~rrq /\ ~valid
  BY <1>8 DEF Flag
<1> QED
  BY <1>1, <1>2, <1>3, <1>4, <1>5, <1>6, <1>7, <1>8

LEMMA CodingApart ==
    ASSUME NEW flash \in BOOLEAN, NEW scheme \in DOMAIN DcsOf
    PROVE  LET dcs == DcsOf[scheme] + Flag(16, flash)
           IN  dcs \in Nat /\ (dcs \div 4) % 4 = DcsOf[scheme] \div 4 /\ ((dcs \div 16) % 2 = 1 <=> flash)
<1>1. DcsOf[scheme] \in {0, 4, 8}
  BY DEF DcsOf
<1> DEFINE d == DcsOf[scheme]
<1> HIDE DEF d
<1>2. d \in {0, 4, 8}
  BY <1>1 DEF d
<1>3. CASE flash
  <2>1. Flag(16, flash) = 16
    BY <1>3 DEF Flag
  <2>2. (d + 16) \in Nat /\ ((d + 16) \div 4) % 4 = d \div 4 /\ ((d + 16) \div 16) % 2 = 1
    BY <1>2
  <2> QED
    BY <1>3, <2>1, <2>2 DEF d
<1>4. CASE ~flash
  <2>1. Flag(16, flash) = 0
    BY <1>4 DEF Flag
  <2>2. (d + 0) \in Nat /\ ((d + 0) \div 4) % 4 = d \div 4 /\ ((d + 0) \div 16) % 2 = 0
    BY <1>2
  <2> QED
    BY <1>4, <2>1, <2>2 DEF d
<1> QED
  BY <1>3, <1>4

SubmitHeader(first, number, type, dcs, timed, ttl) ==
    Digits(0) \o Digits(first) \o Digits(0) \o Digits(Len(number)) \o Digits(type)
    \o EncodeHexDec(number) \o Digits(0) \o Digits(dcs) \o (IF timed THEN Digits(ttl) ELSE <<>>)

HeldBy(s, first, number, type, dcs, timed, ttl) ==
    LET p == 11 + Evened(Len(number))
    IN  /\ s \in Seq(Nat) /\ Len(s) = p + IF timed THEN 5 ELSE 3
        /\ GetInt(s, 3) = first /\ GetInt(s, 7) = Len(number) /\ GetInt(s, 9) = type
        /\ LiesAt(s, 10, EncodeHexDec(number)) /\ GetInt(s, p + 2) = dcs
        /\ timed => GetInt(s, p + 4) = ttl

\* The header that is sent, piece by piece.
LEMMA SubmitPieces ==
    ASSUME NEW first \in Nat, NEW number \in Seq(0..9), NEW type \in Nat, NEW dcs \in Nat,
           NEW ttl \in Nat, NEW timed \in BOOLEAN
    PROVE  HeldBy(SubmitHeader(first, number, type, dcs, timed, ttl), first, number, type, dcs, timed, ttl)
<1> DEFINE n == Len(number)
           z == Evened(n)
           e == EncodeHexDec(number)
           last == IF timed THEN Digits(ttl) ELSE <<>>
           d0 == Digits(0)
           d1 == Digits(first)
           dn == Digits(n)
           dt == Digits(type)
           dd == Digits(dcs)
           a2 == d0 \o d1
           a3 == a2 \o d0
           a4 == a3 \o dn
           a5 == a4 \o dt
           a6 == a5 \o e
           a7 == a6 \o d0
           a8 == a7 \o dd
           s == SubmitHeader(first, number, type, dcs, timed, ttl)
           p == 11 + z
<1>1. n \in Nat /\ z \in Nat /\ e \in Seq(Nat) /\ Len(e) = z
  BY Fills, Encoded
<1>2. /\ d0 \in Seq(Nat) /\ Len(d0) = 2 /\ d1 \in Seq(Nat) /\ Len(d1) = 2
      /\ dn \in Seq(Nat) /\ Len(dn) = 2 /\ dt \in Seq(Nat) /\ Len(dt) = 2
      /\ dd \in Seq(Nat) /\ Len(dd) = 2
  <2> HIDE DEF n
  <2> QED
    BY <1>1, OctetIs
<1>3. last \in Seq(Nat) /\ (timed => Len(last) = 2) /\ (~timed => Len(last) = 0)
  <2>1. Digits(ttl) \in Seq(Nat) /\ Len(Digits(ttl)) = 2
    BY OctetIs
  <2>2. <<>> \in Seq(Nat) /\ Len(<<>>) = 0
    OBVIOUS
  <2>3. CASE timed
    BY <2>1, <2>3
  <2>4. CASE ~timed
    BY <2>2, <2>4
  <2> QED
    BY <2>3, <2>4
<1> SUFFICES /\ s \in Seq(Nat) /\ Len(s) = p + IF timed THEN 5 ELSE 3
             /\ GetInt(s, 3) = first /\ GetInt(s, 7) = n /\ GetInt(s, 9) = type
             /\ LiesAt(s, 10, e) /\ GetInt(s, p + 2) = dcs
             /\ timed => GetInt(s, p + 4) = ttl
  BY DEF HeldBy
<1>4. s = a8 \o last
  BY DEF SubmitHeader
<1> HIDE DEF d0, d1, dn, dt, dd, last, e, n, z, a2, a3, a4, a5, a6, a7, a8, s, p
<1>5. a2 \in Seq(Nat) /\ Len(a2) = 4 /\ LiesAt(a2, 2, d1) /\ Keeps(d0, a2)
  <2>1. a2 = d0 \o d1 /\ 2 + 2 = 4
    BY <1>1 DEF a2
  <2>2. d0 \in Seq(Nat) /\ 2 = Len(d0) /\ d1 \in Seq(Nat) /\ 2 = Len(d1)
    BY <1>2, <1>2
  <2>3. d0 \o d1 \in Seq(Nat) /\ Len(d0 \o d1) = Len(d0) + Len(d1) /\ LiesAt(d0 \o d1, Len(d0), d1) /\ Keeps(d0, d0 \o d1)
    BY <2>2, AtGrows
  <2> QED
    BY <2>1, <2>2, <2>3
<1>6. a3 \in Seq(Nat) /\ Len(a3) = 6 /\ LiesAt(a3, 4, d0) /\ Keeps(a2, a3)
  <2>1. a3 = a2 \o d0 /\ 4 + 2 = 6
    BY <1>1 DEF a3
  <2>2. a2 \in Seq(Nat) /\ 4 = Len(a2) /\ d0 \in Seq(Nat) /\ 2 = Len(d0)
    BY <1>2, <1>5
  <2>3. a2 \o d0 \in Seq(Nat) /\ Len(a2 \o d0) = Len(a2) + Len(d0) /\ LiesAt(a2 \o d0, Len(a2), d0) /\ Keeps(a2, a2 \o d0)
    BY <2>2, AtGrows
  <2> QED
    BY <2>1, <2>2, <2>3
<1>7. a4 \in Seq(Nat) /\ Len(a4) = 8 /\ LiesAt(a4, 6, dn) /\ Keeps(a3, a4)
  <2>1. a4 = a3 \o dn /\ 6 + 2 = 8
    BY <1>1 DEF a4
  <2>2. a3 \in Seq(Nat) /\ 6 = Len(a3) /\ dn \in Seq(Nat) /\ 2 = Len(dn)
    BY <1>2, <1>6
  <2>3. a3 \o dn \in Seq(Nat) /\ Len(a3 \o dn) = Len(a3) + Len(dn) /\ LiesAt(a3 \o dn, Len(a3), dn) /\ Keeps(a3, a3 \o dn)
    BY <2>2, AtGrows
  <2> QED
    BY <2>1, <2>2, <2>3
<1>8. a5 \in Seq(Nat) /\ Len(a5) = 10 /\ LiesAt(a5, 8, dt) /\ Keeps(a4, a5)
  <2>1. a5 = a4 \o dt /\ 8 + 2 = 10
    BY <1>1 DEF a5
  <2>2. a4 \in Seq(Nat) /\ 8 = Len(a4) /\ dt \in Seq(Nat) /\ 2 = Len(dt)
    BY <1>2, <1>7
  <2>3. a4 \o dt \in Seq(Nat) /\ Len(a4 \o dt) = Len(a4) + Len(dt) /\ LiesAt(a4 \o dt, Len(a4), dt) /\ Keeps(a4, a4 \o dt)
    BY <2>2, AtGrows
  <2> QED
    BY <2>1, <2>2, <2>3
<1>9. a6 \in Seq(Nat) /\ Len(a6) = (10 + z) /\ LiesAt(a6, 10, e) /\ Keeps(a5, a6)
  <2>1. a6 = a5 \o e /\ 10 + z = (10 + z)
    BY <1>1 DEF a6
  <2>2. a5 \in Seq(Nat) /\ 10 = Len(a5) /\ e \in Seq(Nat) /\ z = Len(e)
    BY <1>1, <1>8
  <2>3. a5 \o e \in Seq(Nat) /\ Len(a5 \o e) = Len(a5) + Len(e) /\ LiesAt(a5 \o e, Len(a5), e) /\ Keeps(a5, a5 \o e)
    BY <2>2, AtGrows
  <2> QED
    BY <2>1, <2>2, <2>3
<1>10. a7 \in Seq(Nat) /\ Len(a7) = (12 + z) /\ LiesAt(a7, (10 + z), d0) /\ Keeps(a6, a7)
  <2>1. a7 = a6 \o d0 /\ (10 + z) + 2 = (12 + z)
    BY <1>1 DEF a7
  <2>2. a6 \in Seq(Nat) /\ (10 + z) = Len(a6) /\ d0 \in Seq(Nat) /\ 2 = Len(d0)
    BY <1>2, <1>9
  <2>3. a6 \o d0 \in Seq(Nat) /\ Len(a6 \o d0) = Len(a6) + Len(d0) /\ LiesAt(a6 \o d0, Len(a6), d0) /\ Keeps(a6, a6 \o d0)
    BY <2>2, AtGrows
  <2> QED
    BY <2>1, <2>2, <2>3
<1>11. a8 \in Seq(Nat) /\ Len(a8) = (14 + z) /\ LiesAt(a8, (12 + z), dd) /\ Keeps(a7, a8)
  <2>1. a8 = a7 \o dd /\ (12 + z) + 2 = (14 + z)
    BY <1>1 DEF a8
  <2>2. a7 \in Seq(Nat) /\ (12 + z) = Len(a7) /\ dd \in Seq(Nat) /\ 2 = Len(dd)
    BY <1>2, <1>10
  <2>3. a7 \o dd \in Seq(Nat) /\ Len(a7 \o dd) = Len(a7) + Len(dd) /\ LiesAt(a7 \o dd, Len(a7), dd) /\ Keeps(a7, a7 \o dd)
    BY <2>2, AtGrows
  <2> QED
    BY <2>1, <2>2, <2>3
<1>12. s \in Seq(Nat) /\ Len(s) = (14 + z) + Len(last) /\ LiesAt(s, 14 + z, last) /\ Keeps(a8, s)
  <2>1. a8 \in Seq(Nat) /\ 14 + z = Len(a8) /\ last \in Seq(Nat)
    BY <1>3, <1>11
  <2>2. a8 \o last \in Seq(Nat) /\ Len(a8 \o last) = Len(a8) + Len(last) /\ LiesAt(a8 \o last, Len(a8), last) /\ Keeps(a8, a8 \o last)
    BY <2>1, AtGrows
  <2> QED
    BY <1>4, <2>1, <2>2
<1>13. Keeps(a7, s) /\ Keeps(a6, s) /\ Keeps(a5, s) /\ Keeps(a4, s) /\ Keeps(a3, s) /\ Keeps(a2, s)
  <2>1. Keeps(a7, s)
    BY <1>11, <1>12, KeepsOn
  <2>2. Keeps(a6, s)
    BY <1>10, <2>1, KeepsOn
  <2>3. Keeps(a5, s)
    BY <1>9, <2>2, KeepsOn
  <2>4. Keeps(a4, s)
    BY <1>8, <2>3, KeepsOn
  <2>5. Keeps(a3, s)
    BY <1>7, <2>4, KeepsOn
  <2>6. Keeps(a2, s)
    BY <1>6, <2>5, KeepsOn
  <2> QED
    BY <2>1, <2>2, <2>3, <2>4, <2>5, <2>6
<1>14. LiesAt(s, 2, d1) /\ LiesAt(s, 6, dn) /\ LiesAt(s, 8, dt) /\ LiesAt(s, 10, e) /\ LiesAt(s, 12 + z, dd)
  <2>1. 2 \in Nat /\ 6 \in Nat /\ 8 \in Nat /\ 10 \in Nat /\ 12 + z \in Nat
    BY <1>1
  <2>2. LiesAt(s, 2, d1)
    BY <1>2, <1>5, <1>13, <2>1, Kept
  <2>3. LiesAt(s, 6, dn)
    BY <1>2, <1>7, <1>13, <2>1, Kept
  <2>4. LiesAt(s, 8, dt)
    BY <1>2, <1>8, <1>13, <2>1, Kept
  <2>5. LiesAt(s, 10, e)
    BY <1>1, <1>9, <1>13, <2>1, Kept
  <2>6. LiesAt(s, 12 + z, dd)
    BY <1>2, <1>11, <1>12, <2>1, Kept
  <2> QED
    BY <2>2, <2>3, <2>4, <2>5, <2>6
<1>15. p = 11 + z
  BY DEF p
<1>16. GetInt(s, 3) = first /\ GetInt(s, 7) = n /\ GetInt(s, 9) = type /\ GetInt(s, p + 2) = dcs
  <2>1. GetInt(s, 3) = first
    <3>1. GetInt(s, 2 + 1) = first
      BY <1>12, <1>14, OctetAt DEF d1
    <3> QED
      BY <3>1
  <2>2. GetInt(s, 7) = n
    <3>1. GetInt(s, 6 + 1) = n
      BY <1>1, <1>12, <1>14, OctetAt DEF dn
    <3> QED
      BY <3>1
  <2>3. GetInt(s, 9) = type
    <3>1. GetInt(s, 8 + 1) = type
      BY <1>12, <1>14, OctetAt DEF dt
    <3> QED
      BY <3>1
  <2>4. 12 + z \in Nat /\ p + 2 = (12 + z) + 1
    BY <1>1, <1>15
  <2>5. GetInt(s, (12 + z) + 1) = dcs
    BY <1>12, <1>14, <2>4, OctetAt DEF dd
  <2> QED
    BY <2>1, <2>2, <2>3, <2>4, <2>5
<1>17. ASSUME timed PROVE GetInt(s, p + 4) = ttl
  <2>1. 14 + z \in Nat /\ p + 4 = (14 + z) + 1
    BY <1>1, <1>15
  <2>2. last = Digits(ttl)
    BY <1>17 DEF last
  <2>3. GetInt(s, (14 + z) + 1) = ttl
    BY <1>12, <2>1, <2>2, OctetAt
  <2> QED
    BY <2>1, <2>3
<1>18. Len(s) = p + IF timed THEN 5 ELSE 3
  <2>1. CASE timed
    <3>1. Len(s) = (14 + z) + 2
      BY <1>3, <1>12, <2>1
    <3> QED
      BY <1>1, <1>15, <2>1, <3>1
  <2>2. CASE ~timed
    <3>1. Len(s) = (14 + z) + 0
      BY <1>3, <1>12, <2>2
    <3> QED
      BY <1>1, <1>15, <2>2, <3>1
  <2> QED
    BY <2>1, <2>2
<1> QED
  BY <1>12, <1>14, <1>16, <1>17, <1>18

\* The digits that the standard's reader finds behind p places.
DigitsBehind(s, p, size) == [i \in 1..size |-> s[p + Swapped(i)]]

\* The standard's reader finds the digits of a number behind p places, and its filler.
ReadsBack(s, p, number) ==
    LET n == Len(number)
        digits == DigitsBehind(s, p, Evened(n))
    IN  /\ SubSeq(digits, 1, n) = number
        /\ SubSeq(digits, n + 1, Evened(n)) = IF n % 2 = 1 THEN <<Filler>> ELSE <<>>

LEMMA WiderSeq ==
    ASSUME NEW number \in Seq(0..9)
    PROVE  number \in Seq(Nat)
  OBVIOUS

\* Where a number is written, the standard's reader finds its digits, and the filler.
LEMMA NumberBack ==
    ASSUME NEW number \in Seq(0..9), NEW s \in Seq(Nat), NEW p \in Nat, LiesAt(s, p, EncodeHexDec(number))
    PROVE  ReadsBack(s, p, number)
<1> DEFINE n == Len(number)
           size == Evened(n)
           digits == DigitsBehind(s, p, size)
           e == EncodeHexDec(number)
<1>1. /\ n \in Nat /\ size \in Nat /\ size % 2 = 0 /\ size \in {n, n + 1} /\ (size = n <=> n % 2 # 1)
      /\ Len(e) = size /\ \A i \in 1..size : e[Swapped(i)] = IF i <= n THEN number[i] ELSE Filler
  <2>1. n \in Nat
    OBVIOUS
  <2>2. Len(e) = size /\ \A i \in 1..size : e[Swapped(i)] = IF i <= n THEN number[i] ELSE Filler
    BY Encoded
  <2> HIDE DEF n, e
  <2> QED
    BY <2>1, <2>2, Fills
<1>2. \A j \in 1..size : s[p + j] = e[j]
  BY <1>1 DEF LiesAt
<1> HIDE DEF e
<1>3. \A i \in 1..size : s[p + Swapped(i)] = IF i <= n THEN number[i] ELSE Filler
  <2> TAKE i \in 1..size
  <2> HIDE DEF size, n
  <2>1. Swapped(i) \in 1..size
    BY <1>1, Swaps
  <2> QED
    BY <1>1, <1>2, <2>1
<1> SUFFICES /\ SubSeq(digits, 1, n) = number
             /\ SubSeq(digits, n + 1, size) = IF n % 2 = 1 THEN <<Filler>> ELSE <<>>
  BY DEF ReadsBack
<1>4. digits = [i \in 1..size |-> IF i <= n THEN number[i] ELSE Filler]
  BY <1>3 DEF DigitsBehind
<1>5. (\A i \in 1..n : number[i] \in Nat) /\ number \in Seq(Nat) /\ Len(number) = n
  <2>1. number \in Seq(Nat)
    BY WiderSeq
  <2> QED
    BY <2>1
<1> HIDE DEF digits, size, n
<1>6. \A i \in 1..size : (i <= n => i \in 1..n) /\ (IF i <= n THEN number[i] ELSE Filler) \in Nat
  BY <1>1, <1>5 DEF Filler
<1>7. digits \in Seq(Nat) /\ Len(digits) = size /\ \A i \in 1..size : digits[i] = IF i <= n THEN number[i] ELSE Filler
  BY <1>1, <1>4, <1>6
<1>8. SubSeq(digits, 1, n) = number
  <2> DEFINE part == SubSeq(digits, 1, n)
  <2>1. 1 \in 1..(Len(digits) + 1) /\ n \in 0..Len(digits) /\ 1 <= n + 1 /\ n - 1 + 1 = n
    BY <1>1, <1>7
  <2>2. part \in Seq(Nat) /\ Len(part) = n - 1 + 1 /\ \A i \in 1..(n - 1 + 1) : part[i] = digits[1 + i - 1]
    BY <1>7, <2>1, PartOf
  <2> HIDE DEF part
  <2>3. \A i \in 1..n : 1 + i - 1 = i /\ i \in 1..size /\ i <= n
    BY <1>1
  <2>4. part \in Seq(Nat) /\ Len(part) = n /\ \A i \in 1..n : part[i] = number[i]
    BY <1>7, <2>1, <2>2, <2>3
  <2>5. part = number
    BY <1>5, <2>4, SameSeq
  <2> QED
    BY <2>5 DEF part
<1>9. SubSeq(digits, n + 1, size) = IF n % 2 = 1 THEN <<Filler>> ELSE <<>>
  <2> DEFINE part == SubSeq(digits, n + 1, size)
  <2>1. n + 1 \in 1..(Len(digits) + 1) /\ size \in 0..Len(digits) /\ n + 1 <= size + 1
    BY <1>1, <1>7
  <2>2. /\ part \in Seq(Nat) /\ Len(part) = size - (n + 1) + 1
        /\ \A i \in 1..(size - (n + 1) + 1) : part[i] = digits[n + 1 + i - 1]
    BY <1>7, <2>1, PartOf
  <2> HIDE DEF part
  <2>3. CASE n % 2 = 1
    <3>1. size = n + 1 /\ size - (n + 1) + 1 = 1 /\ n + 1 + 1 - 1 = n + 1 /\ n + 1 \in 1..size /\ ~(n + 1 <= n) /\ 1 \in 1..1
      BY <1>1, <2>3
    <3>2. Len(part) = 1 /\ part[1] = Filler
      BY <1>7, <2>2, <3>1
    <3> DEFINE one == <<Filler>>
    <3>3. one \in Seq(Nat) /\ Len(one) = 1 /\ one[1] = Filler /\ \A i \in 1..1 : i = 1
      BY DEF Filler
    <3> HIDE DEF one
    <3>4. part = one
      BY <2>2, <3>2, <3>3, SameSeq
    <3> QED
      BY <2>3, <3>4 DEF part, one
  <2>4. CASE n % 2 # 1
    <3>1. size - (n + 1) + 1 = 0
      BY <1>1, <2>4
    <3>2. part = <<>>
      BY <2>2, <3>1, EmptySeq
    <3> QED
      BY <2>4, <3>2 DEF part
  <2> QED
    BY <2>3, <2>4
<1> QED
  BY <1>8, <1>9

LEMMA SubmitUnderstood ==
    ASSUME NEW phone \in Seq(0..Other)
    PROVE  SubmitIsUnderstood(phone)
<1> SUFFICES ASSUME NEW hasUdh \in BOOLEAN, NEW rrq \in BOOLEAN, NEW flash \in BOOLEAN,
                    NEW ttl \in {0, 170}, NEW scheme \in DOMAIN DcsOf
             PROVE  LET sms == [phone |-> phone, rrq |-> rrq, flash |-> flash, ttl |-> ttl]
                        number == ClearPhoneNo(phone)
                    IN  StandardSubmit(MakeSmsSubmitHeader(sms, hasUdh, scheme)) =
                        [number |-> number, fill |-> IF Len(number) % 2 = 1 THEN <<Filler>> ELSE <<>>,
                         plus |-> phone # <<>> /\ phone[1] = Plus, udh |-> hasUdh, rrq |-> rrq,
                         scheme |-> DcsOf[scheme] \div 4, flash |-> flash, ttl |-> ttl, rest |-> 0]
  BY DEF SubmitIsUnderstood
<1> DEFINE number == ClearPhoneNo(phone)
           n == Len(number)
           timed == ttl > 0
           international == phone # <<>> /\ phone[1] = Plus
           first == 1 + Flag(64, hasUdh) + Flag(32, rrq) + Flag(16, timed)
           dcs == DcsOf[scheme] + Flag(16, flash)
           type == IF phone # <<>> /\ Head(phone) = Plus THEN 145 ELSE 129
           e == EncodeHexDec(number)
           s == SubmitHeader(first, number, type, dcs, timed, ttl)
           size == Evened(n)
           p == 11 + size
           sms == [phone |-> phone, rrq |-> rrq, flash |-> flash, ttl |-> ttl]
           standard == StandardSubmit(s)
           digits == DigitsBehind(s, 10, size)
           q == p + 2
           last == p + 4
<1>2. number \in Seq(0..9) /\ n \in Nat
  BY Cleared
<1>3. timed \in BOOLEAN /\ ttl \in Nat /\ ttl % 256 = ttl /\ (~timed => ttl = 0)
  OBVIOUS
<1>4. /\ first \in Nat /\ ((first \div 64) % 2 = 1 <=> hasUdh)
      /\ ((first \div 32) % 2 = 1 <=> rrq) /\ ((first \div 16) % 2 = 1 <=> timed)
  <2> HIDE DEF timed
  <2> QED
    BY <1>3, FlagsApart
<1>5. dcs \in Nat /\ (dcs \div 4) % 4 = DcsOf[scheme] \div 4 /\ ((dcs \div 16) % 2 = 1 <=> flash)
  BY CodingApart
<1>6. type \in Nat /\ (type = 145 <=> international)
  OBVIOUS
<1>1. MakeSmsSubmitHeader(sms, hasUdh, scheme) = s
  BY <1>3 DEF MakeSmsSubmitHeader, SubmitHeader
<1> HIDE DEF first, dcs, type, timed, number, international
<1>10. /\ s \in Seq(Nat) /\ Len(s) = p + IF timed THEN 5 ELSE 3
       /\ GetInt(s, 3) = first /\ GetInt(s, 7) = n /\ GetInt(s, 9) = type
       /\ LiesAt(s, 10, e) /\ GetInt(s, q) = dcs
       /\ timed => GetInt(s, last) = ttl
  <2>1. HeldBy(s, first, number, type, dcs, timed, ttl)
    BY <1>2, <1>3, <1>4, <1>5, <1>6, SubmitPieces
  <2> QED
    BY <2>1 DEF HeldBy
<1> HIDE DEF s
<1>11. SubSeq(digits, 1, n) = number /\ SubSeq(digits, n + 1, size) = IF n % 2 = 1 THEN <<Filler>> ELSE <<>>
  <2>1. 10 \in Nat
    OBVIOUS
  <2>2. ReadsBack(s, 10, number)
    BY <1>2, <1>10, <2>1, NumberBack
  <2> QED
    BY <2>2 DEF ReadsBack
<1>12. StandardSubmit(s) =
        [number |-> SubSeq(digits, 1, n), fill |-> SubSeq(digits, n + 1, size),
         plus |-> type = 145,
         udh |-> (first \div 64) % 2 = 1, rrq |-> (first \div 32) % 2 = 1,
         scheme |-> (dcs \div 4) % 4, flash |-> (dcs \div 16) % 2 = 1,
         ttl |-> IF (first \div 16) % 2 = 1 THEN GetInt(s, last) ELSE 0,
         rest |-> Len(s) - (p + IF (first \div 16) % 2 = 1 THEN 5 ELSE 3)]
  <2> DEFINE Read(a, m, t, z, c, l) ==
                [number |-> SubSeq(DigitsBehind(s, 10, z), 1, m), fill |-> SubSeq(DigitsBehind(s, 10, z), m + 1, z),
                 plus |-> t = 145,
                 udh |-> (a \div 64) % 2 = 1, rrq |-> (a \div 32) % 2 = 1,
                 scheme |-> (c \div 4) % 4, flash |-> (c \div 16) % 2 = 1,
                 ttl |-> IF (a \div 16) % 2 = 1 THEN l ELSE 0,
                 rest |-> Len(s) - (11 + z + IF (a \div 16) % 2 = 1 THEN 5 ELSE 3)]
  <2>1. StandardSubmit(s) =
            Read(GetInt(s, 3), GetInt(s, 7), GetInt(s, 9), Evened(GetInt(s, 7)),
                 GetInt(s, 11 + Evened(GetInt(s, 7)) + 2), GetInt(s, 11 + Evened(GetInt(s, 7)) + 4))
    BY Zenon DEF StandardSubmit, Evened, DigitsBehind
  <2> HIDE DEF Read
  <2>2. GetInt(s, 3) = first /\ GetInt(s, 7) = n /\ GetInt(s, 9) = type /\ GetInt(s, q) = dcs
    BY <1>10
  <2>3. StandardSubmit(s) = Read(first, n, type, size, dcs, GetInt(s, last))
    BY <2>1, <2>2
  <2> QED
    BY <2>3 DEF Read
<1>13. (IF (first \div 16) % 2 = 1 THEN GetInt(s, last) ELSE 0) = ttl
  <2> HIDE DEF last
  <2>1. CASE timed
    BY <1>4, <1>10, <2>1, Zenon
  <2>2. CASE ~timed
    BY <1>3, <1>4, <2>2, Zenon
  <2> QED
    BY <2>1, <2>2
<1>14. Len(s) - (p + IF (first \div 16) % 2 = 1 THEN 5 ELSE 3) = 0
  <2>1. p \in Nat
    <3> HIDE DEF n
    <3> QED
      BY <1>2, Fills
  <2> HIDE DEF p
  <2>2. CASE timed
    BY <1>4, <1>10, <2>1, <2>2
  <2>3. CASE ~timed
    BY <1>4, <1>10, <2>1, <2>3
  <2> QED
    BY <2>2, <2>3
<1>15. /\ (type = 145) = international /\ ((first \div 64) % 2 = 1) = hasUdh
       /\ ((first \div 32) % 2 = 1) = rrq /\ ((dcs \div 16) % 2 = 1) = flash
  <2>1. international \in BOOLEAN
    BY DEF international
  <2> QED
    BY <1>4, <1>5, <1>6, <2>1, Zenon
<1>16. StandardSubmit(s) =
        [number |-> number, fill |-> IF n % 2 = 1 THEN <<Filler>> ELSE <<>>,
         plus |-> international, udh |-> hasUdh, rrq |-> rrq,
         scheme |-> DcsOf[scheme] \div 4, flash |-> flash, ttl |-> ttl, rest |-> 0]
  <2> HIDE DEF p, q, last, digits, size, n
  <2> QED
    BY <1>5, <1>11, <1>12, <1>13, <1>14, <1>15, Zenon
<1> QED
  BY <1>1, <1>16 DEF number, international

-----------------------------------------------------------------------------
(* The envelope that is read.                                              *)

\* The digits that one octet of a number gives.
OctetDigits(s, p, k) ==
    IF s[p + 2 * k - 2] = Filler THEN <<s[p + 2 * k - 1]>> ELSE <<s[p + 2 * k - 1], s[p + 2 * k - 2]>>

LEMMA DigitStates ==
    ASSUME NEW s \in Seq(Nat), NEW p \in Nat, 1 <= p, NEW n \in Nat, p + 2 * n <= Len(s) + 1
    PROVE  LET done == ReadDigits(s, p, n)
           IN  /\ done \in [0..n -> Seq(Nat)] /\ done[0] = <<>>
               /\ \A k \in 1..n : done[k] = done[k - 1] \o OctetDigits(s, p, k)
<1> DEFINE Add(k) == OctetDigits(s, p, k)
           S == Seq(Nat)
           step == [k \in 1..n |-> [t \in S |-> t \o Add(k)]]
           P(f) == f = [k \in 0..n |-> IF k = 0 THEN <<>> ELSE f[k - 1] \o Add(k)]
           done == ReadDigits(s, p, n)
<1>1. \A k \in 1..n : Add(k) \in S
  <2> TAKE k \in 1..n
  <2> DEFINE a == p + 2 * k - 1
             b == p + 2 * k - 2
  <2>1. a \in 1..Len(s) /\ b \in 1..Len(s)
    OBVIOUS
  <2> HIDE DEF a, b
  <2>2. s[a] \in Nat /\ s[b] \in Nat
    BY <2>1
  <2>3. <<s[a]>> \in S /\ <<s[a], s[b]>> \in S
    BY <2>2
  <2>4. Add(k) = IF s[b] = Filler THEN <<s[a]>> ELSE <<s[a], s[b]>>
    BY DEF OctetDigits, a, b
  <2> HIDE DEF Add, S
  <2> QED
    BY <2>3, <2>4
<1>2. <<>> \in S
  OBVIOUS
<1>3. ReadDigits(s, p, n) = CHOOSE f : P(f)
  BY DEF ReadDigits, OctetDigits
<1> HIDE DEF Add
<1>4. \A k \in 1..n : \A t \in S : step[k][t] = t \o Add(k) /\ step[k][t] \in S
  <2> TAKE k \in 1..n
  <2> TAKE t \in S
  <2>1. t \o Add(k) \in S
    BY <1>1, ConcatProperties
  <2> QED
    BY <2>1
<1> HIDE DEF step
<1>5. PICK f : IsLoop(f, n, S, <<>>, step)
  <2> HIDE DEF S
  <2> QED
    BY <1>2, <1>4, LoopStates
<1>6. f \in [0..n -> S] /\ f[0] = <<>> /\ \A k \in 1..n : f[k] = step[k][f[k - 1]]
  BY <1>5 DEF IsLoop
<1> HIDE DEF S
<1>7. \A k \in 1..n : k - 1 \in 0..n /\ f[k] = f[k - 1] \o Add(k)
  <2> TAKE k \in 1..n
  <2>1. k - 1 \in 0..n
    OBVIOUS
  <2>2. f[k - 1] \in S
    BY <1>6, <2>1
  <2> QED
    BY <1>4, <1>6, <2>1, <2>2
<1>8. P(f)
  <2>1. f = [k \in 0..n |-> f[k]]
    BY <1>6
  <2>2. \A k \in 0..n : f[k] = IF k = 0 THEN <<>> ELSE f[k - 1] \o Add(k)
    <3> TAKE k \in 0..n
    <3>1. k = 0 \/ k \in 1..n
      OBVIOUS
    <3> QED
      BY <1>6, <1>7, <3>1
  <2> QED
    BY <2>1, <2>2
<1>9. P(done)
  <2> HIDE DEF P
  <2>1. done = CHOOSE g : P(g)
    BY <1>3
  <2> HIDE DEF done
  <2> QED
    BY <1>8, <2>1
<1> HIDE DEF done
<1>10. done = [k \in 0..n |-> IF k = 0 THEN <<>> ELSE done[k - 1] \o Add(k)]
  BY <1>9
<1>11. done[0] = <<>> /\ \A k \in 1..n : done[k] = done[k - 1] \o Add(k)
  <2>1. 0 \in 0..n /\ \A k \in 1..n : k \in 0..n /\ k # 0
    OBVIOUS
  <2> QED
    BY <1>10, <2>1
<1>12. \A k \in 0..n : done[k] \in S
  <2> DEFINE T == {k \in 0..n : done[k] \in S}
  <2>1. 0 \in T
    BY <1>2, <1>11
  <2>2. \A k \in 1..n : k - 1 \in T => k \in T
    <3> TAKE k \in 1..n
    <3> HAVE k - 1 \in T
    <3>1. done[k - 1] \in S /\ k \in 0..n
      OBVIOUS
    <3>2. done[k - 1] \o Add(k) \in S
      BY <1>1, <3>1, ConcatProperties DEF S
    <3>3. done[k] \in S
      BY <1>11, <3>2
    <3> QED
      BY <3>1, <3>3
  <2> HIDE DEF T
  <2>3. \A k \in 0..n : k \in T
    BY <2>1, <2>2, UpTo
  <2> QED
    BY <2>3 DEF T
<1>13. done \in [0..n -> S]
  BY <1>10, <1>12
<1> QED
  BY <1>11, <1>13 DEF done, S, Add

\* A number is read as it was encoded.
LEMMA NumberRead ==
    ASSUME NEW number \in Seq(0..9), NEW s \in Seq(Nat), NEW p \in Nat, LiesAt(s, p, EncodeHexDec(number))
    PROVE  ReadNumber(s, p + 1, Evened(Len(number))) = number
<1> DEFINE m == Len(number)
           size == Evened(m)
           n == size \div 2
           e == EncodeHexDec(number)
           start == p + 1
           done == ReadDigits(s, start, n)
<1>1. m \in Nat /\ size \in Nat /\ n \in Nat /\ size = 2 * n /\ m <= size /\ size - 1 <= m
  <2>1. m \in Nat
    OBVIOUS
  <2> HIDE DEF m
  <2>2. size \in Nat /\ size % 2 = 0 /\ size \in {m, m + 1}
    BY <2>1, Fills
  <2> HIDE DEF size
  <2> QED
    BY <2>1, <2>2
<1>2. /\ Len(e) = size
      /\ \A i \in 1..size : e[Swapped(i)] = IF i <= m THEN number[i] ELSE Filler
  BY Encoded
<1>3. p + size <= Len(s) /\ \A j \in 1..size : s[p + j] = e[j]
  BY <1>2 DEF LiesAt
<1>4. number \in Seq(Nat) /\ Len(number) = m /\ \A i \in 1..m : number[i] \in Nat /\ number[i] \in 0..9
  <2>1. \A i \in 1..m : number[i] \in 0..9
    OBVIOUS
  <2>2. number \in Seq(Nat)
    BY WiderSeq
  <2> QED
    BY <2>1, <2>2
<1>5. start \in Nat /\ 1 <= start /\ start + 2 * n <= Len(s) + 1 /\ Len(s) \in Nat
  <2> HIDE DEF size, n
  <2> QED
    BY <1>1, <1>3
<1>6. ReadNumber(s, start, size) = done[n]
  BY DEF ReadNumber
<1> HIDE DEF start, n, size, m
<1>7. /\ done \in [0..n -> Seq(Nat)] /\ done[0] = <<>>
      /\ \A k \in 1..n : done[k] = done[k - 1] \o OctetDigits(s, start, k)
  BY <1>1, <1>5, DigitStates
<1> HIDE DEF e, done
<1>8. ASSUME NEW k \in 1..n
      PROVE  /\ s[start + 2 * k - 1] = number[2 * k - 1] /\ 2 * k - 1 \in 1..m
             /\ s[start + 2 * k - 2] = IF 2 * k <= m THEN number[2 * k] ELSE Filler
  <2> DEFINE odd == 2 * k - 1
             even == 2 * k
  <2>1. /\ odd \in 1..size /\ even \in 1..size /\ odd <= m /\ odd \in 1..m /\ odd % 2 = 1 /\ even % 2 # 1
        /\ odd + 1 = even /\ even - 1 = odd /\ start + 2 * k - 1 = p + even /\ start + 2 * k - 2 = p + odd
    BY <1>1 DEF start
  <2> HIDE DEF odd, even
  <2>2. Swapped(odd) = even /\ Swapped(even) = odd
    BY <2>1 DEF Swapped
  <2>3. s[p + even] = number[odd] /\ s[p + odd] = IF even <= m THEN number[even] ELSE Filler
    BY <1>2, <1>3, <2>1, <2>2
  <2> QED
    BY <2>1, <2>3 DEF odd, even
<1>9. ASSUME NEW k \in 1..n
      PROVE  LET o == OctetDigits(s, start, k)
             IN  /\ o \in Seq(Nat) /\ Len(o) = Least(2 * k, m) - (2 * k - 2)
                 /\ \A i \in 1..Len(o) : 2 * k - 2 + i \in 1..m /\ o[i] = number[2 * k - 2 + i]
  <2> DEFINE o == OctetDigits(s, start, k)
             x == number[2 * k - 1]
             y == number[2 * k]
             even == 2 * k
  <2>1. /\ o = IF (IF 2 * k <= m THEN y ELSE Filler) = Filler THEN <<x>> ELSE <<x, IF 2 * k <= m THEN y ELSE Filler>>
        /\ x \in Nat
    BY <1>4, <1>8 DEF OctetDigits
  <2>2. CASE even <= m
    <3>1. even \in 1..m
      BY <1>1, <2>2
    <3>2. y \in 0..9 /\ y \in Nat
      BY <1>4, <3>1
    <3>3. y # Filler
      BY <3>2 DEF Filler
    <3>4. o = <<x, y>>
      BY <2>1, <2>2, <3>3
    <3>5. 2 * k - 2 + 1 = 2 * k - 1 /\ 2 * k - 2 + 2 = 2 * k /\ Least(2 * k, m) - (2 * k - 2) = 2
      BY <1>1, <2>2 DEF Least
    <3>6. 2 * k - 1 \in 1..m /\ 2 * k \in 1..m
      BY <1>8, <3>1
    <3>7. \A i \in 1..2 : i = 1 \/ i = 2
      OBVIOUS
    <3> HIDE DEF o, x, y
    <3>8. o \in Seq(Nat) /\ Len(o) = 2 /\ o[1] = x /\ o[2] = y
      <4>1. x \in Nat /\ y \in Nat
        BY <2>1, <3>2
      <4> QED
        BY <3>4, <4>1
    <3>9. \A i \in 1..2 : 2 * k - 2 + i \in 1..m /\ o[i] = number[2 * k - 2 + i]
      <4> TAKE i \in 1..2
      <4>1. CASE i = 1
        BY <3>5, <3>6, <3>8, <4>1 DEF x
      <4>2. CASE i = 2
        BY <3>5, <3>6, <3>8, <4>2 DEF y
      <4> QED
        BY <3>7, <4>1, <4>2
    <3> QED
      BY <3>5, <3>8, <3>9 DEF o
  <2>3. CASE ~(even <= m)
    <3>1. o = <<x>>
      BY <2>1, <2>3
    <3>2. 2 * k - 2 + 1 = 2 * k - 1 /\ Least(2 * k, m) - (2 * k - 2) = 1
      BY <1>1, <1>8, <2>3 DEF Least
    <3>3. \A i \in 1..1 : i = 1
      OBVIOUS
    <3>4. 2 * k - 1 \in 1..m
      BY <1>8
    <3> HIDE DEF o, x
    <3>5. o \in Seq(Nat) /\ Len(o) = 1 /\ o[1] = x
      <4>1. x \in Nat
        BY <2>1
      <4> QED
        BY <3>1, <4>1
    <3>6. \A i \in 1..1 : 2 * k - 2 + i \in 1..m /\ o[i] = number[2 * k - 2 + i]
      BY <3>2, <3>3, <3>4, <3>5 DEF x
    <3> QED
      BY <3>2, <3>5, <3>6 DEF o
  <2> QED
    BY <2>2, <2>3
<1> DEFINE Q(k) == /\ Len(done[k]) = Least(2 * k, m)
                   /\ \A i \in 1..Len(done[k]) : done[k][i] = number[i]
           T == {k \in 0..n : Q(k)}
<1>10. 0 \in T
  <2>1. Len(<<>>) = 0 /\ Least(2 * 0, m) = 0 /\ \A i \in 1..0 : FALSE
    BY <1>1 DEF Least
  <2> QED
    BY <1>1, <1>7, <2>1
<1>11. \A k \in 1..n : k - 1 \in T => k \in T
  <2> TAKE k \in 1..n
  <2> HAVE k - 1 \in T
  <2> DEFINE a == done[k - 1]
             o == OctetDigits(s, start, k)
             b == 2 * k - 2
  <2>1. Len(a) = Least(2 * (k - 1), m) /\ \A i \in 1..Len(a) : a[i] = number[i]
    OBVIOUS
  <2>2. k - 1 \in 0..n /\ k \in 0..n /\ b \in Nat /\ Least(2 * (k - 1), m) = b
    BY <1>1, <1>8 DEF Least
  <2>3. a \in Seq(Nat) /\ done[k] = a \o o
    BY <1>7, <2>2
  <2>4. /\ o \in Seq(Nat) /\ Len(o) = Least(2 * k, m) - b
        /\ \A i \in 1..Len(o) : b + i \in 1..m /\ o[i] = number[b + i]
    BY <1>9
  <2>5. Least(2 * k, m) \in Nat
    BY <1>1 DEF Least
  <2> DEFINE l == Least(2 * k, m)
  <2> HIDE DEF a, o, b, T, Q, l
  <2>6. /\ Len(a \o o) = b + (l - b)
        /\ \A i \in 1..(b + (l - b)) : (a \o o)[i] = IF i <= b THEN a[i] ELSE o[i - b]
    <3>1. /\ Len(a \o o) = Len(a) + Len(o)
          /\ \A i \in 1..(Len(a) + Len(o)) : (a \o o)[i] = IF i <= Len(a) THEN a[i] ELSE o[i - Len(a)]
      BY <2>3, <2>4, ConcatProperties
    <3>2. Len(a) = b /\ Len(o) = l - b
      BY <2>1, <2>2, <2>4 DEF l
    <3> QED
      BY <3>1, <3>2
  <2>7. b + (l - b) = l
    BY <2>2, <2>5 DEF l
  <2>8. \A i \in 1..l : (a \o o)[i] = number[i]
    <3> TAKE i \in 1..l
    <3>1. CASE i <= b
      <4>1. i \in 1..b
        BY <3>1, <2>2
      <4> QED
        BY <2>1, <2>2, <2>6, <2>7, <3>1, <4>1
    <3>2. CASE ~(i <= b)
      <4>1. i - b \in 1..(l - b) /\ b + (i - b) = i
        BY <2>2, <2>5, <3>2 DEF l
      <4> QED
        BY <2>4, <2>6, <2>7, <3>2, <4>1 DEF l
    <3> QED
      BY <3>1, <3>2
  <2>9. Q(k)
    BY <2>3, <2>6, <2>7, <2>8 DEF Q, l
  <2> QED
    BY <2>2, <2>9 DEF T
<1> HIDE DEF T
<1>12. \A k \in 0..n : k \in T
  BY <1>1, <1>10, <1>11, UpTo
<1>13. Q(n) /\ n \in 0..n /\ Least(2 * n, m) = m
  BY <1>1, <1>12 DEF T, Least
<1>14. done[n] \in Seq(Nat) /\ Len(done[n]) = m /\ \A i \in 1..m : done[n][i] = number[i]
  BY <1>7, <1>13
<1>15. done[n] = number
  BY <1>4, <1>14, SameSeq
<1> QED
  BY <1>6, <1>15 DEF size, start, m

LEMMA IntAt ==
    ASSUME NEW s \in Seq(Nat), NEW p \in Nat, 1 <= p
    PROVE  GetInt(s, p) \in Int /\ -1 <= GetInt(s, p) /\ (GetInt(s, p) >= 0 <=> p + 1 <= Len(s))
<1>1. CASE p + 1 <= Len(s)
  <2>1. p \in 1..Len(s) /\ p + 1 \in 1..Len(s)
    BY <1>1
  <2>2. s[p] \in Nat /\ s[p + 1] \in Nat
    BY <2>1
  <2> DEFINE x == s[p]
             y == s[p + 1]
  <2>3. GetInt(s, p) = 16 * x + y
    BY <1>1 DEF GetInt
  <2> HIDE DEF x, y
  <2>4. x \in Nat /\ y \in Nat
    BY <2>2 DEF x, y
  <2> QED
    BY <1>1, <2>3, <2>4
<1>2. CASE ~(p + 1 <= Len(s))
  BY <1>2 DEF GetInt
<1> QED
  BY <1>1, <1>2

AddressSize(s, p, isSMSC) == IF isSMSC THEN (GetInt(s, p) - 1) * 2 ELSE GetInt(s, p)
AddressEnd(s, p, isSMSC) == p + 4 + AddressSize(s, p, isSMSC) + (AddressSize(s, p, isSMSC) % 2)
AddressClass(s, p) == (GetInt(s, p + 2) \div 16) % 8

PhoneGoes(s, p, isSMSC) ==
    LET address == GetPhone(s, p, isSMSC)
        g == GetInt(s, p)
        type == GetInt(s, p + 2)
        size == AddressSize(s, p, isSMSC)
        end == AddressEnd(s, p, isSMSC)
    IN  /\ g = 0 => address = [ok |-> TRUE, next |-> p + 2, plus |-> FALSE, number |-> <<>>]
        /\ g < 0 => address = Beyond
        /\ g > 0 /\ type < 0 => address = NotRead
        /\ g > 0 /\ type >= 0 /\ AddressClass(s, p) = 5 =>
                address = [ok |-> TRUE, next |-> end, characters |-> (size * 4) \div 7]
        /\ g > 0 /\ type >= 0 /\ AddressClass(s, p) # 5 =>
                address = IF Len(s) - (p + 3) < size + 2 * (size % 2) THEN NotRead
                          ELSE [ok |-> TRUE, next |-> end, plus |-> AddressClass(s, p) = 1,
                                number |-> ReadNumber(s, p + 4, size + (size % 2))]

\* GetPhone's five ways out: a first octet that is not there lets it read the type
\* behind the line's end.
LEMMA PhoneWays ==
    ASSUME NEW s \in Seq(Nat), NEW p \in Nat, 1 <= p, NEW isSMSC
    PROVE  PhoneGoes(s, p, isSMSC)
<1> DEFINE g == GetInt(s, p)
           type == GetInt(s, p + 2)
           size == AddressSize(s, p, isSMSC)
           end == AddressEnd(s, p, isSMSC)
           class == AddressClass(s, p)
           unowned == Unowned(s, p + 2)
           none == [ok |-> TRUE, next |-> p + 2, plus |-> FALSE, number |-> <<>>]
           name == [ok |-> TRUE, next |-> end, characters |-> (size * 4) \div 7]
           number == IF Len(s) - (p + 3) < size + 2 * (size % 2) THEN NotRead
                     ELSE [ok |-> TRUE, next |-> end, plus |-> class = 1,
                           number |-> ReadNumber(s, p + 4, size + (size % 2))]
           address == GetPhone(s, p, isSMSC)
<1>1. address = CASE g = 0 -> none
                  [] g # 0 /\ unowned -> Beyond
                  [] g # 0 /\ ~unowned /\ type < 0 -> NotRead
                  [] g # 0 /\ ~unowned /\ type >= 0 /\ class = 5 -> name
                  [] OTHER -> number
  BY Zenon DEF GetPhone, AddressSize, AddressEnd, AddressClass
<1> SUFFICES /\ g = 0 => address = none
             /\ g < 0 => address = Beyond
             /\ g > 0 /\ type < 0 => address = NotRead
             /\ g > 0 /\ type >= 0 /\ class = 5 => address = name
             /\ g > 0 /\ type >= 0 /\ class # 5 => address = number
  BY DEF PhoneGoes
<1>2. g \in Int /\ type \in Int /\ (g >= 0 <=> p + 1 <= Len(s))
  <2>1. p + 2 \in Nat /\ 1 <= p + 2
    OBVIOUS
  <2> QED
    BY <2>1, IntAt
<1>3. unowned = ~(p + 1 <= Len(s))
  <2>1. p + 2 > Len(s) + 1 <=> ~(p + 1 <= Len(s))
    OBVIOUS
  <2>2. unowned = (p + 2 > Len(s) + 1)
    BY DEF Unowned
  <2> HIDE DEF unowned
  <2> QED
    BY <2>1, <2>2
<1> HIDE DEF g, type, class, none, name, number, address, unowned
<1>4. unowned <=> g < 0
  <2>1. g < 0 <=> ~(p + 1 <= Len(s))
    BY <1>2
  <2> QED
    BY <1>3, <2>1
<1>5. ASSUME g = 0 PROVE address = none
  BY <1>1, <1>2, <1>5
<1>6. ASSUME g < 0 PROVE address = Beyond
  <2>1. g # 0 /\ unowned
    BY <1>2, <1>4, <1>6
  <2> QED
    BY <1>1, <2>1
<1>7. ASSUME g > 0 PROVE g # 0 /\ ~unowned
  BY <1>2, <1>4, <1>7
<1>8. ASSUME g > 0, type < 0 PROVE address = NotRead
  BY <1>1, <1>2, <1>7, <1>8
<1>9. ASSUME g > 0, type >= 0, class = 5 PROVE address = name
  BY <1>1, <1>2, <1>7, <1>9
<1>10. ASSUME g > 0, type >= 0, class # 5 PROVE address = number
  BY <1>1, <1>2, <1>7, <1>10
<1> QED
  BY <1>5, <1>6, <1>8, <1>9, <1>10

\* What is read of a line that is cut off is what stands there.
LEMMA CutInt ==
    ASSUME NEW s \in Seq(Nat), NEW k \in 0..Len(s), NEW p \in Nat, 1 <= p
    PROVE  LET t == SubSeq(s, 1, k)
           IN  t \in Seq(Nat) /\ Len(t) = k /\ GetInt(t, p) = IF p + 1 <= k THEN GetInt(s, p) ELSE -1
<1> DEFINE t == SubSeq(s, 1, k)
<1>1. 1 \in 1..(Len(s) + 1) /\ 1 <= k + 1 /\ k - 1 + 1 = k
  OBVIOUS
<1>2. t \in Seq(Nat) /\ Len(t) = k - 1 + 1 /\ \A i \in 1..(k - 1 + 1) : t[i] = s[1 + i - 1]
  BY <1>1, PartOf
<1> HIDE DEF t
<1>3. t \in Seq(Nat) /\ Len(t) = k /\ \A i \in 1..k : t[i] = s[i]
  <2>1. \A i \in 1..k : 1 + i - 1 = i
    OBVIOUS
  <2> QED
    BY <1>1, <1>2, <2>1
<1>4. CASE p + 1 <= k
  <2>1. t[p] = s[p] /\ t[p + 1] = s[p + 1] /\ p + 1 <= Len(s)
    BY <1>3, <1>4
  <2> QED
    BY <1>3, <1>4, <2>1 DEF GetInt, t
<1>5. CASE ~(p + 1 <= k)
  BY <1>3, <1>5 DEF GetInt, t
<1> QED
  BY <1>4, <1>5

\* GetPhone on a line that is cut off after k digits.
CutGoes(s, k, p, isSMSC) ==
    LET cut == GetPhone(SubSeq(s, 1, k), p, isSMSC)
        g == GetInt(s, p)
        size == AddressSize(s, p, isSMSC)
        end == AddressEnd(s, p, isSMSC)
        class == AddressClass(s, p)
    IN  /\ k <= p => cut = Beyond
        /\ k > p /\ g = 0 => cut.ok /\ cut.next = p + 2
        /\ k > p /\ k < p + 3 /\ g > 0 => cut = NotRead
        /\ k >= p + 3 /\ g > 0 /\ class = 5 => cut.ok /\ cut.next = end
        /\ k >= p + 3 /\ g > 0 /\ class # 5 =>
                IF k - (p + 3) < size + 2 * (size % 2) THEN cut = NotRead ELSE cut.ok /\ cut.next = end

LEMMA CutPhone ==
    ASSUME NEW s \in Seq(Nat), NEW k \in 0..Len(s), NEW p \in Nat, 1 <= p, NEW isSMSC
    PROVE  CutGoes(s, k, p, isSMSC)
<1> DEFINE t == SubSeq(s, 1, k)
           cut == GetPhone(t, p, isSMSC)
           g == GetInt(s, p)
           size == AddressSize(s, p, isSMSC)
           end == AddressEnd(s, p, isSMSC)
           class == AddressClass(s, p)
           short == k - (p + 3) < size + 2 * (size % 2)
<1>0. p + 2 \in Nat /\ 1 <= p + 2 /\ k \in Int /\ (p + 2) + 1 = p + 3
  OBVIOUS
<1>1. /\ t \in Seq(Nat) /\ Len(t) = k
      /\ GetInt(t, p) = IF p + 1 <= k THEN g ELSE -1
      /\ GetInt(t, p + 2) = IF (p + 2) + 1 <= k THEN GetInt(s, p + 2) ELSE -1
  BY <1>0, CutInt
<1> HIDE DEF t
<1>2. PhoneGoes(t, p, isSMSC)
  BY <1>1, PhoneWays
<1>3. /\ GetInt(t, p) = 0 => cut = [ok |-> TRUE, next |-> p + 2, plus |-> FALSE, number |-> <<>>]
      /\ GetInt(t, p) < 0 => cut = Beyond
      /\ GetInt(t, p) > 0 /\ GetInt(t, p + 2) < 0 => cut = NotRead
      /\ GetInt(t, p) > 0 /\ GetInt(t, p + 2) >= 0 /\ AddressClass(t, p) = 5 =>
            cut = [ok |-> TRUE, next |-> AddressEnd(t, p, isSMSC),
                   characters |-> (AddressSize(t, p, isSMSC) * 4) \div 7]
      /\ GetInt(t, p) > 0 /\ GetInt(t, p + 2) >= 0 /\ AddressClass(t, p) # 5 =>
            cut = IF Len(t) - (p + 3) < AddressSize(t, p, isSMSC) + 2 * (AddressSize(t, p, isSMSC) % 2)
                  THEN NotRead
                  ELSE [ok |-> TRUE, next |-> AddressEnd(t, p, isSMSC), plus |-> AddressClass(t, p) = 1,
                        number |-> ReadNumber(t, p + 4, AddressSize(t, p, isSMSC) + (AddressSize(t, p, isSMSC) % 2))]
  BY <1>2 DEF PhoneGoes
<1> SUFFICES /\ k <= p => cut = Beyond
             /\ k > p /\ g = 0 => cut.ok /\ cut.next = p + 2
             /\ k > p /\ k < p + 3 /\ g > 0 => cut = NotRead
             /\ k >= p + 3 /\ g > 0 /\ class = 5 => cut.ok /\ cut.next = end
             /\ k >= p + 3 /\ g > 0 /\ class # 5 => IF short THEN cut = NotRead ELSE cut.ok /\ cut.next = end
  BY DEF CutGoes, t
<1>4. ASSUME k > p PROVE GetInt(t, p) = g
  BY <1>0, <1>1, <1>4
<1>5. ASSUME k <= p PROVE cut = Beyond
  <2>1. GetInt(t, p) = -1
    BY <1>0, <1>1, <1>5
  <2> QED
    BY <1>3, <2>1
<1>6. ASSUME k > p, g = 0 PROVE cut.ok /\ cut.next = p + 2
  <2>1. cut = [ok |-> TRUE, next |-> p + 2, plus |-> FALSE, number |-> <<>>]
    BY <1>3, <1>4, <1>6
  <2> HIDE DEF cut
  <2> QED
    BY <2>1
<1>7. ASSUME k > p, k < p + 3, g > 0 PROVE cut = NotRead
  <2>1. GetInt(t, p + 2) = -1
    BY <1>0, <1>1, <1>7
  <2> QED
    BY <1>3, <1>4, <1>7, <2>1
<1>8. ASSUME k >= p + 3, g > 0
      PROVE  /\ GetInt(t, p) > 0 /\ GetInt(t, p + 2) >= 0
             /\ AddressClass(t, p) = class /\ AddressSize(t, p, isSMSC) = size
             /\ AddressEnd(t, p, isSMSC) = end
  <2>1. k > p /\ (p + 2) + 1 <= k /\ (p + 2) + 1 <= Len(s)
    BY <1>0, <1>8
  <2>2. GetInt(t, p) = g /\ GetInt(t, p + 2) = GetInt(s, p + 2)
    BY <1>1, <1>4, <2>1
  <2>3. GetInt(s, p + 2) >= 0
    BY <1>0, <2>1, IntAt
  <2>4. AddressClass(t, p) = class
    BY <2>2 DEF AddressClass
  <2>5. AddressSize(t, p, isSMSC) = size
    BY <2>2 DEF AddressSize
  <2>6. AddressEnd(t, p, isSMSC) = end
    BY <2>5 DEF AddressEnd
  <2> HIDE DEF class, size, end, g
  <2> QED
    BY <1>8, <2>2, <2>3, <2>4, <2>5, <2>6
<1> HIDE DEF cut, g, class, size, end
<1>9. ASSUME k >= p + 3, g > 0, class = 5 PROVE cut.ok /\ cut.next = end
  <2>1. GetInt(t, p) > 0 /\ GetInt(t, p + 2) >= 0 /\ AddressClass(t, p) = 5 /\ AddressEnd(t, p, isSMSC) = end
    BY <1>8, <1>9
  <2>2. cut = [ok |-> TRUE, next |-> AddressEnd(t, p, isSMSC),
               characters |-> (AddressSize(t, p, isSMSC) * 4) \div 7]
    BY <1>3, <2>1
  <2> QED
    BY <2>1, <2>2
<1>10. ASSUME k >= p + 3, g > 0, class # 5 PROVE IF short THEN cut = NotRead ELSE cut.ok /\ cut.next = end
  <2>1. /\ GetInt(t, p) > 0 /\ GetInt(t, p + 2) >= 0 /\ AddressClass(t, p) # 5
        /\ AddressEnd(t, p, isSMSC) = end /\ AddressSize(t, p, isSMSC) = size
    BY <1>8, <1>10
  <2> DEFINE read == [ok |-> TRUE, next |-> end, plus |-> AddressClass(t, p) = 1,
                      number |-> ReadNumber(t, p + 4, size + (size % 2))]
  <2>2. cut = IF short THEN NotRead ELSE read
    BY <1>1, <1>3, <2>1, Zenon
  <2>3. read.ok /\ read.next = end
    OBVIOUS
  <2> HIDE DEF short, read
  <2> QED
    BY <2>2, <2>3
<1> QED
  BY <1>5, <1>6, <1>7, <1>9, <1>10

\* ProcessRecvPDU's ways out before the user data.
EnvelopeLeft(s, p, l) ==
    LET e == ReadEnvelope(s)
        smsc == GetPhone(s, 1, TRUE)
        from == GetPhone(s, l + 2, FALSE)
    IN  /\ ~smsc.ok => e = smsc
        /\ smsc.ok /\ smsc.next = l =>
            /\ Unowned(s, l) => e = Beyond
            /\ ~Unowned(s, l) /\ GetInt(s, l) < 0 => e = NotRead
            /\ ~Unowned(s, l) /\ ~(GetInt(s, l) < 0) =>
                /\ ~from.ok => e = from
                /\ from.ok /\ from.next = p =>
                    /\ Unowned(s, p) => e = Beyond
                    /\ ~Unowned(s, p) /\ GetInt(s, p + 18) < 0 => e = NotRead

LEMMA EnvelopeWays ==
    ASSUME NEW s, NEW p, NEW l
    PROVE  EnvelopeLeft(s, p, l)
<1> DEFINE e == ReadEnvelope(s)
           smsc == GetPhone(s, 1, TRUE)
           from == GetPhone(s, smsc.next + 2, FALSE)
           q == from.next
           Read == [ok |-> TRUE, smsc |-> smsc, deliver |-> GetInt(s, smsc.next), from |-> from,
                    dcs |-> GetInt(s, q + 2), time |-> GetTimeStamp(s, q + 4),
                    udl |-> GetInt(s, q + 18), userData |-> q + 20]
           early == GetInt(s, q) < 0 \/ GetInt(s, q + 2) < 0 \/ Len(s) - (q + 3) < 14
<1>1. e = IF ~smsc.ok THEN smsc
          ELSE IF Unowned(s, smsc.next) THEN Beyond
          ELSE IF GetInt(s, smsc.next) < 0 THEN NotRead
          ELSE IF ~from.ok THEN from
          ELSE IF Unowned(s, q) THEN Beyond
          ELSE IF early THEN NotRead
          ELSE IF GetInt(s, q + 18) < 0 THEN NotRead
          ELSE Read
  BY Zenon DEF ReadEnvelope
<1>2. ~smsc.ok => e = smsc
  BY <1>1, Zenon
<1>3. ASSUME smsc.ok, smsc.next = l
      PROVE  /\ Unowned(s, l) => e = Beyond
             /\ ~Unowned(s, l) /\ GetInt(s, l) < 0 => e = NotRead
             /\ ~Unowned(s, l) /\ ~(GetInt(s, l) < 0) =>
                 /\ ~GetPhone(s, l + 2, FALSE).ok => e = GetPhone(s, l + 2, FALSE)
                 /\ GetPhone(s, l + 2, FALSE).ok /\ GetPhone(s, l + 2, FALSE).next = p =>
                     /\ Unowned(s, p) => e = Beyond
                     /\ ~Unowned(s, p) /\ GetInt(s, p + 18) < 0 => e = NotRead
  <2>1. from = GetPhone(s, l + 2, FALSE)
    BY <1>3
  <2> HIDE DEF e, early, Read, smsc, from
  <2>2. Unowned(s, l) => e = Beyond
    BY <1>1, <1>3, Zenon
  <2>3. ~Unowned(s, l) /\ GetInt(s, l) < 0 => e = NotRead
    BY <1>1, <1>3, Zenon
  <2>4. ASSUME ~Unowned(s, l), ~(GetInt(s, l) < 0)
        PROVE  e = IF ~from.ok THEN from
                   ELSE IF Unowned(s, q) THEN Beyond
                   ELSE IF early THEN NotRead
                   ELSE IF GetInt(s, q + 18) < 0 THEN NotRead
                   ELSE Read
    BY <1>1, <1>3, <2>4, Zenon
  <2>5. ASSUME ~Unowned(s, l), ~(GetInt(s, l) < 0), ~from.ok
        PROVE  e = from
    BY <2>4, <2>5, Zenon
  <2>6. ASSUME ~Unowned(s, l), ~(GetInt(s, l) < 0), from.ok, from.next = p
        PROVE  /\ Unowned(s, p) => e = Beyond
               /\ ~Unowned(s, p) /\ GetInt(s, p + 18) < 0 => e = NotRead
    <3>1. e = IF Unowned(s, p) THEN Beyond
              ELSE IF early THEN NotRead
              ELSE IF GetInt(s, p + 18) < 0 THEN NotRead
              ELSE Read
      BY <2>4, <2>6, Zenon
    <3> QED
      BY <3>1, Zenon
  <2> QED
    BY <2>1, <2>2, <2>3, <2>5, <2>6, Zenon
<1> QED
  BY <1>2, <1>3, Zenon DEF EnvelopeLeft

\* The address of the center takes the first l digits.
CenterEnds(s, l) ==
    \/ GetInt(s, 1) = 0 /\ l = 2
    \/ GetInt(s, 1) > 0 /\ AddressClass(s, 1) # 5 /\ AddressEnd(s, 1, TRUE) = l + 1

\* That of the sender, at q, ends before next.
SenderEnds(s, q, next) == GetInt(s, q) > 0 /\ AddressEnd(s, q, FALSE) = next

\* The center's number of a line that is cut off.
LEMMA CutCenter ==
    ASSUME NEW s \in Seq(Nat), NEW k \in 0..Len(s), 2 <= k, NEW l \in Nat, CenterEnds(s, l)
    PROVE  LET cut == GetPhone(SubSeq(s, 1, k), 1, TRUE)
           IN  IF k < l THEN cut = NotRead ELSE cut.ok /\ cut.next = l + 1
<1> DEFINE cut == GetPhone(SubSeq(s, 1, k), 1, TRUE)
           g == GetInt(s, 1)
           size == AddressSize(s, 1, TRUE)
           end == AddressEnd(s, 1, TRUE)
           class == AddressClass(s, 1)
<1> SUFFICES IF k < l THEN cut = NotRead ELSE cut.ok /\ cut.next = l + 1
  OBVIOUS
<1>1. 1 \in Nat /\ 1 <= 1 /\ k \in Int
  OBVIOUS
<1>2. CutGoes(s, k, 1, TRUE)
  BY <1>1, CutPhone
<1>3. /\ k > 1 /\ g = 0 => cut.ok /\ cut.next = 1 + 2
      /\ k > 1 /\ k < 1 + 3 /\ g > 0 => cut = NotRead
      /\ k >= 1 + 3 /\ g > 0 /\ class # 5 =>
            IF k - (1 + 3) < size + 2 * (size % 2) THEN cut = NotRead ELSE cut.ok /\ cut.next = end
  BY <1>2 DEF CutGoes
<1>4. g \in Int
  BY <1>1, IntAt
<1>5. size = (g - 1) * 2 /\ end = 1 + 4 + size + (size % 2)
  BY DEF AddressSize, AddressEnd
<1>6. (g = 0 /\ l = 2) \/ (g > 0 /\ class # 5 /\ end = l + 1)
  BY DEF CenterEnds
<1> HIDE DEF cut, g, size, end, class
<1>7. CASE g = 0 /\ l = 2
  BY <1>1, <1>3, <1>7
<1>8. CASE g > 0 /\ class # 5 /\ end = l + 1
  <2>1. size \in Nat /\ size % 2 = 0
    BY <1>4, <1>5, <1>8
  <2>2. l = 4 + size
    BY <1>5, <1>8, <2>1
  <2>3. CASE k < 4
    BY <1>1, <1>3, <1>8, <2>1, <2>2, <2>3
  <2>4. CASE k >= 4
    BY <1>1, <1>3, <1>8, <2>1, <2>2, <2>4
  <2> QED
    BY <1>1, <2>3, <2>4
<1> QED
  BY <1>6, <1>7, <1>8

\* That of the sender: where its first octet is missing memory behind the line is read, and
\* a name's end is not looked at.
LEMMA CutSender ==
    ASSUME NEW s \in Seq(Nat), NEW k \in 0..Len(s), NEW q \in Nat, 1 <= q, NEW next \in Nat,
           SenderEnds(s, q, next)
    PROVE  LET cut == GetPhone(SubSeq(s, 1, k), q, FALSE)
           IN  /\ k <= q => cut = Beyond
               /\ k > q /\ k < q + 3 => cut = NotRead
               /\ k >= q + 3 /\ AddressClass(s, q) = 5 => cut.ok /\ cut.next = next
               /\ k >= q + 3 /\ AddressClass(s, q) # 5 =>
                    cut = NotRead \/ (cut.ok /\ cut.next = next /\ next <= k + 1)
<1> DEFINE cut == GetPhone(SubSeq(s, 1, k), q, FALSE)
           g == GetInt(s, q)
           size == AddressSize(s, q, FALSE)
           end == AddressEnd(s, q, FALSE)
           class == AddressClass(s, q)
<1>1. CutGoes(s, k, q, FALSE)
  BY CutPhone
<1>2. /\ k <= q => cut = Beyond
      /\ k > q /\ k < q + 3 /\ g > 0 => cut = NotRead
      /\ k >= q + 3 /\ g > 0 /\ class = 5 => cut.ok /\ cut.next = end
      /\ k >= q + 3 /\ g > 0 /\ class # 5 =>
            IF k - (q + 3) < size + 2 * (size % 2) THEN cut = NotRead ELSE cut.ok /\ cut.next = end
  BY <1>1 DEF CutGoes
<1>3. g > 0 /\ end = next
  BY DEF SenderEnds
<1>4. g \in Int /\ k \in Int
  BY IntAt
<1>5. size = g /\ end = q + 4 + size + (size % 2)
  BY DEF AddressSize, AddressEnd
<1> SUFFICES /\ k <= q => cut = Beyond
             /\ k > q /\ k < q + 3 => cut = NotRead
             /\ k >= q + 3 /\ class = 5 => cut.ok /\ cut.next = next
             /\ k >= q + 3 /\ class # 5 =>
                    cut = NotRead \/ (cut.ok /\ cut.next = next /\ next <= k + 1)
  OBVIOUS
<1> HIDE DEF cut, g, size, end, class
<1>6. ASSUME ~(k - (q + 3) < size + 2 * (size % 2)) PROVE next <= k + 1
  <2> DEFINE r == size % 2
  <2>1. r \in {0, 1}
    BY <1>3, <1>4, <1>5
  <2> HIDE DEF r
  <2>2. ~(k - (q + 3) < size + 2 * r) /\ next = q + 4 + size + r
    BY <1>3, <1>5, <1>6 DEF r
  <2>3. size \in Int
    BY <1>4, <1>5
  <2>4. CASE r = 0
    <3>1. ~(k - (q + 3) < size) /\ next = q + 4 + size
      BY <2>2, <2>3, <2>4
    <3> QED
      BY <1>4, <2>3, <3>1
  <2>5. CASE r = 1
    <3>1. ~(k - (q + 3) < size + 2) /\ next = q + 4 + size + 1
      BY <2>2, <2>3, <2>5
    <3> QED
      BY <1>4, <2>3, <3>1
  <2> QED
    BY <2>1, <2>4, <2>5
<1> QED
  BY <1>2, <1>3, <1>6

\* Which ends of a line, after k digits, make the code read what lies behind it, when the
\* sender's address begins after c digits and has f.
Untested(k, c, f, name) ==
    k \in {0, 1} \/ k - c \in {0, 1} \/ (name /\ k - c \in 4..(f - 1))

CutIs(s, l, f, k) ==
    ReadEnvelope(SubSeq(s, 1, k)) =
        IF Untested(k, l + 2, f, AddressClass(s, l + 3) = 5) THEN Beyond ELSE NotRead

\* An envelope that is cut off.
LEMMA CutEnvelope ==
    ASSUME NEW s \in Seq(Nat), NEW l \in Nat, NEW f \in Nat, NEW k \in 0..(l + 2 + f + 19),
           l + 2 + f + 19 <= Len(s), CenterEnds(s, l), GetInt(s, l + 1) = 4,
           SenderEnds(s, l + 3, l + 3 + f)
    PROVE  CutIs(s, l, f, k)
<1> DEFINE t == SubSeq(s, 1, k)
           e == ReadEnvelope(t)
           center == GetPhone(t, 1, TRUE)
           sender == GetPhone(t, (l + 1) + 2, FALSE)
           p == l + 3 + f
           name == AddressClass(s, l + 3) = 5
           untested == Untested(k, l + 2, f, name)
<1>1. k \in 0..Len(s) /\ k \in Nat
  OBVIOUS
<1>2. /\ 1 \in Nat /\ 1 <= 1 /\ l + 1 \in Nat /\ 1 <= l + 1 /\ l + 3 \in Nat /\ 1 <= l + 3
      /\ p \in Nat /\ p + 18 \in Nat /\ 1 <= p + 18 /\ (l + 1) + 2 = l + 3 /\ p + 18 = l + 2 + f + 19
  OBVIOUS
<1>3. /\ Len(t) = k
      /\ GetInt(t, l + 1) = IF (l + 1) + 1 <= k THEN GetInt(s, l + 1) ELSE -1
      /\ GetInt(t, p + 18) = IF (p + 18) + 1 <= k THEN GetInt(s, p + 18) ELSE -1
  BY <1>1, <1>2, CutInt
<1>4. (untested => e = Beyond) /\ (~untested => e = NotRead)
  <2>1. EnvelopeLeft(t, p, l + 1)
    BY EnvelopeWays
  <2>2. /\ ~center.ok => e = center
        /\ center.ok /\ center.next = l + 1 =>
            /\ Unowned(t, l + 1) => e = Beyond
            /\ ~Unowned(t, l + 1) /\ GetInt(t, l + 1) < 0 => e = NotRead
            /\ ~Unowned(t, l + 1) /\ ~(GetInt(t, l + 1) < 0) =>
                /\ ~sender.ok => e = sender
                /\ sender.ok /\ sender.next = p =>
                    /\ Unowned(t, p) => e = Beyond
                    /\ ~Unowned(t, p) /\ GetInt(t, p + 18) < 0 => e = NotRead
    BY <2>1, Zenon DEF EnvelopeLeft
  <2>3. ~Beyond.ok /\ ~NotRead.ok
    BY DEF Beyond, NotRead
  <2>4. k <= 1 => center = Beyond
    <3>1. CutGoes(s, k, 1, TRUE)
      BY <1>1, <1>2, CutPhone
    <3> QED
      BY <3>1 DEF CutGoes
  <2>5. k >= 2 => IF k < l THEN center = NotRead ELSE center.ok /\ center.next = l + 1
    BY <1>1, CutCenter
  <2>6. /\ k <= l + 3 => sender = Beyond
        /\ k > l + 3 /\ k < l + 3 + 3 => sender = NotRead
        /\ k >= l + 3 + 3 /\ name => sender.ok /\ sender.next = p
        /\ k >= l + 3 + 3 /\ ~name => sender = NotRead \/ (sender.ok /\ sender.next = p /\ p <= k + 1)
    <3> DEFINE q == l + 3
    <3>1. q \in Nat /\ 1 <= q /\ SenderEnds(s, q, p) /\ sender = GetPhone(t, q, FALSE)
      BY <1>2
    <3>2. name <=> AddressClass(s, q) = 5
      OBVIOUS
    <3> HIDE DEF q, p, sender, name
    <3>3. /\ k <= q => GetPhone(t, q, FALSE) = Beyond
          /\ k > q /\ k < q + 3 => GetPhone(t, q, FALSE) = NotRead
          /\ k >= q + 3 /\ AddressClass(s, q) = 5 => GetPhone(t, q, FALSE).ok /\ GetPhone(t, q, FALSE).next = p
          /\ k >= q + 3 /\ AddressClass(s, q) # 5 =>
                GetPhone(t, q, FALSE) = NotRead
                \/ (GetPhone(t, q, FALSE).ok /\ GetPhone(t, q, FALSE).next = p /\ p <= k + 1)
      BY <1>1, <1>2, <3>1, CutSender
    <3>4. /\ k <= q => sender = Beyond
          /\ k > q /\ k < q + 3 => sender = NotRead
          /\ k >= q + 3 /\ name => sender.ok /\ sender.next = p
          /\ k >= q + 3 /\ ~name => sender = NotRead \/ (sender.ok /\ sender.next = p /\ p <= k + 1)
      BY <3>1, <3>2, <3>3, Zenon
    <3> QED
      BY <3>4 DEF q
  <2>7. /\ Unowned(t, l + 1) <=> l + 1 > k + 1
        /\ Unowned(t, p) <=> p > k + 1
    BY <1>3 DEF Unowned
  <2>8. GetInt(t, p + 18) < 0
    BY <1>1, <1>2, <1>3
  <2>9. (GetInt(t, l + 1) < 0) <=> ~(l + 2 <= k)
    BY <1>1, <1>2, <1>3
  <2>10. untested <=> k \in {0, 1} \/ k - (l + 2) \in {0, 1} \/ (name /\ k - (l + 2) \in 4..(f - 1))
    BY DEF Untested
  <2> DEFINE lost == Unowned(t, l + 1)
             lostp == Unowned(t, p)
             noType == GetInt(t, l + 1) < 0
             noLength == GetInt(t, p + 18) < 0
  <2> HIDE DEF t, e, center, sender, name, untested, lost, lostp, noType, noLength
  <2>11. CASE k <= 1
    <3>1. untested
      BY <1>1, <2>10, <2>11
    <3>2. e = Beyond
      BY <2>2, <2>3, <2>4, <2>11
    <3> QED
      BY <3>1, <3>2
  <2>12. CASE k >= 2 /\ k < l
    <3>1. ~untested
      BY <1>1, <2>10, <2>12
    <3>2. e = NotRead
      BY <2>2, <2>3, <2>5, <2>12
    <3> QED
      BY <3>1, <3>2
  <2>13. CASE k >= 2 /\ k >= l /\ k < l + 2
    <3>1. ~untested
      BY <1>1, <2>10, <2>13
    <3>2. center.ok /\ center.next = l + 1 /\ ~Unowned(t, l + 1) /\ GetInt(t, l + 1) < 0
      BY <1>1, <2>5, <2>7, <2>9, <2>13
    <3>3. e = NotRead
      BY <2>2, <3>2
    <3> QED
      BY <3>1, <3>3
  <2>14. CASE k >= 2 /\ k >= l + 2
    <3>1. center.ok /\ center.next = l + 1 /\ ~Unowned(t, l + 1) /\ ~(GetInt(t, l + 1) < 0)
      BY <1>1, <2>5, <2>7, <2>9, <2>14
    <3>2. /\ ~sender.ok => e = sender
          /\ sender.ok /\ sender.next = p =>
                /\ Unowned(t, p) => e = Beyond
                /\ ~Unowned(t, p) => e = NotRead
      BY <2>2, <2>8, <3>1
    <3>3. CASE k <= l + 3
      <4>1. untested
        BY <1>1, <2>10, <2>14, <3>3
      <4> QED
        BY <2>3, <2>6, <3>2, <3>3, <4>1
    <3>4. CASE k > l + 3 /\ k < l + 6
      <4>1. ~untested
        BY <1>1, <2>10, <2>14, <3>4
      <4>2. sender = NotRead
        BY <1>1, <2>6, <3>4
      <4> QED
        BY <2>3, <3>2, <4>1, <4>2
    <3>5. CASE k >= l + 6 /\ name
      <4>1. sender.ok /\ sender.next = p
        BY <1>1, <2>6, <3>5
      <4>2. untested <=> p > k + 1
        BY <1>1, <2>10, <2>14, <3>5
      <4> QED
        BY <2>7, <3>2, <4>1, <4>2
    <3>6. CASE k >= l + 6 /\ ~name
      <4>1. ~untested
        BY <1>1, <2>10, <2>14, <3>6
      <4>2. sender = NotRead \/ (sender.ok /\ sender.next = p /\ p <= k + 1)
        BY <1>1, <2>6, <3>6
      <4>3. CASE sender = NotRead
        BY <2>3, <3>2, <4>1, <4>3
      <4>4. CASE sender.ok /\ sender.next = p /\ p <= k + 1
        <5>1. ~Unowned(t, p)
          BY <1>1, <1>2, <2>7, <4>4
        <5> QED
          BY <3>2, <4>1, <4>4, <5>1
      <4> QED
        BY <4>2, <4>3, <4>4
    <3> QED
      BY <1>1, <3>3, <3>4, <3>5, <3>6
  <2> QED
    BY <1>1, <2>11, <2>12, <2>13, <2>14
<1> HIDE DEF e, untested
<1>5. e = IF untested THEN Beyond ELSE NotRead
  BY <1>4, Zenon
<1> QED
  BY <1>5, Zenon DEF e, t, untested, name, CutIs

LEMMA LiesParts ==
    ASSUME NEW a \in Seq(Nat), NEW b \in Seq(Nat), NEW s \in Seq(Nat), NEW p \in Nat, LiesAt(s, p, a \o b)
    PROVE  LiesAt(s, p, a) /\ LiesAt(s, p + Len(a), b)
<1> DEFINE c == a \o b
           x == Len(a)
           y == Len(b)
           l == Len(s)
<1>1. x \in Nat /\ y \in Nat /\ l \in Nat
  OBVIOUS
<1>2. Len(c) = x + y /\ \A i \in 1..(x + y) : c[i] = IF i <= x THEN a[i] ELSE b[i - x]
  BY ConcatProperties
<1>3. p + Len(c) <= l /\ \A i \in 1..Len(c) : s[p + i] = c[i]
  BY DEF LiesAt
<1> HIDE DEF c
<1>4. LiesAt(s, p, a)
  <2> SUFFICES p + x <= l /\ \A i \in 1..x : s[p + i] = a[i]
    BY DEF LiesAt
  <2> HIDE DEF x, y, l
  <2>1. p + x <= l
    BY <1>1, <1>2, <1>3
  <2>2. \A i \in 1..x : i \in 1..(x + y) /\ i <= x
    BY <1>1
  <2>3. \A i \in 1..x : s[p + i] = a[i]
    BY <1>2, <1>3, <2>2
  <2> QED
    BY <2>1, <2>3
<1>5. LiesAt(s, p + x, b)
  <2> SUFFICES (p + x) + y <= l /\ \A i \in 1..y : s[(p + x) + i] = b[i]
    BY DEF LiesAt
  <2> HIDE DEF x, y, l
  <2>1. (p + x) + y <= l
    BY <1>1, <1>2, <1>3
  <2>2. \A i \in 1..y : x + i \in 1..(x + y) /\ ~(x + i <= x) /\ (x + i) - x = i /\ (p + x) + i = p + (x + i)
    BY <1>1
  <2>3. \A i \in 1..y : s[(p + x) + i] = b[i]
    <3> TAKE i \in 1..y
    <3> DEFINE j == x + i
    <3>1. j \in 1..(x + y) /\ ~(j <= x) /\ j - x = i /\ (p + x) + i = p + j
      BY <2>2
    <3> HIDE DEF j
    <3>2. s[p + j] = c[j] /\ c[j] = b[j - x]
      BY <1>2, <1>3, <3>1
    <3> QED
      BY <3>1, <3>2
  <2> QED
    BY <2>1, <2>3
<1> QED
  BY <1>4, <1>5 DEF x

Address(x, type, rest) == Digits(x) \o Digits(type) \o rest

\* An address of two octets and more.
LEMMA AddressLies ==
    ASSUME NEW x \in Nat, NEW type \in Nat, NEW rest \in Seq(Nat), NEW s \in Seq(Nat), NEW p \in Nat,
           LiesAt(s, p, Address(x, type, rest))
    PROVE  GetInt(s, p + 1) = x /\ GetInt(s, p + 1 + 2) = type /\ LiesAt(s, p + 4, rest)
<1> DEFINE a == Digits(x)
           b == Digits(type)
           c == a \o b
<1>1. a \in Seq(Nat) /\ Len(a) = 2 /\ b \in Seq(Nat) /\ Len(b) = 2
  BY OctetIs
<1>2. LiesAt(s, p, c \o rest)
  BY DEF Address
<1> HIDE DEF a, b
<1>3. c \in Seq(Nat) /\ Len(c) = 4
  <2>1. c \in Seq(Nat) /\ Len(c) = Len(a) + Len(b)
    BY <1>1, AtGrows
  <2> QED
    BY <1>1, <2>1
<1>4. LiesAt(s, p, c) /\ LiesAt(s, p + 4, rest)
  <2> HIDE DEF c
  <2> QED
    BY <1>2, <1>3, LiesParts
<1>5. LiesAt(s, p, a) /\ LiesAt(s, p + 2, b)
  BY <1>1, <1>4, LiesParts
<1>6. GetInt(s, p + 1) = x
  BY <1>5, OctetAt DEF a
<1>7. GetInt(s, (p + 2) + 1) = type
  <2>1. p + 2 \in Nat
    OBVIOUS
  <2> QED
    BY <1>5, <2>1, OctetAt DEF b
<1>8. (p + 2) + 1 = p + 1 + 2
  OBVIOUS
<1> QED
  BY <1>4, <1>6, <1>7, <1>8

LEMMA AddressSeq ==
    ASSUME NEW x \in Nat, NEW type \in Nat, NEW rest \in Seq(Nat)
    PROVE  Address(x, type, rest) \in Seq(Nat) /\ Len(Address(x, type, rest)) = 4 + Len(rest)
<1> DEFINE a == Digits(x)
           b == Digits(type)
           c == a \o b
<1>1. a \in Seq(Nat) /\ Len(a) = 2 /\ b \in Seq(Nat) /\ Len(b) = 2
  BY OctetIs
<1> HIDE DEF a, b
<1>2. c \in Seq(Nat) /\ Len(c) = 4
  <2>1. c \in Seq(Nat) /\ Len(c) = Len(a) + Len(b)
    BY <1>1, AtGrows
  <2> QED
    BY <1>1, <2>1
<1> HIDE DEF c
<1>3. c \o rest \in Seq(Nat) /\ Len(c \o rest) = Len(c) + Len(rest)
  BY <1>2, AtGrows
<1> QED
  BY <1>2, <1>3 DEF a, b, c, Address

IsReadThere(number, type, s, p) ==
    /\ GetPhone(s, p + 1, FALSE) =
         [ok |-> TRUE, next |-> p + 1 + Len(StandardNumber(number, type)), plus |-> type = 145, number |-> number]
    /\ SenderEnds(s, p + 1, p + 1 + Len(StandardNumber(number, type))) /\ AddressClass(s, p + 1) # 5

\* The sender's number is read, if a digit follows.
LEMMA NumberPhone ==
    ASSUME NEW number \in Seq(0..9), number # <<>>, NEW type \in {129, 145}, NEW s \in Seq(Nat), NEW p \in Nat,
           LiesAt(s, p, StandardNumber(number, type)), p + Len(StandardNumber(number, type)) + 1 <= Len(s)
    PROVE  IsReadThere(number, type, s, p)
<1> DEFINE n == Len(number)
           size == Evened(n)
           e == EncodeHexDec(number)
           q == p + 1
           next == p + 1 + Len(StandardNumber(number, type))
<1>1. n \in Nat /\ n # 0 /\ n > 0
  <2>1. n \in Nat /\ n # 0
    BY EmptySeq
  <2> HIDE DEF n
  <2> QED
    BY <2>1
<1>2. e \in Seq(Nat) /\ Len(e) = size
  BY Encoded
<1>3. StandardNumber(number, type) = Address(n, type, e)
  BY DEF StandardNumber, Address
<1>4. type \in Nat /\ (type = 129 => (type \div 16) % 8 = 0) /\ (type = 145 => (type \div 16) % 8 = 1)
  OBVIOUS
<1> HIDE DEF n, e
<1>5. Len(StandardNumber(number, type)) = 4 + size
  <2>1. Len(Address(n, type, e)) = 4 + Len(e)
    <3>1. n \in Nat /\ type \in Nat /\ e \in Seq(Nat)
      BY <1>1, <1>2, <1>4
    <3> QED
      BY <3>1, AddressSeq
  <2> QED
    BY <1>2, <1>3, <2>1
<1>6. GetInt(s, q) = n /\ GetInt(s, q + 2) = type /\ LiesAt(s, p + 4, e)
  <2>1. LiesAt(s, p, Address(n, type, e))
    BY <1>3
  <2> QED
    BY <1>1, <1>2, <1>4, <2>1, AddressLies
<1>7. ReadNumber(s, p + 4 + 1, size) = number
  <2>1. p + 4 \in Nat
    OBVIOUS
  <2> QED
    BY <1>6, <2>1, NumberRead DEF e, n
<1>8. p + 4 + 1 = q + 4 /\ size = n + (n % 2)
  BY DEF Evened
<1>9. /\ AddressSize(s, q, FALSE) = n /\ AddressClass(s, q) = (type \div 16) % 8 /\ AddressEnd(s, q, FALSE) = next
      /\ ~(Len(s) - (q + 3) < n + 2 * (n % 2))
  <2>1. AddressSize(s, q, FALSE) = n
    BY <1>6 DEF AddressSize
  <2>2. AddressClass(s, q) = (type \div 16) % 8
    BY <1>6 DEF AddressClass
  <2>3. AddressEnd(s, q, FALSE) = q + 4 + n + (n % 2)
    BY <2>1 DEF AddressEnd
  <2>4. q + 4 + n + (n % 2) = p + 1 + (4 + size)
    BY <1>1, <1>8
  <2>5. next = p + 1 + (4 + size) /\ p + (4 + size) + 1 <= Len(s)
    BY <1>5
  <2>6. ~(Len(s) - (q + 3) < n + 2 * (n % 2))
    <3> DEFINE l == Len(s)
    <3>1. l \in Nat /\ p + (4 + (n + (n % 2))) + 1 <= l
      BY <1>8, <2>5
    <3> HIDE DEF l
    <3>2. n % 2 \in {0, 1}
      BY <1>1
    <3> DEFINE r == n % 2
    <3> HIDE DEF r
    <3>3. r \in {0, 1} /\ p + (4 + (n + r)) + 1 <= l
      BY <3>1, <3>2 DEF r
    <3>4. ~(l - (q + 3) < n + 2 * r)
      BY <1>1, <3>1, <3>3
    <3> QED
      BY <3>4 DEF l, r
  <2> HIDE DEF next, size
  <2> QED
    BY <2>1, <2>2, <2>3, <2>4, <2>5, <2>6
<1> HIDE DEF next, q, size
<1>10. (type = 145) = (AddressClass(s, q) = 1) /\ AddressClass(s, q) # 5
  <2> DEFINE class == AddressClass(s, q)
  <2>1. (type = 129 => class = 0) /\ (type = 145 => class = 1) /\ type \in {129, 145}
    BY <1>4, <1>9
  <2> HIDE DEF class
  <2>2. (type = 145 <=> class = 1) /\ class # 5
    BY <2>1
  <2> QED
    BY <2>2, Zenon DEF class
<1>11. GetPhone(s, q, FALSE) =
        IF Len(s) - (q + 3) < n + 2 * (n % 2) THEN NotRead
        ELSE [ok |-> TRUE, next |-> next, plus |-> AddressClass(s, q) = 1,
              number |-> ReadNumber(s, q + 4, n + (n % 2))]
  <2>1. n \in Int /\ type \in Int /\ type >= 0
    BY <1>1, <1>4
  <2>2. GetPhone(s, q, FALSE) =
            IF Len(s) - (q + 3) < AddressSize(s, q, FALSE) + 2 * (AddressSize(s, q, FALSE) % 2) THEN NotRead
            ELSE [ok |-> TRUE, next |-> AddressEnd(s, q, FALSE), plus |-> AddressClass(s, q) = 1,
                  number |-> ReadNumber(s, q + 4, AddressSize(s, q, FALSE) + (AddressSize(s, q, FALSE) % 2))]
    <3>1. GetInt(s, q) \in Int /\ GetInt(s, q + 2) \in Int /\ GetInt(s, q) > 0 /\ GetInt(s, q + 2) >= 0
      BY <1>1, <1>6, <2>1
    <3>2. PhoneGoes(s, q, FALSE)
      <4>1. q \in Nat /\ 1 <= q
        BY DEF q
      <4> QED
        BY <4>1, PhoneWays
    <3> QED
      BY <1>10, <3>1, <3>2 DEF PhoneGoes
  <2> QED
    BY <1>9, <2>2, Zenon
<1>12. GetPhone(s, q, FALSE) =
        [ok |-> TRUE, next |-> next, plus |-> AddressClass(s, q) = 1, number |-> ReadNumber(s, q + 4, n + (n % 2))]
  BY <1>9, <1>11, Zenon
<1>13. ReadNumber(s, q + 4, n + (n % 2)) = number
  BY <1>7, <1>8
<1> QED
  <2>1. GetPhone(s, q, FALSE) = [ok |-> TRUE, next |-> next, plus |-> type = 145, number |-> number]
    BY <1>10, <1>12, <1>13, Zenon
  <2>2. SenderEnds(s, q, next)
    BY <1>1, <1>6, <1>9 DEF SenderEnds
  <2> QED
    BY <1>10, <2>1, <2>2, Zenon DEF next, q, IsReadThere

CenterThere(number, s, p) ==
    LET address == GetPhone(s, p + 1, TRUE)
    IN  /\ address.ok /\ address.number = number
        /\ address.next = p + 1 + Len(StandardSmsc(number))
        /\ \/ GetInt(s, p + 1) = 0 /\ Len(StandardSmsc(number)) = 2
           \/ /\ GetInt(s, p + 1) > 0 /\ AddressClass(s, p + 1) # 5
              /\ AddressEnd(s, p + 1, TRUE) = p + 1 + Len(StandardSmsc(number))

\* The center's number is read, and that there is none.
LEMMA SmscPhone ==
    ASSUME NEW number \in Seq(0..9), NEW s \in Seq(Nat), NEW p \in Nat, LiesAt(s, p, StandardSmsc(number))
    PROVE  CenterThere(number, s, p)
<1> DEFINE n == Len(number)
           size == Evened(n)
           e == EncodeHexDec(number)
           q == p + 1
           next == p + 1 + Len(StandardSmsc(number))
           address == GetPhone(s, q, TRUE)
           short == Len(StandardSmsc(number)) = 2
<1> SUFFICES /\ address.ok /\ address.number = number /\ address.next = next
             /\ \/ GetInt(s, q) = 0 /\ short
                \/ GetInt(s, q) > 0 /\ AddressClass(s, q) # 5 /\ AddressEnd(s, q, TRUE) = next
  BY DEF CenterThere
<1>1. q \in Nat /\ 1 <= q /\ q + 2 \in Nat /\ 1 <= q + 2
  OBVIOUS
<1>2. GetInt(s, q) \in Int /\ GetInt(s, q + 2) \in Int
  <2> HIDE DEF q
  <2> QED
    BY <1>1, IntAt
<1>3. PhoneGoes(s, q, TRUE)
  <2> HIDE DEF q
  <2> QED
    BY <1>1, PhoneWays
<1>4. CASE number = <<>>
  <2>1. StandardSmsc(number) = Digits(0)
    BY <1>4 DEF StandardSmsc
  <2>2. LiesAt(s, p, Digits(0)) /\ Len(Digits(0)) = 2
    BY <2>1, OctetIs
  <2>3. GetInt(s, q) = 0
    BY <2>2, OctetAt
  <2>4. next = q + 2
    BY <2>1, <2>2
  <2>6. short
    BY <2>1, <2>2
  <2> HIDE DEF next, q, address, short
  <2>5. address = [ok |-> TRUE, next |-> q + 2, plus |-> FALSE, number |-> <<>>]
    BY <1>3, <2>3 DEF PhoneGoes, address
  <2> QED
    BY <1>4, <2>3, <2>4, <2>5, <2>6
<1>5. CASE number # <<>>
  <2> DEFINE x == 1 + ((n + 1) \div 2)
  <2>1. n \in Nat /\ n > 0
    <3>1. n \in Nat /\ n # 0
      BY <1>5, EmptySeq
    <3> HIDE DEF n
    <3> QED
      BY <3>1
  <2>2. e \in Seq(Nat) /\ Len(e) = size
    BY Encoded
  <2>3. StandardSmsc(number) = Address(x, 145, e)
    BY <1>5 DEF StandardSmsc, Address
  <2> HIDE DEF n, e
  <2>4. x \in Nat /\ x > 0 /\ (x - 1) * 2 = size /\ size \in Nat /\ size % 2 = 0 /\ size + (size % 2) = size
    <3>1. size = n + (n % 2)
      BY DEF Evened
    <3>2. ((n + 1) \div 2) \in Nat /\ ((n + 1) \div 2) * 2 = n + (n % 2) /\ (n + (n % 2)) % 2 = 0 /\ n + (n % 2) \in Nat
      BY <2>1
    <3> HIDE DEF size
    <3>3. x \in Nat /\ x > 0 /\ (x - 1) * 2 = ((n + 1) \div 2) * 2
      BY <3>2
    <3> HIDE DEF x
    <3> QED
      BY <3>1, <3>2, <3>3
  <2> HIDE DEF x
  <2>5. Len(StandardSmsc(number)) = 4 + size
    <3>1. Len(Address(x, 145, e)) = 4 + Len(e)
      <4>1. x \in Nat /\ 145 \in Nat /\ e \in Seq(Nat)
        BY <2>2, <2>4
      <4> QED
        BY <4>1, AddressSeq
    <3> QED
      BY <2>2, <2>3, <3>1
  <2>6. GetInt(s, q) = x /\ GetInt(s, q + 2) = 145 /\ LiesAt(s, p + 4, e)
    <3>1. LiesAt(s, p, Address(x, 145, e)) /\ 145 \in Nat
      BY <2>3
    <3> QED
      BY <2>2, <2>4, <3>1, AddressLies
  <2>7. ReadNumber(s, q + 4, size) = number
    <3>1. p + 4 \in Nat /\ p + 4 + 1 = q + 4
      OBVIOUS
    <3>2. ReadNumber(s, p + 4 + 1, size) = number
      BY <2>6, <3>1, NumberRead DEF e, n
    <3> HIDE DEF q
    <3> QED
      BY <3>1, <3>2
  <2>8. p + (4 + size) <= Len(s)
    BY <2>5 DEF LiesAt
  <2> HIDE DEF size
  <2>9. next = q + 4 + size /\ ~(Len(s) - (q + 3) < size + 2 * 0)
    <3>1. next = p + 1 + (4 + size)
      BY <2>5
    <3> QED
      BY <2>4, <2>8, <3>1
  <2> HIDE DEF q, next, address
  <2>10. AddressSize(s, q, TRUE) = size /\ AddressEnd(s, q, TRUE) = next /\ AddressClass(s, q) = 1
    <3>1. AddressSize(s, q, TRUE) = size
      BY <2>4, <2>6 DEF AddressSize
    <3>2. AddressEnd(s, q, TRUE) = q + 4 + size + 0
      BY <2>4, <3>1 DEF AddressEnd
    <3>3. AddressClass(s, q) = 1
      BY <2>6 DEF AddressClass
    <3>4. q + 4 + size + 0 = next
      BY <1>1, <2>4, <2>9
    <3> QED
      BY <3>1, <3>2, <3>3, <3>4
  <2>11. address = [ok |-> TRUE, next |-> next, plus |-> TRUE, number |-> number]
    <3>1. address = IF Len(s) - (q + 3) < AddressSize(s, q, TRUE) + 2 * (AddressSize(s, q, TRUE) % 2) THEN NotRead
                    ELSE [ok |-> TRUE, next |-> AddressEnd(s, q, TRUE), plus |-> AddressClass(s, q) = 1,
                          number |-> ReadNumber(s, q + 4, AddressSize(s, q, TRUE) + (AddressSize(s, q, TRUE) % 2))]
      <4>1. GetInt(s, q) > 0 /\ GetInt(s, q + 2) >= 0 /\ AddressClass(s, q) # 5
        BY <2>4, <2>6, <2>10
      <4> QED
        BY <1>3, <4>1 DEF PhoneGoes, address
    <3>2. address = IF Len(s) - (q + 3) < size + 2 * (size % 2) THEN NotRead
                    ELSE [ok |-> TRUE, next |-> next, plus |-> 1 = 1,
                          number |-> ReadNumber(s, q + 4, size + (size % 2))]
      BY <2>10, <3>1, Zenon
    <3>3. address = [ok |-> TRUE, next |-> next, plus |-> 1 = 1, number |-> ReadNumber(s, q + 4, size + (size % 2))]
      BY <2>4, <2>9, <3>2, Zenon
    <3>4. ReadNumber(s, q + 4, size + (size % 2)) = number
      BY <2>4, <2>7
    <3>5. (1 = 1) = TRUE
      OBVIOUS
    <3> QED
      BY <3>3, <3>4, <3>5, Zenon
  <2>12. GetInt(s, q) > 0 /\ AddressClass(s, q) # 5 /\ AddressEnd(s, q, TRUE) = next
    <3>1. GetInt(s, q) > 0
      BY <2>4, <2>6
    <3>2. AddressClass(s, q) # 5
      BY <2>10
    <3> QED
      BY <2>10, <3>1, <3>2
  <2> HIDE DEF short
  <2> QED
    BY <2>11, <2>12
<1> QED
  BY <1>4, <1>5

\* The center's address at the beginning of the line.
LEMMA SmscFirst ==
    ASSUME NEW smsc \in Seq(0..9), NEW s \in Seq(Nat), LiesAt(s, 0, StandardSmsc(smsc)),
           NEW l \in Nat, l = Len(StandardSmsc(smsc))
    PROVE  /\ GetPhone(s, 1, TRUE).ok /\ GetPhone(s, 1, TRUE).number = smsc
           /\ GetPhone(s, 1, TRUE).next = l + 1 /\ CenterEnds(s, l)
<1> DEFINE p == 0
           q == p + 1
           next == p + 1 + Len(StandardSmsc(smsc))
           g == GetInt(s, 1)
           end == AddressEnd(s, 1, TRUE)
<1>1. p \in Nat /\ LiesAt(s, p, StandardSmsc(smsc))
  OBVIOUS
<1>2. q = 1 /\ next = l + 1
  OBVIOUS
<1> HIDE DEF p
<1>6. CenterThere(smsc, s, p)
  BY <1>1, SmscPhone
<1>3. /\ GetPhone(s, q, TRUE).ok /\ GetPhone(s, q, TRUE).number = smsc /\ GetPhone(s, q, TRUE).next = next
      /\ \/ GetInt(s, q) = 0 /\ Len(StandardSmsc(smsc)) = 2
         \/ GetInt(s, q) > 0 /\ AddressClass(s, q) # 5 /\ AddressEnd(s, q, TRUE) = next
  BY <1>6 DEF CenterThere
<1> HIDE DEF q, next
<1>4. /\ GetPhone(s, 1, TRUE).ok /\ GetPhone(s, 1, TRUE).number = smsc /\ GetPhone(s, 1, TRUE).next = l + 1
      /\ \/ GetInt(s, 1) = 0 /\ l = 2
         \/ GetInt(s, 1) > 0 /\ AddressClass(s, 1) # 5 /\ AddressEnd(s, 1, TRUE) = l + 1
  BY <1>2, <1>3
<1> QED
  BY <1>4 DEF CenterEnds

LEMMA NameSeq ==
    ASSUME NEW n \in 1..11
    PROVE  StandardName(n) \in Seq(Nat) /\ Len(StandardName(n)) = 4 + 2 * ((7 * n + 7) \div 8)
<1> DEFINE x == (7 * n + 3) \div 4
           z == 2 * ((7 * n + 7) \div 8)
           rest == [i \in 1..z |-> 9]
<1>1. x \in Nat /\ z \in Nat
  OBVIOUS
<1>2. StandardName(n) = Address(x, 208, rest)
  BY DEF StandardName, Address
<1>3. rest \in Seq(Nat) /\ Len(rest) = z
  <2> HIDE DEF z
  <2> QED
    BY <1>1
<1> HIDE DEF x, rest
<1>4. x \in Nat /\ 208 \in Nat /\ rest \in Seq(Nat)
  BY <1>1, <1>3
<1>5. Address(x, 208, rest) \in Seq(Nat) /\ Len(Address(x, 208, rest)) = 4 + Len(rest)
  BY <1>4, AddressSeq
<1> QED
  BY <1>2, <1>3, <1>5

\* The sender's name is asked for with as many characters as it has.
LEMMA NamePhone ==
    ASSUME NEW n \in 1..11, NEW s \in Seq(Nat), NEW p \in Nat, LiesAt(s, p, StandardName(n))
    PROVE  /\ GetPhone(s, p + 1, FALSE) =
                [ok |-> TRUE, next |-> p + 1 + Len(StandardName(n)), characters |-> n]
           /\ SenderEnds(s, p + 1, p + 1 + Len(StandardName(n))) /\ AddressClass(s, p + 1) = 5
<1> DEFINE x == (7 * n + 3) \div 4
           z == 2 * ((7 * n + 7) \div 8)
           rest == [i \in 1..z |-> 9]
           q == p + 1
           next == p + 1 + Len(StandardName(n))
           address == GetPhone(s, q, FALSE)
<1> SUFFICES /\ address = [ok |-> TRUE, next |-> next, characters |-> n]
             /\ SenderEnds(s, q, next) /\ AddressClass(s, q) = 5
  OBVIOUS
<1>1. x \in Nat /\ x > 0 /\ z \in Nat /\ x + (x % 2) = z /\ (x * 4) \div 7 = n
  <2>1. n \in {1, 2, 3, 4, 5, 6, 7, 8, 9, 10, 11}
    OBVIOUS
  <2> QED
    BY <2>1
<1>2. q \in Nat /\ 1 <= q /\ q + 2 \in Nat /\ 1 <= q + 2
  OBVIOUS
<1>3. StandardName(n) = Address(x, 208, rest)
  BY DEF StandardName, Address
<1>4. rest \in Seq(Nat) /\ Len(rest) = z
  <2> HIDE DEF z
  <2> QED
    BY <1>1
<1> HIDE DEF x, z, rest
<1>5. Len(StandardName(n)) = 4 + z
  BY NameSeq DEF z
<1>6. GetInt(s, q) = x /\ GetInt(s, q + 2) = 208
  <2>1. LiesAt(s, p, Address(x, 208, rest)) /\ 208 \in Nat
    BY <1>3
  <2> QED
    BY <1>1, <1>4, <2>1, AddressLies
<1>7. next = q + 4 + z
  <2>1. next = p + 1 + (4 + z)
    BY <1>5
  <2> HIDE DEF next
  <2> QED
    BY <1>1, <2>1
<1> HIDE DEF q, next, address
<1>8. PhoneGoes(s, q, FALSE)
  BY <1>2, PhoneWays
<1>9. AddressSize(s, q, FALSE) = x /\ AddressEnd(s, q, FALSE) = next /\ AddressClass(s, q) = 5
  <2>1. AddressSize(s, q, FALSE) = x
    BY <1>6 DEF AddressSize
  <2>2. AddressEnd(s, q, FALSE) = q + 4 + x + (x % 2)
    BY <2>1 DEF AddressEnd
  <2>3. AddressClass(s, q) = 5
    BY <1>6 DEF AddressClass
  <2>4. q + 4 + x + (x % 2) = q + 4 + z
    BY <1>1, <1>2
  <2> QED
    BY <1>7, <2>1, <2>2, <2>3, <2>4
<1>10. address = [ok |-> TRUE, next |-> next, characters |-> n]
  <2>1. GetInt(s, q) > 0 /\ GetInt(s, q + 2) >= 0
    BY <1>1, <1>6
  <2>2. address = [ok |-> TRUE, next |-> AddressEnd(s, q, FALSE), characters |-> (AddressSize(s, q, FALSE) * 4) \div 7]
    BY <1>8, <1>9, <2>1 DEF PhoneGoes, address
  <2> QED
    BY <1>1, <1>9, <2>2, Zenon
<1>11. SenderEnds(s, q, next)
  BY <1>1, <1>6, <1>9 DEF SenderEnds
<1> QED
  BY <1>9, <1>10, <1>11

Date == <<6, 2, 1, 1, 0, 3, 4, 1, 5, 9, 2, 6>>

Delivered(smsc, from, octet) ==
    smsc \o Digits(4) \o from \o Digits(0) \o Digits(8) \o EncodeHexDec(Date)
    \o Digits(octet) \o Digits(2) \o <<0, 4, 1>>

DeliveredHolds(s, smsc, from) ==
    LET l == Len(smsc)
        m == Len(smsc) + 2 + Len(from)
    IN  /\ s \in Seq(Nat) /\ Len(s) = m + 23 /\ LiesAt(s, 0, smsc) /\ GetInt(s, l + 1) = 4
        /\ LiesAt(s, l + 2, from) /\ GetInt(s, m + 1) = 0 /\ GetInt(s, m + 3) = 8
        /\ LiesAt(s, m + 4, EncodeHexDec(Date)) /\ GetInt(s, m + 19) = 2

LEMMA DateSeq ==
    Date \in Seq(0..9) /\ Len(Date) = 12 /\ Evened(12) = 12
  BY DEF Date, Evened

\* The SMS that is delivered, piece by piece.
LEMMA DeliverPieces ==
    ASSUME NEW smsc \in Seq(Nat), NEW from \in Seq(Nat), NEW octet \in Nat
    PROVE  DeliveredHolds(Delivered(smsc, from, octet), smsc, from)
<1> DEFINE l == Len(smsc)
           f == Len(from)
           m == l + 2 + f
           d4 == Digits(4)
           d0 == Digits(0)
           d8 == Digits(8)
           d2 == Digits(2)
           dz == Digits(octet)
           dt == EncodeHexDec(Date)
           tail == <<0, 4, 1>>
           a1 == smsc \o d4
           a2 == a1 \o from
           a3 == a2 \o d0
           a4 == a3 \o d8
           a5 == a4 \o dt
           a6 == a5 \o dz
           a7 == a6 \o d2
           s == Delivered(smsc, from, octet)
<1>1. l \in Nat /\ f \in Nat /\ m \in Nat
  OBVIOUS
<1>2. /\ d4 \in Seq(Nat) /\ Len(d4) = 2 /\ d0 \in Seq(Nat) /\ Len(d0) = 2 /\ d8 \in Seq(Nat) /\ Len(d8) = 2
      /\ d2 \in Seq(Nat) /\ Len(d2) = 2 /\ dz \in Seq(Nat) /\ Len(dz) = 2
  BY OctetIs
<1>3. dt \in Seq(Nat) /\ Len(dt) = 12
  BY DateSeq, Encoded
<1>4. tail \in Seq(Nat) /\ Len(tail) = 3
  OBVIOUS
<1>5. s = a7 \o tail
  BY DEF Delivered
<1> SUFFICES /\ s \in Seq(Nat) /\ Len(s) = m + 23 /\ LiesAt(s, 0, smsc) /\ GetInt(s, l + 1) = 4
             /\ LiesAt(s, l + 2, from) /\ GetInt(s, m + 1) = 0 /\ GetInt(s, m + 3) = 8
             /\ LiesAt(s, m + 4, dt) /\ GetInt(s, m + 19) = 2
  BY DEF DeliveredHolds
<1>6. smsc \in Seq(Nat) /\ Len(smsc) = l /\ from \in Seq(Nat) /\ Len(from) = f /\ l + 2 + f = m
  OBVIOUS
<1> HIDE DEF l, f, m, d4, d0, d8, d2, dz, dt, tail, a1, a2, a3, a4, a5, a6, a7, s
<1>7. a1 \in Seq(Nat) /\ Len(a1) = l + 2 /\ LiesAt(a1, l, d4) /\ Keeps(smsc, a1) /\ LiesAt(a1, 0, smsc)
  <2>1. a1 = smsc \o d4
    BY DEF a1
  <2>2. smsc \in Seq(Nat) /\ Len(smsc) = l /\ d4 \in Seq(Nat) /\ Len(d4) = 2
    BY <1>2, <1>6
  <2>3. /\ smsc \o d4 \in Seq(Nat) /\ Len(smsc \o d4) = Len(smsc) + Len(d4)
        /\ LiesAt(smsc \o d4, Len(smsc), d4) /\ Keeps(smsc, smsc \o d4) /\ LiesAt(smsc \o d4, 0, smsc)
    BY <2>2, AtGrows
  <2>4. l + 2 = l + 2
    BY <1>1, <1>6
  <2> QED
    BY <2>1, <2>2, <2>3, <2>4
<1>8. a2 \in Seq(Nat) /\ Len(a2) = m /\ LiesAt(a2, l + 2, from) /\ Keeps(a1, a2)
  <2>1. a2 = a1 \o from
    BY DEF a2
  <2>2. a1 \in Seq(Nat) /\ Len(a1) = l + 2 /\ from \in Seq(Nat) /\ Len(from) = f
    BY <1>6, <1>7
  <2>3. /\ a1 \o from \in Seq(Nat) /\ Len(a1 \o from) = Len(a1) + Len(from)
        /\ LiesAt(a1 \o from, Len(a1), from) /\ Keeps(a1, a1 \o from)
    BY <2>2, AtGrows
  <2>4. l + 2 + f = m
    BY <1>1, <1>6
  <2> QED
    BY <2>1, <2>2, <2>3, <2>4
<1>9. a3 \in Seq(Nat) /\ Len(a3) = m + 2 /\ LiesAt(a3, m, d0) /\ Keeps(a2, a3)
  <2>1. a3 = a2 \o d0
    BY DEF a3
  <2>2. a2 \in Seq(Nat) /\ Len(a2) = m /\ d0 \in Seq(Nat) /\ Len(d0) = 2
    BY <1>2, <1>8
  <2>3. /\ a2 \o d0 \in Seq(Nat) /\ Len(a2 \o d0) = Len(a2) + Len(d0)
        /\ LiesAt(a2 \o d0, Len(a2), d0) /\ Keeps(a2, a2 \o d0)
    BY <2>2, AtGrows
  <2>4. m + 2 = m + 2
    BY <1>1, <1>6
  <2> QED
    BY <2>1, <2>2, <2>3, <2>4
<1>10. a4 \in Seq(Nat) /\ Len(a4) = m + 4 /\ LiesAt(a4, m + 2, d8) /\ Keeps(a3, a4)
  <2>1. a4 = a3 \o d8
    BY DEF a4
  <2>2. a3 \in Seq(Nat) /\ Len(a3) = m + 2 /\ d8 \in Seq(Nat) /\ Len(d8) = 2
    BY <1>2, <1>9
  <2>3. /\ a3 \o d8 \in Seq(Nat) /\ Len(a3 \o d8) = Len(a3) + Len(d8)
        /\ LiesAt(a3 \o d8, Len(a3), d8) /\ Keeps(a3, a3 \o d8)
    BY <2>2, AtGrows
  <2>4. m + 2 + 2 = m + 4
    BY <1>1, <1>6
  <2> QED
    BY <2>1, <2>2, <2>3, <2>4
<1>11. a5 \in Seq(Nat) /\ Len(a5) = m + 16 /\ LiesAt(a5, m + 4, dt) /\ Keeps(a4, a5)
  <2>1. a5 = a4 \o dt
    BY DEF a5
  <2>2. a4 \in Seq(Nat) /\ Len(a4) = m + 4 /\ dt \in Seq(Nat) /\ Len(dt) = 12
    BY <1>3, <1>10
  <2>3. /\ a4 \o dt \in Seq(Nat) /\ Len(a4 \o dt) = Len(a4) + Len(dt)
        /\ LiesAt(a4 \o dt, Len(a4), dt) /\ Keeps(a4, a4 \o dt)
    BY <2>2, AtGrows
  <2>4. m + 4 + 12 = m + 16
    BY <1>1, <1>6
  <2> QED
    BY <2>1, <2>2, <2>3, <2>4
<1>12. a6 \in Seq(Nat) /\ Len(a6) = m + 18 /\ LiesAt(a6, m + 16, dz) /\ Keeps(a5, a6)
  <2>1. a6 = a5 \o dz
    BY DEF a6
  <2>2. a5 \in Seq(Nat) /\ Len(a5) = m + 16 /\ dz \in Seq(Nat) /\ Len(dz) = 2
    BY <1>2, <1>11
  <2>3. /\ a5 \o dz \in Seq(Nat) /\ Len(a5 \o dz) = Len(a5) + Len(dz)
        /\ LiesAt(a5 \o dz, Len(a5), dz) /\ Keeps(a5, a5 \o dz)
    BY <2>2, AtGrows
  <2>4. m + 16 + 2 = m + 18
    BY <1>1, <1>6
  <2> QED
    BY <2>1, <2>2, <2>3, <2>4
<1>13. a7 \in Seq(Nat) /\ Len(a7) = m + 20 /\ LiesAt(a7, m + 18, d2) /\ Keeps(a6, a7)
  <2>1. a7 = a6 \o d2
    BY DEF a7
  <2>2. a6 \in Seq(Nat) /\ Len(a6) = m + 18 /\ d2 \in Seq(Nat) /\ Len(d2) = 2
    BY <1>2, <1>12
  <2>3. /\ a6 \o d2 \in Seq(Nat) /\ Len(a6 \o d2) = Len(a6) + Len(d2)
        /\ LiesAt(a6 \o d2, Len(a6), d2) /\ Keeps(a6, a6 \o d2)
    BY <2>2, AtGrows
  <2>4. m + 18 + 2 = m + 20
    BY <1>1, <1>6
  <2> QED
    BY <2>1, <2>2, <2>3, <2>4
<1>14. s \in Seq(Nat) /\ Len(s) = m + 23 /\ LiesAt(s, m + 20, tail) /\ Keeps(a7, s)
  <2>1. s = a7 \o tail
    BY <1>5
  <2>2. a7 \in Seq(Nat) /\ Len(a7) = m + 20 /\ tail \in Seq(Nat) /\ Len(tail) = 3
    BY <1>4, <1>13
  <2>3. /\ a7 \o tail \in Seq(Nat) /\ Len(a7 \o tail) = Len(a7) + Len(tail)
        /\ LiesAt(a7 \o tail, Len(a7), tail) /\ Keeps(a7, a7 \o tail)
    BY <2>2, AtGrows
  <2>4. m + 20 + 3 = m + 23
    BY <1>1, <1>6
  <2> QED
    BY <2>1, <2>2, <2>3, <2>4
<1>15. Keeps(a6, s) /\ Keeps(a5, s) /\ Keeps(a4, s) /\ Keeps(a3, s) /\ Keeps(a2, s) /\ Keeps(a1, s)
  <2>1. Keeps(a6, s)
    BY <1>13, <1>14, KeepsOn
  <2>2. Keeps(a5, s)
    BY <1>12, <2>1, KeepsOn
  <2>3. Keeps(a4, s)
    BY <1>11, <2>2, KeepsOn
  <2>4. Keeps(a3, s)
    BY <1>10, <2>3, KeepsOn
  <2>5. Keeps(a2, s)
    BY <1>9, <2>4, KeepsOn
  <2>6. Keeps(a1, s)
    BY <1>8, <2>5, KeepsOn
  <2> QED
    BY <2>1, <2>2, <2>3, <2>4, <2>5, <2>6
<1>16. /\ LiesAt(s, 0, smsc) /\ LiesAt(s, l, d4) /\ LiesAt(s, l + 2, from) /\ LiesAt(s, m, d0)
       /\ LiesAt(s, m + 2, d8) /\ LiesAt(s, m + 4, dt) /\ LiesAt(s, m + 18, d2)
  <2>1. 0 \in Nat /\ l \in Nat /\ l + 2 \in Nat /\ m \in Nat /\ m + 2 \in Nat /\ m + 4 \in Nat /\ m + 18 \in Nat
    BY <1>1
  <2>2. LiesAt(s, 0, smsc)
    BY <1>6, <1>7, <1>15, <2>1, Kept
  <2>3. LiesAt(s, l, d4)
    BY <1>2, <1>7, <1>15, <2>1, Kept
  <2>4. LiesAt(s, l + 2, from)
    BY <1>6, <1>8, <1>15, <2>1, Kept
  <2>5. LiesAt(s, m, d0)
    BY <1>2, <1>9, <1>15, <2>1, Kept
  <2>6. LiesAt(s, m + 2, d8)
    BY <1>2, <1>10, <1>15, <2>1, Kept
  <2>7. LiesAt(s, m + 4, dt)
    BY <1>3, <1>11, <1>15, <2>1, Kept
  <2>8. LiesAt(s, m + 18, d2)
    BY <1>2, <1>13, <1>14, <2>1, Kept
  <2> QED
    BY <2>2, <2>3, <2>4, <2>5, <2>6, <2>7, <2>8
<1>17. GetInt(s, l + 1) = 4 /\ GetInt(s, m + 1) = 0 /\ GetInt(s, m + 3) = 8 /\ GetInt(s, m + 19) = 2
  <2>1. /\ m + 2 \in Nat /\ m + 18 \in Nat /\ (m + 2) + 1 = m + 3 /\ (m + 18) + 1 = m + 19
        /\ 4 \in Nat /\ 0 \in Nat /\ 8 \in Nat /\ 2 \in Nat
    BY <1>1
  <2>2. GetInt(s, l + 1) = 4
    BY <1>1, <1>14, <1>16, <2>1, OctetAt DEF d4
  <2>3. GetInt(s, m + 1) = 0
    BY <1>1, <1>14, <1>16, <2>1, OctetAt DEF d0
  <2>4. GetInt(s, (m + 2) + 1) = 8
    BY <1>14, <1>16, <2>1, OctetAt DEF d8
  <2>5. GetInt(s, (m + 18) + 1) = 2
    BY <1>14, <1>16, <2>1, OctetAt DEF d2
  <2> QED
    BY <2>1, <2>2, <2>3, <2>4, <2>5
<1> QED
  BY <1>14, <1>16, <1>17

\* What is read of the time a message was sent.
LEMMA DateRead ==
    ASSUME NEW s \in Seq(Nat), NEW p \in Nat, LiesAt(s, p, EncodeHexDec(Date))
    PROVE  GetTimeStamp(s, p + 1).date = [k \in 1..6 |-> <<Date[2 * k - 1], Date[2 * k]>>]
<1> DEFINE e == EncodeHexDec(Date)
           q == p + 1
<1>1. Len(e) = 12 /\ \A i \in 1..12 : e[Swapped(i)] = IF i <= 12 THEN Date[i] ELSE Filler
  BY DateSeq, Encoded
<1>2. \A i \in 1..12 : s[p + i] = e[i]
  BY <1>1 DEF LiesAt
<1> HIDE DEF e
<1>3. ASSUME NEW k \in 1..6
      PROVE  s[q + 2 * k - 1] = Date[2 * k - 1] /\ s[q + 2 * k - 2] = Date[2 * k]
  <2> DEFINE odd == 2 * k - 1
             even == 2 * k
  <2>1. /\ odd \in 1..12 /\ even \in 1..12 /\ odd <= 12 /\ even <= 12 /\ odd % 2 = 1 /\ even % 2 # 1
        /\ odd + 1 = even /\ even - 1 = odd /\ q + 2 * k - 1 = p + even /\ q + 2 * k - 2 = p + odd
    OBVIOUS
  <2> HIDE DEF odd, even, q
  <2>2. Swapped(odd) = even /\ Swapped(even) = odd
    BY <2>1 DEF Swapped
  <2>3. s[p + even] = Date[odd] /\ s[p + odd] = Date[even]
    BY <1>1, <1>2, <2>1, <2>2
  <2> QED
    BY <2>1, <2>3 DEF odd, even
<1>4. GetTimeStamp(s, q).date = [k \in 1..6 |-> <<s[q + 2 * k - 1], s[q + 2 * k - 2]>>]
  BY DEF GetTimeStamp
<1> HIDE DEF q
<1>5. \A k \in 1..6 : <<s[q + 2 * k - 1], s[q + 2 * k - 2]>> = <<Date[2 * k - 1], Date[2 * k]>>
  <2> TAKE k \in 1..6
  <2> QED
    BY <1>3, Zenon
<1> QED
  BY <1>4, <1>5 DEF q

LEMMA SmscSeq ==
    ASSUME NEW smsc \in Seq(0..9)
    PROVE  StandardSmsc(smsc) \in Seq(Nat) /\ Len(StandardSmsc(smsc)) \in Nat
<1>1. EncodeHexDec(smsc) \in Seq(Nat)
  BY Encoded
<1>2. Digits(0) \in Seq(Nat)
  BY OctetIs
<1> DEFINE x == 1 + ((Len(smsc) + 1) \div 2)
<1>3. x \in Nat /\ 145 \in Nat
  OBVIOUS
<1>4. StandardSmsc(smsc) = IF smsc = <<>> THEN Digits(0) ELSE Address(x, 145, EncodeHexDec(smsc))
  BY DEF StandardSmsc, Address
<1> HIDE DEF x
<1>5. Address(x, 145, EncodeHexDec(smsc)) \in Seq(Nat)
  BY <1>1, <1>3, AddressSeq
<1>6. StandardSmsc(smsc) \in Seq(Nat)
  BY <1>2, <1>4, <1>5
<1> QED
  BY <1>6

EnvelopeIs(s, smsc, from) ==
    LET e == ReadEnvelope(s)
        m == Len(StandardSmsc(smsc)) + 2 + Len(from)
    IN  /\ e.ok /\ e.smsc.number = smsc /\ e.deliver = 4 /\ e.dcs = 8 /\ e.udl = 2
        /\ e.from = GetPhone(s, Len(StandardSmsc(smsc)) + 3, FALSE)
        /\ e.time.date = [k \in 1..6 |-> <<Date[2 * k - 1], Date[2 * k]>>]
        /\ e.userData = m + 21

\* An envelope whose address is read, is read.
LEMMA EnvelopeGoes ==
    ASSUME NEW smsc \in Seq(0..9), NEW from \in Seq(Nat), NEW s, DeliveredHolds(s, StandardSmsc(smsc), from),
           GetPhone(s, Len(StandardSmsc(smsc)) + 3, FALSE).ok,
           GetPhone(s, Len(StandardSmsc(smsc)) + 3, FALSE).next = Len(StandardSmsc(smsc)) + 3 + Len(from)
    PROVE  EnvelopeIs(s, smsc, from)
<1> DEFINE l == Len(StandardSmsc(smsc))
           m == l + 2 + Len(from)
           center == GetPhone(s, 1, TRUE)
           sender == GetPhone(s, center.next + 2, FALSE)
           p == sender.next
           e == ReadEnvelope(s)
           Read == [ok |-> TRUE, smsc |-> center, deliver |-> GetInt(s, center.next), from |-> sender,
                    dcs |-> GetInt(s, p + 2), time |-> GetTimeStamp(s, p + 4),
                    udl |-> GetInt(s, p + 18), userData |-> p + 20]
           there == GetPhone(s, l + 3, FALSE)
           dates == [k \in 1..6 |-> <<Date[2 * k - 1], Date[2 * k]>>]
<1> SUFFICES /\ e.ok /\ e.smsc.number = smsc /\ e.deliver = 4 /\ e.dcs = 8 /\ e.udl = 2
             /\ e.from = there /\ e.time.date = dates /\ e.userData = m + 21
  BY DEF EnvelopeIs
<1>1. /\ s \in Seq(Nat) /\ Len(s) = m + 23 /\ LiesAt(s, 0, StandardSmsc(smsc)) /\ GetInt(s, l + 1) = 4
      /\ GetInt(s, m + 1) = 0 /\ GetInt(s, m + 3) = 8
      /\ LiesAt(s, m + 4, EncodeHexDec(Date)) /\ GetInt(s, m + 19) = 2
  BY DEF DeliveredHolds
<1>2. l \in Nat /\ Len(from) \in Nat
  BY SmscSeq
<1>3. m \in Nat /\ m + 1 = l + 3 + Len(from)
  BY <1>2
<1>4. there.ok /\ there.next = m + 1
  BY <1>3
<1>5. e = IF ~center.ok THEN center
          ELSE IF Unowned(s, center.next) THEN Beyond
          ELSE IF GetInt(s, center.next) < 0 THEN NotRead
          ELSE IF ~sender.ok THEN sender
          ELSE IF Unowned(s, p) THEN Beyond
          ELSE IF GetInt(s, p) < 0 \/ GetInt(s, p + 2) < 0 \/ Len(s) - (p + 3) < 14 THEN NotRead
          ELSE IF GetInt(s, p + 18) < 0 THEN NotRead
          ELSE Read
  BY Zenon DEF ReadEnvelope
<1>6. center.ok /\ center.number = smsc /\ center.next = l + 1
  <2>1. l = Len(StandardSmsc(smsc)) /\ l \in Nat
    BY <1>2
  <2> HIDE DEF l
  <2> QED
    BY <1>1, <2>1, SmscFirst
<1>7. sender = there
  <2>1. (l + 1) + 2 = l + 3
    BY <1>2
  <2> HIDE DEF l, center
  <2> QED
    BY <1>6, <2>1
<1> HIDE DEF l, m, center, sender, there
<1>8. p = m + 1
  BY <1>4, <1>7
<1> HIDE DEF p
<1>9. /\ p + 2 = m + 3 /\ p + 18 = m + 19 /\ p + 20 = m + 21 /\ p + 4 = (m + 4) + 1 /\ m + 4 \in Nat
      /\ ~(Len(s) - (p + 3) < 14) /\ ~(p > Len(s) + 1)
  BY <1>1, <1>3, <1>8
<1>14. ~Unowned(s, center.next) /\ ~Unowned(s, p)
  <2>1. ~(center.next > Len(s) + 1)
    BY <1>1, <1>2, <1>3, <1>6
  <2> QED
    BY <1>9, <2>1 DEF Unowned
<1>10. /\ GetInt(s, center.next) = 4 /\ GetInt(s, p) = 0 /\ GetInt(s, p + 2) = 8 /\ GetInt(s, p + 18) = 2
  BY <1>1, <1>6, <1>8, <1>9
<1>11. GetTimeStamp(s, p + 4).date = dates
  <2>1. GetTimeStamp(s, (m + 4) + 1).date = dates
    BY <1>1, <1>9, DateRead
  <2> HIDE DEF dates
  <2> QED
    BY <1>9, <2>1
<1> HIDE DEF dates, e
<1>12. e = Read
  <2>1. ~(4 < 0) /\ ~(0 < 0) /\ ~(8 < 0) /\ ~(2 < 0)
    OBVIOUS
  <2> HIDE DEF Read
  <2> QED
    BY <1>4, <1>5, <1>6, <1>7, <1>9, <1>10, <1>14, <2>1, Zenon
<1>13. /\ e.ok /\ e.smsc = center /\ e.deliver = GetInt(s, center.next) /\ e.from = sender
       /\ e.dcs = GetInt(s, p + 2) /\ e.time = GetTimeStamp(s, p + 4)
       /\ e.udl = GetInt(s, p + 18) /\ e.userData = p + 20
  BY <1>12
<1> QED
  BY <1>6, <1>7, <1>9, <1>10, <1>11, <1>13

\* A number that is never empty: that of the sender.
Caller(smsc) == IF smsc = <<>> THEN <<1>> ELSE smsc

LEMMA CallerIs ==
    ASSUME NEW smsc \in Seq(0..9)
    PROVE  Caller(smsc) \in Seq(0..9) /\ Caller(smsc) # <<>>
<1> DEFINE one == <<1>>
<1>1. one \in Seq(0..9) /\ Len(one) = 1
  OBVIOUS
<1> HIDE DEF one
<1>2. one # <<>>
  <2>1. Len(one) # Len(<<>>)
    <3>1. Len(<<>>) = 0
      OBVIOUS
    <3> QED
      BY <1>1, <3>1
  <2> QED
    BY <2>1, Zenon
<1>3. Caller(smsc) = IF smsc = <<>> THEN one ELSE smsc
  BY DEF Caller, one
<1> QED
  BY <1>1, <1>2, <1>3

\* Where the lines that are cut off from s before its text are read as behind their end.
EndsAsWritten(s, c, f, name) ==
    /\ ReadEnvelope(s).userData = (Len(s) - 3) + 1
    /\ \A k \in 0..((Len(s) - 3) - 1) :
        ReadEnvelope(SubSeq(s, 1, k)) = IF Untested(k, c, f, name) THEN Beyond ELSE NotRead

\* What is read of an SMS ends where its text begins, and not before.
LEMMA DeliveredCut ==
    ASSUME NEW smsc \in Seq(0..9), NEW from \in Seq(Nat), NEW s,
           DeliveredHolds(s, StandardSmsc(smsc), from), EnvelopeIs(s, smsc, from),
           NEW l \in Nat, l = Len(StandardSmsc(smsc)), NEW f \in Nat, f = Len(from),
           SenderEnds(s, l + 3, l + 3 + f)
    PROVE  EndsAsWritten(s, l + 2, f, AddressClass(s, l + 3) = 5)
<1> DEFINE name == AddressClass(s, l + 3) = 5
<1>1. /\ s \in Seq(Nat) /\ Len(s) = l + 2 + f + 23 /\ LiesAt(s, 0, StandardSmsc(smsc)) /\ GetInt(s, l + 1) = 4
  BY DEF DeliveredHolds
<1>2. ReadEnvelope(s).userData = l + 2 + f + 21
  BY DEF EnvelopeIs
<1>3. CenterEnds(s, l)
  BY <1>1, SmscFirst
<1>4. ASSUME NEW k \in 0..((Len(s) - 3) - 1)
      PROVE  ReadEnvelope(SubSeq(s, 1, k)) = IF Untested(k, l + 2, f, name) THEN Beyond ELSE NotRead
  <2>1. k \in 0..(l + 2 + f + 19) /\ l + 2 + f + 19 <= Len(s)
    BY <1>1
  <2>2. CutIs(s, l, f, k)
    BY <1>1, <1>3, <2>1, CutEnvelope
  <2> QED
    BY <2>2 DEF CutIs
<1>5. ReadEnvelope(s).userData = (Len(s) - 3) + 1
  <2>1. (Len(s) - 3) + 1 = l + 2 + f + 21
    BY <1>1
  <2> QED
    BY <1>2, <2>1
<1> HIDE DEF name
<1> QED
  BY <1>4, <1>5 DEF EndsAsWritten, name

NumberIsDelivered(smsc, number, type) ==
    LET from == StandardNumber(number, type)
        s == Delivered(StandardSmsc(smsc), from, 0)
    IN  /\ EnvelopeIs(s, smsc, from)
        /\ ReadEnvelope(s).from.number = number /\ ReadEnvelope(s).from.plus = (type = 145)
        /\ EndsAsWritten(s, Len(StandardSmsc(smsc)) + 2, Len(from), FALSE)

\* An SMS from a number is read as it was written.
LEMMA NumberDelivered ==
    ASSUME NEW smsc \in Seq(0..9), NEW number \in Seq(0..9), number # <<>>, NEW type \in {129, 145}
    PROVE  NumberIsDelivered(smsc, number, type)
<1> DEFINE from == StandardNumber(number, type)
           c == StandardSmsc(smsc)
           l == Len(c)
           f == Len(from)
           s == Delivered(c, from, 0)
           there == GetPhone(s, l + 3, FALSE)
<1>1. from \in Seq(Nat) /\ f \in Nat
  <2>1. EncodeHexDec(number) \in Seq(Nat)
    BY Encoded
  <2>2. Len(number) \in Nat /\ type \in Nat
    OBVIOUS
  <2>3. from = Address(Len(number), type, EncodeHexDec(number))
    BY DEF StandardNumber, Address
  <2>4. from \in Seq(Nat)
    BY <2>1, <2>2, <2>3, AddressSeq
  <2> QED
    BY <2>4
<1>2. c \in Seq(Nat) /\ l \in Nat
  BY SmscSeq
<1>3. DeliveredHolds(s, c, from)
  <2>1. 0 \in Nat
    OBVIOUS
  <2> HIDE DEF from, c
  <2> QED
    BY <1>1, <1>2, <2>1, DeliverPieces
<1> HIDE DEF s
<1>4. s \in Seq(Nat) /\ LiesAt(s, l + 2, from) /\ Len(s) = l + 2 + f + 23
  BY <1>3 DEF DeliveredHolds
<1>5. there = [ok |-> TRUE, next |-> l + 3 + f, plus |-> type = 145, number |-> number]
  <2>1. l + 2 \in Nat /\ (l + 2) + 1 = l + 3 /\ (l + 2) + f + 1 <= Len(s)
    <3> HIDE DEF l, f
    <3> QED
      BY <1>1, <1>2, <1>4
  <2>2. GetPhone(s, (l + 2) + 1, FALSE) =
            [ok |-> TRUE, next |-> (l + 2) + 1 + f, plus |-> type = 145, number |-> number]
    <3> DEFINE p == l + 2
    <3>1. p \in Nat /\ LiesAt(s, p, from) /\ p + Len(from) + 1 <= Len(s) /\ s \in Seq(Nat)
      BY <1>4, <2>1
    <3> HIDE DEF p, l
    <3>2. IsReadThere(number, type, s, p)
      BY <3>1, NumberPhone
    <3> QED
      BY <3>2 DEF p, IsReadThere
  <2> HIDE DEF l, f
  <2> QED
    BY <2>1, <2>2
<1>9. SenderEnds(s, l + 3, l + 3 + f) /\ ~(AddressClass(s, l + 3) = 5)
  <2>1. (l + 2) + 1 = l + 3 /\ (l + 2) + 1 + f = l + 3 + f /\ l + 2 \in Nat /\ (l + 2) + f + 1 <= Len(s)
    <3> HIDE DEF l, f
    <3> QED
      BY <1>1, <1>2, <1>4
  <2> DEFINE p == l + 2
  <2>2. p \in Nat /\ LiesAt(s, p, from) /\ p + Len(from) + 1 <= Len(s) /\ s \in Seq(Nat)
    BY <1>4, <2>1
  <2> HIDE DEF p
  <2>3. IsReadThere(number, type, s, p)
    BY <2>2, NumberPhone
  <2>4. SenderEnds(s, p + 1, p + 1 + f) /\ AddressClass(s, p + 1) # 5
    BY <2>3 DEF IsReadThere
  <2>5. p + 1 = l + 3 /\ p + 1 + f = l + 3 + f
    BY <2>1 DEF p
  <2> HIDE DEF l, f
  <2> QED
    BY <2>4, <2>5
<1>6. there.ok /\ there.next = l + 3 + f /\ there.plus = (type = 145) /\ there.number = number
  <2> HIDE DEF there, l, f
  <2> QED
    BY <1>5
<1>7. EnvelopeIs(s, smsc, from)
  <2> HIDE DEF from
  <2> QED
    BY <1>1, <1>3, <1>6, EnvelopeGoes
<1>8. ReadEnvelope(s).from = there
  BY <1>7 DEF EnvelopeIs
<1>10. EndsAsWritten(s, l + 2, f, FALSE)
  <2> DEFINE name == AddressClass(s, l + 3) = 5
  <2>1. EndsAsWritten(s, l + 2, f, name)
    <3> HIDE DEF from, l, f
    <3>1. l = Len(StandardSmsc(smsc)) /\ f = Len(from)
      BY DEF l, f
    <3> QED
      BY <1>1, <1>2, <1>3, <1>7, <1>9, <3>1, DeliveredCut
  <2>2. name = FALSE
    BY <1>9, Zenon
  <2> HIDE DEF name, l, f, s
  <2> QED
    BY <2>1, <2>2
<1> QED
  BY <1>6, <1>7, <1>8, <1>10, Zenon DEF NumberIsDelivered, s

\* And so is one from a name.
LEMMA NameDelivered ==
    ASSUME NEW smsc \in Seq(0..9), NEW n \in 1..11
    PROVE  LET from == StandardName(n)
               s == Delivered(StandardSmsc(smsc), from, 0)
           IN  /\ from \in Seq(Nat) /\ DeliveredHolds(s, StandardSmsc(smsc), from) /\ EnvelopeIs(s, smsc, from)
               /\ ReadEnvelope(s).from.characters = n
               /\ EndsAsWritten(s, Len(StandardSmsc(smsc)) + 2, Len(from), TRUE)
<1> DEFINE from == StandardName(n)
           c == StandardSmsc(smsc)
           l == Len(c)
           f == Len(from)
           s == Delivered(c, from, 0)
           there == GetPhone(s, l + 3, FALSE)
<1>1. from \in Seq(Nat) /\ f \in Nat
  <2>1. from \in Seq(Nat)
    BY NameSeq
  <2> QED
    BY <2>1
<1>2. c \in Seq(Nat) /\ l \in Nat
  BY SmscSeq
<1>3. DeliveredHolds(s, c, from)
  <2>1. 0 \in Nat
    OBVIOUS
  <2> HIDE DEF from, c
  <2> QED
    BY <1>1, <1>2, <2>1, DeliverPieces
<1> HIDE DEF s
<1>4. s \in Seq(Nat) /\ LiesAt(s, l + 2, from)
  BY <1>3 DEF DeliveredHolds
<1>5. there = [ok |-> TRUE, next |-> l + 3 + f, characters |-> n]
  <2>1. l + 2 \in Nat /\ (l + 2) + 1 = l + 3
    <3> HIDE DEF l
    <3> QED
      BY <1>2
  <2>2. GetPhone(s, (l + 2) + 1, FALSE) = [ok |-> TRUE, next |-> (l + 2) + 1 + f, characters |-> n]
    <3> HIDE DEF l
    <3> QED
      BY <1>4, <2>1, NamePhone
  <2> HIDE DEF l, f
  <2> QED
    BY <2>1, <2>2
<1>9. SenderEnds(s, l + 3, l + 3 + f) /\ AddressClass(s, l + 3) = 5
  <2>1. (l + 2) + 1 = l + 3 /\ (l + 2) + 1 + f = l + 3 + f /\ l + 2 \in Nat
    <3> HIDE DEF l, f
    <3> QED
      BY <1>1, <1>2
  <2> DEFINE p == l + 2
  <2>2. p \in Nat /\ LiesAt(s, p, from)
    BY <1>4, <2>1
  <2>5. p + 1 = l + 3 /\ p + 1 + f = l + 3 + f
    BY <2>1
  <2> HIDE DEF p
  <2>4. SenderEnds(s, p + 1, p + 1 + f) /\ AddressClass(s, p + 1) = 5
    BY <1>4, <2>2, NamePhone
  <2> HIDE DEF l, f
  <2> QED
    BY <2>4, <2>5
<1>6. there.ok /\ there.next = l + 3 + f /\ there.characters = n
  <2> HIDE DEF there, l, f
  <2> QED
    BY <1>5
<1>7. EnvelopeIs(s, smsc, from)
  <2> HIDE DEF from
  <2> QED
    BY <1>1, <1>3, <1>6, EnvelopeGoes
<1>8. ReadEnvelope(s).from = there
  BY <1>7 DEF EnvelopeIs
<1>10. EndsAsWritten(s, l + 2, f, TRUE)
  <2> DEFINE name == AddressClass(s, l + 3) = 5
  <2>1. EndsAsWritten(s, l + 2, f, name)
    <3> HIDE DEF from, l, f
    <3>1. l = Len(StandardSmsc(smsc)) /\ f = Len(from)
      BY DEF l, f
    <3> QED
      BY <1>1, <1>2, <1>3, <1>7, <1>9, <3>1, DeliveredCut
  <2>2. name = TRUE
    BY <1>9, Zenon
  <2> HIDE DEF name, l, f, s
  <2> QED
    BY <2>1, <2>2
<1> QED
  BY <1>1, <1>3, <1>6, <1>7, <1>8, <1>10 DEF s

\* The time zone's tens and sign are read, of its units only three bits.
LEMMA ZoneRead ==
    ASSUME NEW tens \in 0..7, NEW units \in 0..9, NEW negative \in BOOLEAN
    PROVE  Zone(units * 16 + Flag(8, negative) + tens) =
                [negative |-> negative,
                 quarters |-> tens * 10 + IF units >= 8 THEN units - 8 ELSE units]
<1> DEFINE flag == Flag(8, negative)
           octet == units * 16 + flag + tens
           high == (octet \div 8) % 2 = 1
           quarters == ((octet \div 16) % 8) + (octet % 8) * 10
           expected == tens * 10 + IF units >= 8 THEN units - 8 ELSE units
<1>1. flag \in {0, 8} /\ (flag = 8 <=> negative)
  BY DEF Flag
<1>2. Zone(octet) = [negative |-> high, quarters |-> quarters]
  BY Zenon DEF Zone
<1>3. (high <=> flag = 8) /\ quarters = expected
  <2> HIDE DEF flag
  <2>1. octet \div 8 = 2 * units + (IF flag = 8 THEN 1 ELSE 0) /\ octet % 8 = tens /\ octet \div 16 = units
    BY <1>1
  <2>2. (2 * units + (IF flag = 8 THEN 1 ELSE 0)) % 2 = (IF flag = 8 THEN 1 ELSE 0)
    BY <1>1
  <2>3. high <=> flag = 8
    BY <2>1, <2>2
  <2>4. quarters = (units % 8) + tens * 10
    BY <2>1
  <2>5. units % 8 = IF units >= 8 THEN units - 8 ELSE units
    OBVIOUS
  <2> HIDE DEF quarters, octet
  <2>6. quarters = expected
    BY <2>4, <2>5
  <2> QED
    BY <2>3, <2>6
<1> HIDE DEF octet, quarters, expected, flag
<1>4. high = negative
  <2>1. high \in BOOLEAN
    OBVIOUS
  <2> HIDE DEF high
  <2> QED
    BY <1>1, <1>3, <2>1, Zenon
<1> HIDE DEF high
<1>5. Zone(octet) = [negative |-> negative, quarters |-> expected]
  BY <1>2, <1>3, <1>4, Zenon
<1> QED
  BY <1>5 DEF octet, expected, flag

\* EndsAsSaid of DeliverIsRead, said of one line.
EndsBut(s, c, untested) ==
    LET end == Len(s) - 3
    IN  /\ ReadEnvelope(s).userData = end + 1
        /\ \A k \in 0..(end - 1) :
            ReadEnvelope(SubSeq(s, 1, k)) = IF k \in {0, 1} \/ k - c \in untested THEN Beyond ELSE NotRead

LEMMA EndsSo ==
    ASSUME NEW s, NEW c, NEW f, NEW name \in BOOLEAN, EndsAsWritten(s, c, f, name)
    PROVE  EndsBut(s, c, IF name THEN {0, 1} \cup 4..(f - 1) ELSE {0, 1})
<1> DEFINE untested == IF name THEN {0, 1} \cup 4..(f - 1) ELSE {0, 1}
<1>1. ASSUME NEW k
      PROVE  Untested(k, c, f, name) <=> k \in {0, 1} \/ k - c \in untested
  BY Zenon DEF Untested
<1> HIDE DEF untested
<1>2. ASSUME NEW k \in 0..((Len(s) - 3) - 1)
      PROVE  ReadEnvelope(SubSeq(s, 1, k)) = IF k \in {0, 1} \/ k - c \in untested THEN Beyond ELSE NotRead
  <2>1. ReadEnvelope(SubSeq(s, 1, k)) = IF Untested(k, c, f, name) THEN Beyond ELSE NotRead
    BY DEF EndsAsWritten
  <2>2. Untested(k, c, f, name) <=> k \in {0, 1} \/ k - c \in untested
    BY <1>1
  <2> QED
    BY <2>1, <2>2, Zenon
<1>3. ReadEnvelope(s).userData = (Len(s) - 3) + 1
  BY DEF EndsAsWritten
<1>4. EndsBut(s, c, untested)
  BY <1>2, <1>3, Zenon DEF EndsBut
<1> QED
  BY <1>4 DEF untested

LEMMA DeliverRead ==
    ASSUME NEW digits \in Seq(0..Other)
    PROVE  DeliverIsRead(digits)
<1> DEFINE smsc == ClearPhoneNo(digits)
           number == Caller(smsc)
           date == Date
           center == Len(StandardSmsc(smsc)) + 2
           Pdu(from, octet) == Delivered(StandardSmsc(smsc), from, octet)
           Dates == [k \in 1..6 |-> <<date[2 * k - 1], date[2 * k]>>]
<1>1. smsc \in Seq(0..9) /\ number \in Seq(0..9) /\ number # <<>>
  BY Cleared, CallerIs
<1>2. ASSUME NEW type \in {129, 145}
      PROVE  LET from == StandardNumber(number, type)
                 e == ReadEnvelope(Pdu(from, 0))
             IN  /\ e.ok /\ e.smsc.number = smsc /\ e.deliver = 4 /\ e.dcs = 8 /\ e.udl = 2
                 /\ e.from.number = number /\ e.from.plus = (type = 145)
                 /\ e.time.date = Dates
                 /\ EndsBut(Pdu(from, 0), center, {0, 1})
  <2> DEFINE from == StandardNumber(number, type)
             s == Pdu(from, 0)
             f == Len(from)
  <2> HIDE DEF smsc, number
  <2>1. /\ EnvelopeIs(s, smsc, from)
        /\ ReadEnvelope(s).from.number = number /\ ReadEnvelope(s).from.plus = (type = 145)
        /\ EndsAsWritten(s, center, f, FALSE)
    <3>1. NumberIsDelivered(smsc, number, type)
      BY <1>1, NumberDelivered
    <3> QED
      BY <3>1, Zenon DEF NumberIsDelivered
  <2> HIDE DEF s, from, f, center
  <2>2. /\ ReadEnvelope(s).ok /\ ReadEnvelope(s).smsc.number = smsc /\ ReadEnvelope(s).deliver = 4
        /\ ReadEnvelope(s).dcs = 8 /\ ReadEnvelope(s).udl = 2 /\ ReadEnvelope(s).time.date = Dates
    BY <2>1 DEF EnvelopeIs
  <2>3. EndsBut(s, center, {0, 1})
    <3>1. FALSE \in BOOLEAN
      OBVIOUS
    <3>2. EndsBut(s, center, IF FALSE THEN {0, 1} \cup 4..(f - 1) ELSE {0, 1})
      BY <2>1, <3>1, EndsSo
    <3> QED
      BY <3>2
  <2> QED
    BY <2>1, <2>2, <2>3 DEF s, from
<1>3. ASSUME NEW n \in 1..11
      PROVE  LET from == StandardName(n)
                 e == ReadEnvelope(Pdu(from, 0))
             IN  /\ e.ok /\ e.from.characters = n /\ e.dcs = 8 /\ e.udl = 2
                 /\ EndsBut(Pdu(from, 0), center, {0, 1} \cup 4..(Len(from) - 1))
  <2> DEFINE from == StandardName(n)
             s == Pdu(from, 0)
             f == Len(from)
  <2> HIDE DEF smsc
  <2>1. /\ EnvelopeIs(s, smsc, from) /\ ReadEnvelope(s).from.characters = n
        /\ EndsAsWritten(s, center, f, TRUE)
    BY <1>1, NameDelivered
  <2> HIDE DEF s, from, f, center
  <2>2. ReadEnvelope(s).ok /\ ReadEnvelope(s).dcs = 8 /\ ReadEnvelope(s).udl = 2
    BY <2>1 DEF EnvelopeIs
  <2>3. EndsBut(s, center, {0, 1} \cup 4..(f - 1))
    <3>1. TRUE \in BOOLEAN
      OBVIOUS
    <3>2. EndsBut(s, center, IF TRUE THEN {0, 1} \cup 4..(f - 1) ELSE {0, 1})
      BY <2>1, <3>1, EndsSo
    <3> QED
      BY <3>2
  <2> QED
    BY <2>1, <2>2, <2>3 DEF s, from, f
<1>5. \A tens \in 0..7, units \in 0..9, negative \in BOOLEAN :
            Zone(units * 16 + Flag(8, negative) + tens) =
                [negative |-> negative,
                 quarters |-> tens * 10 + IF units >= 8 THEN units - 8 ELSE units]
  BY ZoneRead
<1> QED
  BY <1>2, <1>3, <1>5, Zenon DEF DeliverIsRead, Delivered, Date, Caller, EndsBut

\* EnvelopesAreRead, for numbers of any length and headers of any elements: what stands
\* around a text is written and read as GSM 03.40 says, and of every line that ends too early
\* it is said whether an error is returned or memory behind it is read.
THEOREM EnvelopesRead == ISpec => []EnvelopesAreRead
<1>1. InputInv => EnvelopesAreRead
  <2> SUFFICES ASSUME InputInv PROVE EnvelopesAreRead
    OBVIOUS
  <2>1. /\ input.kind \in DOMAIN Most /\ input.data \in Seq(AllSymbols)
        /\ Most[input.kind] \in Nat /\ Len(input.data) \in Nat /\ Len(input.data) <= Most[input.kind]
        /\ \A i \in 1..Len(input.data) : input.data[i] \in Symbols(input.kind, i) /\ i \in 1..Most[input.kind]
    BY InputsAssumption DEF InputInv
  <2>2. ASSUME Of("phone") PROVE SubmitIsUnderstood(input.data) /\ DeliverIsRead(input.data)
    <3>1. input.kind = "phone" /\ "phone" \in DOMAIN Most
      BY <2>1, <2>2 DEF Of
    <3>2. \A i \in 1..Len(input.data) : input.data[i] \in 0..Other
      BY <2>1, <3>1, EnvelopeAssumption
    <3>3. input.data \in Seq(0..Other)
      <4> DEFINE S == 0..Other
      <4>1. \A i \in 1..Len(input.data) : input.data[i] \in S
        BY <3>2
      <4> HIDE DEF S
      <4>2. input.data \in Seq(S)
        BY <2>1, <4>1
      <4> QED
        BY <4>2 DEF S
    <3> QED
      BY <3>3, SubmitUnderstood, DeliverRead
  <2>3. ASSUME Of("header") PROVE ReadToTheLast(input.data) /\ CutIsRefused(input.data)
    <3>1. input.kind = "header" /\ "header" \in DOMAIN Most
      BY <2>1, <2>3 DEF Of
    <3>2. \A i \in 1..Len(input.data) : input.data[i] \in HeaderElements
      BY <2>1, <3>1, EnvelopeAssumption
    <3>3. input.data \in Seq(HeaderElements)
      BY <2>1, <3>2
    <3> QED
      BY <3>3, ReadToLast, CutRefused
  <2> QED
    BY <2>2, <2>3 DEF EnvelopesAreRead
<1> QED
  BY <1>1, InputTypes, PTL
=============================================================================
