--------------------------- MODULE Codecs_proofs ----------------------------
(***************************************************************************)
(* Proofs about what MCCodecs runs.                                        *)
(*                                                                         *)
(* SmsText, for any text of any length and any lengths of the parts: what  *)
(* has been cut and decoded is related to the text through a table of      *)
(* where the septets of each character end.  SeptetPacking, for any number *)
(* of septets, and MmiCode, for any code.  StartUp with ConfigLoader, for  *)
(* any configuration file, arguments and log: each loop is related to what *)
(* the lines, arguments or symbols so far say.  The halves of SendExpect:  *)
(* SerialLine, for any clock, timeout, length of a command and number of   *)
(* commands, and AnswerMatcher, for any samples and characters.            *)
(*                                                                         *)
(* The invariant of the line says how far the clock stands behind the      *)
(* beginning of the call, in turns of the clock, and that the octets on    *)
(* the line are beginnings of commands, in order, whole where PutBlock     *)
(* reported it.  That of the matcher says that each counter is what the    *)
(* text ends with, and that no beginning of a line is counted wrong.       *)
(***************************************************************************)
EXTENDS SmsText, MmiCode, StartUp, SerialLine, AnswerMatcher, Integers,
        FiniteSetTheorems, SequenceTheorems, WellFoundedInduction, TLAPS

-----------------------------------------------------------------------------
(* The inputs of the pure algorithms.                                      *)

AllSymbols == UNION {Symbols(kind, place) : kind \in DOMAIN Most, place \in Nat}
InputInv ==
    /\ input \in [kind : DOMAIN Most, data : Seq(AllSymbols)]
    /\ Len(input.data) <= Most[input.kind]
    /\ \A i \in 1..Len(input.data) : input.data[i] \in Symbols(input.kind, i)

THEOREM InputTypes == ISpec => []InputInv
<1>1. IInit => InputInv
  <2> SUFFICES ASSUME IInit PROVE InputInv
    OBVIOUS
  <2>1. <<>> \in Seq(AllSymbols) /\ Len(<<>>) = 0
    OBVIOUS
  <2>2. input.kind \in DOMAIN Most /\ input.data = <<>> /\ input \in [kind : DOMAIN Most, data : Seq(AllSymbols)]
    BY <2>1 DEF IInit
  <2>3. Most[input.kind] \in Nat
    BY <2>2, InputsAssumption
  <2> QED
    BY <2>1, <2>2, <2>3 DEF InputInv
<1>2. InputInv /\ [INext]_input => InputInv'
  <2> SUFFICES ASSUME InputInv, [INext]_input PROVE InputInv'
    OBVIOUS
  <2>1. /\ input \in [kind : DOMAIN Most, data : Seq(AllSymbols)]
        /\ input.kind \in DOMAIN Most /\ input.data \in Seq(AllSymbols)
        /\ Len(input.data) \in Nat /\ Most[input.kind] \in Nat
        /\ Len(input.data) <= Most[input.kind]
        /\ \A i \in 1..Len(input.data) : input.data[i] \in Symbols(input.kind, i)
    BY InputsAssumption DEF InputInv
  <2>2. CASE Grow
    <3>1. PICK s \in Symbols(input.kind, Len(input.data) + 1) : input' = [input EXCEPT !.data = Append(@, s)]
      BY <2>2 DEF Grow
    <3>2. s \in AllSymbols
      BY <2>1, <3>1 DEF AllSymbols
    <3> DEFINE n == Len(input.data)
               d == Append(input.data, s)
    <3>3. input'.kind = input.kind /\ input'.data = d
          /\ (d \in Seq(AllSymbols) => input' \in [kind : DOMAIN Most, data : Seq(AllSymbols)])
      BY <2>1, <3>1
    <3>4. d \in Seq(AllSymbols) /\ Len(d) = n + 1 /\ \A i \in 1..(n + 1) : d[i] = IF i <= n THEN input.data[i] ELSE s
      BY <2>1, <3>2
    <3>5. n + 1 <= Most[input.kind]
      BY <2>1, <2>2 DEF Grow
    <3>6. \A i \in 1..(n + 1) : d[i] \in Symbols(input.kind, i)
      <4> TAKE i \in 1..(n + 1)
      <4>1. (i <= n /\ i \in 1..n) \/ (~(i <= n) /\ i = n + 1)
        BY <2>1
      <4> QED
        BY <2>1, <3>1, <3>4, <4>1
    <3> HIDE DEF n, d
    <3> QED
      BY <3>3, <3>4, <3>5, <3>6 DEF InputInv
  <2>3. CASE StartOver
    <3>1. input' = [input EXCEPT !.data = <<>>] /\ <<>> \in Seq(AllSymbols) /\ Len(<<>>) = 0
      BY <2>3 DEF StartOver
    <3>2. input'.kind = input.kind /\ input'.data = <<>> /\ input' \in [kind : DOMAIN Most, data : Seq(AllSymbols)]
      BY <2>1, <3>1
    <3> QED
      BY <2>1, <3>1, <3>2 DEF InputInv
  <2>4. CASE UNCHANGED input
    BY <2>4 DEF InputInv
  <2> QED
    BY <2>2, <2>3, <2>4 DEF INext
<1> QED
  BY <1>1, <1>2, PTL DEF ISpec

-----------------------------------------------------------------------------
(* Septets.                                                                *)

\* A bit of a text, or none.
BitValues == (Nat \X Nat) \cup {Zero}
SeptetValues == [Septet -> BitValues]
OctetValues == [Octet -> BitValues]

LEMMA TextSeptets ==
    ASSUME NEW n \in Nat
    PROVE  /\ Text(n) \in Seq(SeptetValues) /\ Len(Text(n)) = n
           /\ \A i \in 1..n : Text(n)[i] = [c \in Septet |-> <<i, c>>]
  BY DEF Text, Septet, SeptetValues, BitValues

\* Behind g whole groups, which end at start, s has a group of m.
GroupAt(S, s, size, g, start, m) ==
    /\ s \in Seq(S) /\ size \in {7, 8} /\ g \in Nat /\ start \in Nat /\ m \in Nat
    /\ start = g * size /\ start < Len(s)
    /\ m = IF start + size <= Len(s) THEN size ELSE Len(s) - start

\* It is among the groups of s.
Grouped(S, s, size, g, start, m) ==
    /\ Len(Groups(s, size)) = (Len(s) + size - 1) \div size
    /\ g + 1 \in 1..Len(Groups(s, size))
    /\ Groups(s, size)[g + 1] \in Seq(S)
    /\ Len(Groups(s, size)[g + 1]) = m
    /\ \A k \in 1..m : Groups(s, size)[g + 1][k] = s[start + k]

\* One group of a sequence.
LEMMA OneGroup ==
    ASSUME NEW S, NEW s, NEW size, NEW g, NEW start, NEW m, GroupAt(S, s, size, g, start, m)
    PROVE  Grouped(S, s, size, g, start, m)
<1> USE DEF GroupAt
<1> DEFINE last == IF start + size <= Len(s) THEN start + size ELSE Len(s)
           count == (Len(s) + size - 1) \div size
<1>1. Len(s) \in Nat /\ last \in Nat /\ m = last - start /\ start + 1 \in 1..Len(s)
  <2>1. Len(s) \in Nat
    OBVIOUS
  <2>2. size \in Nat /\ start + 1 \in 1..Len(s)
    BY <2>1
  <2>3. CASE start + size <= Len(s)
    BY <2>1, <2>2, <2>3
  <2>4. CASE ~ (start + size <= Len(s))
    <3>1. last = Len(s)
      BY <2>4
    <3>2. m = Len(s) - start
      BY <2>4
    <3> QED
      BY <2>1, <2>2, <3>1, <3>2
  <2> QED
    BY <2>3, <2>4
<1>2. Groups(s, size) = [i \in 1..count |->
          SubSeq(s, (i - 1) * size + 1, IF i * size <= Len(s) THEN i * size ELSE Len(s))]
  BY DEF Groups
<1>3. count \in Nat /\ g + 1 \in 1..count
  <2>1. CASE size = 7
    BY <1>1, <2>1
  <2>2. CASE size = 8
    BY <1>1, <2>2
  <2> QED
    BY <2>1, <2>2
<1> HIDE DEF count
<1>4. ((g + 1) - 1) * size = start /\ (g + 1) * size = start + size
  OBVIOUS
<1>5. Groups(s, size)[g + 1] = SubSeq(s, start + 1, last)
  BY <1>2, <1>3, <1>4
<1>6. Len(Groups(s, size)) = count
  BY <1>2, <1>3
<1>7. /\ SubSeq(s, start + 1, last) \in Seq(S)
      /\ Len(SubSeq(s, start + 1, last)) = m
      /\ \A k \in 1..m : SubSeq(s, start + 1, last)[k] = s[start + k]
  <2> HIDE DEF last
  <2>1. last <= Len(s) /\ start + 1 <= last + 1
    BY <1>1 DEF last
  <2>2. SubSeq(s, start + 1, last) \in Seq(S)
    BY <1>1, <2>1, SubSeqProperties
  <2>3. Len(SubSeq(s, start + 1, last)) = m
    BY <1>1, <2>1, SubSeqProperties
  <2>4. ASSUME NEW k \in 1..m
        PROVE  SubSeq(s, start + 1, last)[k] = s[start + k]
    <3>1. SubSeq(s, start + 1, last)[k] = s[(start + 1) + k - 1]
      BY <1>1, <2>1, SubSeqProperties
    <3>2. (start + 1) + k - 1 = start + k
      OBVIOUS
    <3> QED
      BY <3>1, <3>2
  <2> QED
    BY <2>2, <2>3, <2>4
<1> QED
  BY <1>3, <1>5, <1>6, <1>7 DEF count, Grouped

\* s has len septets, which fill size octets.
PacksInto(s, len, size) ==
    /\ s \in Seq(SeptetValues) /\ len \in 1..8 /\ Len(s) = len
    /\ size \in Nat /\ size = IF len = 8 THEN 7 ELSE len

Filled(s, len, size) ==
    /\ EncodeStep(s) \in Seq(OctetValues) /\ Len(EncodeStep(s)) = size
    /\ \A k \in 1..size, b \in Octet :
         EncodeStep(s)[k][b] = IF b <= 7 - k THEN s[k][b + k - 1]
                               ELSE IF k < len THEN s[k + 1][b - (8 - k)] ELSE Zero

\* What a group of septets is packed into.
LEMMA OneStep ==
    ASSUME NEW s, NEW len, NEW size, PacksInto(s, len, size)
    PROVE  Filled(s, len, size)
<1> USE DEF PacksInto
<1> DEFINE bit(k, b) == IF b <= 7 - k THEN s[k][b + k - 1]
                        ELSE IF k < len THEN s[k + 1][b - (8 - k)] ELSE Zero
<1>1. EncodeStep(s) = [k \in 1..size |-> [b \in Octet |-> bit(k, b)]]
  BY DEF EncodeStep
<1>2. ASSUME NEW k \in 1..size, NEW b \in Octet
      PROVE  bit(k, b) \in BitValues
  <2>1. k \in 1..7 /\ k \in 1..len /\ b \in 0..7
    BY DEF Octet
  <2>2. CASE b <= 7 - k
    <3>1. s[k] \in SeptetValues /\ b + k - 1 \in Septet
      BY <2>1, <2>2 DEF Septet
    <3> QED
      BY <2>2, <3>1 DEF SeptetValues
  <2>3. CASE ~ (b <= 7 - k) /\ k < len
    <3>1. s[k + 1] \in SeptetValues /\ b - (8 - k) \in Septet
      BY <2>1, <2>3 DEF Septet
    <3> QED
      BY <2>3, <3>1 DEF SeptetValues
  <2>4. CASE ~ (b <= 7 - k) /\ ~ (k < len)
    BY <2>4 DEF BitValues
  <2> QED
    BY <2>2, <2>3, <2>4
<1> HIDE DEF bit
<1>3. ASSUME NEW k \in 1..size PROVE [b \in Octet |-> bit(k, b)] \in OctetValues
  BY <1>2 DEF OctetValues
<1>4. EncodeStep(s) \in Seq(OctetValues) /\ Len(EncodeStep(s)) = size
  BY <1>1, <1>3
<1>5. ASSUME NEW k \in 1..size, NEW b \in Octet PROVE EncodeStep(s)[k][b] = bit(k, b)
  BY <1>1
<1> QED
  BY <1>4, <1>5 DEF bit, Filled

\* The bits of septets one behind the other.
Stream(s, y) == IF y < 7 * Len(s) THEN s[(y \div 7) + 1][y % 7] ELSE Zero

\* Where an octet of the packed text stands: k-th in the group behind g whole ones.
LEMMA PlaceOfOctet ==
    ASSUME NEW n \in Nat \ {0}, NEW x \in 1..((7 * n + 7) \div 8)
    PROVE  \E g \in Nat, len \in 1..8 : \E k \in 1..(IF len = 8 THEN 7 ELSE len) :
             /\ g = (x - 1) \div 7 /\ k = ((x - 1) % 7) + 1 /\ x = 7 * g + k
             /\ 8 * g < n /\ len = IF 8 * g + 8 <= n THEN 8 ELSE n - 8 * g
<1> DEFINE g == (x - 1) \div 7
           k == ((x - 1) % 7) + 1
           len == IF 8 * g + 8 <= n THEN 8 ELSE n - 8 * g
<1>1. g \in Nat /\ k \in 1..7 /\ x = 7 * g + k
  OBVIOUS
<1> HIDE DEF g, k
<1>2. 8 * x <= 7 * n + 7
  OBVIOUS
<1>3. 8 * g < n
  BY <1>1, <1>2
<1>4. len \in 1..8 /\ k <= len
  BY <1>1, <1>2, <1>3
<1>5. k \in 1..(IF len = 8 THEN 7 ELSE len)
  BY <1>1, <1>4
<1> QED
  BY <1>1, <1>3, <1>4, <1>5 DEF g, k

\* encode7bit lays the bits of the septets one behind the other.
LEMMA Packed ==
    ASSUME NEW s \in Seq(SeptetValues), NEW n \in Nat, Len(s) = n
    PROVE  Encode7bit(s) = [x \in 1..((7 * n + 7) \div 8) |-> [b \in Octet |-> Stream(s, 8 * (x - 1) + b)]]
<1> DEFINE groups == Groups(s, 8)
           blocks == [i \in DOMAIN groups |-> EncodeStep(groups[i])]
<1>0. CASE n = 0
  <2>1. groups = <<>> /\ blocks = <<>>
    BY <1>0 DEF Groups
  <2>2. Encode7bit(s) = <<>>
    BY <2>1 DEF Encode7bit, Joined
  <2>3. (7 * n + 7) \div 8 = 0
    BY <1>0
  <2> QED
    BY <2>2, <2>3
<1>1. CASE n # 0
  <2> DEFINE GroupOf(g, len, size) ==
                 /\ 8 * g < n /\ len = IF 8 * g + 8 <= n THEN 8 ELSE n - 8 * g
                 /\ size = IF len = 8 THEN 7 ELSE len
  <2>1. ASSUME NEW g \in Nat, NEW len \in 1..8, NEW size \in Nat, GroupOf(g, len, size)
        PROVE  /\ Len(groups) = (n + 7) \div 8 /\ g + 1 \in DOMAIN groups
               /\ groups[g + 1] \in Seq(SeptetValues) /\ Len(groups[g + 1]) = len
               /\ \A k \in 1..len : groups[g + 1][k] = s[8 * g + k]
               /\ blocks[g + 1] \in Seq(OctetValues) /\ Len(blocks[g + 1]) = size
               /\ blocks[g + 1] = EncodeStep(groups[g + 1])
    <3>1. /\ Len(groups) = (n + 8 - 1) \div 8
          /\ g + 1 \in 1..Len(groups) /\ groups[g + 1] \in Seq(SeptetValues)
          /\ Len(groups[g + 1]) = len /\ \A k \in 1..len : groups[g + 1][k] = s[8 * g + k]
      <4> DEFINE start == 8 * g
      <4>1. start \in Nat /\ start = g * 8 /\ start < Len(s) /\ len = IF start + 8 <= Len(s) THEN 8 ELSE Len(s) - start
        BY <2>1
      <4> HIDE DEF start, groups, blocks
      <4>2. /\ Len(Groups(s, 8)) = (Len(s) + 8 - 1) \div 8
            /\ g + 1 \in 1..Len(Groups(s, 8)) /\ Groups(s, 8)[g + 1] \in Seq(SeptetValues)
            /\ Len(Groups(s, 8)[g + 1]) = len
            /\ \A k \in 1..len : Groups(s, 8)[g + 1][k] = s[start + k]
        <5>1. GroupAt(SeptetValues, s, 8, g, start, len)
          BY <4>1 DEF GroupAt
        <5>2. Grouped(SeptetValues, s, 8, g, start, len)
          BY <5>1, OneGroup, Zenon
        <5> QED
          BY <5>2 DEF Grouped
      <4> QED
        BY <4>2 DEF start, groups
    <3>2. groups = [i \in 1..((Len(s) + 8 - 1) \div 8) |->
              SubSeq(s, (i - 1) * 8 + 1, IF i * 8 <= Len(s) THEN i * 8 ELSE Len(s))]
      BY DEF Groups
    <3>3. g + 1 \in DOMAIN groups
      BY <3>1, <3>2
    <3> HIDE DEF groups
    <3>4. blocks[g + 1] = EncodeStep(groups[g + 1])
      BY <3>3
    <3> HIDE DEF blocks
    <3>5. blocks[g + 1] \in Seq(OctetValues) /\ Len(blocks[g + 1]) = size
      <4>1. PacksInto(groups[g + 1], len, size)
        BY <2>1, <3>1 DEF PacksInto
      <4> QED
        BY <3>4, <4>1, OneStep DEF Filled
    <3>6. Len(groups) = (n + 7) \div 8
      BY <3>1
    <3> HIDE DEF GroupOf
    <3> QED
      BY <3>1, <3>3, <3>4, <3>5, <3>6, Zenon
  <2>2. DOMAIN groups = 1..((n + 7) \div 8) /\ Len(blocks) = (n + 7) \div 8
    BY DEF Groups
  <2>3. PICK last \in Nat, r \in 1..8 : n = 8 * last + r /\ (n + 7) \div 8 = last + 1
    <3>1. (n - 1) \div 8 \in Nat /\ n - 8 * ((n - 1) \div 8) \in 1..8
      BY <1>1
    <3>2. (n + 7) \div 8 = ((n - 1) \div 8) + 1
      BY <1>1
    <3> QED
      BY <3>1, <3>2
  <2> DEFINE size == IF r = 8 THEN 7 ELSE r
  <2>4. Len(blocks[Len(blocks)]) = size /\ blocks # <<>>
    <3> HIDE DEF groups, blocks
    <3>1. 8 * last < n /\ r = IF 8 * last + 8 <= n THEN 8 ELSE n - 8 * last
      BY <2>3
    <3>2. size \in Nat /\ size = IF r = 8 THEN 7 ELSE r
      OBVIOUS
    <3>4. GroupOf(last, r, size)
      BY <3>1, <3>2
    <3> HIDE DEF size, GroupOf
    <3>3. Len(blocks[last + 1]) = size
      BY <2>1, <2>3, <3>4, <3>2
    <3>5. Len(blocks) = last + 1 /\ last + 1 # 0
      BY <2>2, <2>3
    <3> QED
      BY <3>3, <3>5
  <2>5. last * 7 + size = (7 * n + 7) \div 8
    BY <2>3
  <2> HIDE DEF size
  <2>6. Encode7bit(s) = [x \in 1..((7 * n + 7) \div 8) |-> blocks[((x - 1) \div 7) + 1][((x - 1) % 7) + 1]]
    <3>1. Encode7bit(s) = Joined(blocks, 7)
      BY DEF Encode7bit
    <3>2. (Len(blocks) - 1) * 7 + Len(blocks[Len(blocks)]) = (7 * n + 7) \div 8
      <4> HIDE DEF groups, blocks
      <4>1. Len(blocks) = last + 1 /\ (last + 1) - 1 = last
        BY <2>2, <2>3
      <4> QED
        BY <2>4, <2>5, <4>1
    <3> HIDE DEF groups, blocks
    <3> QED
      BY <2>4, <3>1, <3>2 DEF Joined
  <2> HIDE DEF groups, blocks
  <2>7. ASSUME NEW x \in 1..((7 * n + 7) \div 8)
        PROVE  blocks[((x - 1) \div 7) + 1][((x - 1) % 7) + 1] = [b \in Octet |-> Stream(s, 8 * (x - 1) + b)]
    <3>1. PICK g \in Nat, len \in 1..8 : \E k \in 1..(IF len = 8 THEN 7 ELSE len) :
              /\ g = (x - 1) \div 7 /\ k = ((x - 1) % 7) + 1 /\ x = 7 * g + k
              /\ 8 * g < n /\ len = IF 8 * g + 8 <= n THEN 8 ELSE n - 8 * g
      BY <1>1, PlaceOfOctet
    <3>2. PICK k \in 1..(IF len = 8 THEN 7 ELSE len) :
              /\ g = (x - 1) \div 7 /\ k = ((x - 1) % 7) + 1 /\ x = 7 * g + k
              /\ 8 * g < n /\ len = IF 8 * g + 8 <= n THEN 8 ELSE n - 8 * g
      BY <3>1
    <3> DEFINE sz == IF len = 8 THEN 7 ELSE len
    <3>3. sz \in Nat /\ k \in 1..sz /\ k \in 1..7 /\ k <= len /\ sz = IF len = 8 THEN 7 ELSE len
      OBVIOUS
    <3> HIDE DEF sz
    <3>4. /\ groups[g + 1] \in Seq(SeptetValues) /\ Len(groups[g + 1]) = len
          /\ \A j \in 1..len : groups[g + 1][j] = s[8 * g + j]
          /\ blocks[g + 1] \in Seq(OctetValues) /\ Len(blocks[g + 1]) = sz
          /\ blocks[g + 1] = EncodeStep(groups[g + 1])
      <4>1. GroupOf(g, len, sz)
        BY <3>2, <3>3
      <4> HIDE DEF GroupOf
      <4> QED
        BY <2>1, <3>3, <4>1
    <3>5. blocks[g + 1][k] \in OctetValues
      BY <3>3, <3>4
    <3>6. ASSUME NEW b \in Octet PROVE blocks[g + 1][k][b] = Stream(s, 8 * (x - 1) + b)
      <4> DEFINE gr == groups[g + 1]
                 y == 8 * (x - 1) + b
      <4>1. EncodeStep(gr)[k][b] = IF b <= 7 - k THEN gr[k][b + k - 1]
                                   ELSE IF k < len THEN gr[k + 1][b - (8 - k)] ELSE Zero
        <5> HIDE DEF gr
        <5>1. gr \in Seq(SeptetValues) /\ Len(gr) = len
          BY <3>4 DEF gr
        <5>2. PacksInto(gr, len, sz)
          BY <3>3, <5>1 DEF PacksInto
        <5> QED
          BY <3>3, <5>2, OneStep DEF Filled
      <4>2. b \in 0..7 /\ y = 56 * g + 8 * (k - 1) + b
        BY <3>2 DEF Octet
      <4>3. CASE b <= 7 - k
        <5>1. gr[k] = s[8 * g + k]
          BY <3>3, <3>4
        <5>2. y = 7 * (8 * g + k - 1) + (b + k - 1) /\ b + k - 1 \in 0..6
          BY <3>3, <4>2, <4>3
        <5>3. y \div 7 = 8 * g + k - 1 /\ y % 7 = b + k - 1
          BY <5>2
        <5>4. y < 7 * n
          BY <5>2, <3>2, <3>3
        <5> HIDE DEF y
        <5>5. (y \div 7) + 1 = 8 * g + k
          BY <5>3
        <5>6. Stream(s, y) = s[8 * g + k][b + k - 1]
          BY <5>3, <5>4, <5>5 DEF Stream
        <5> QED
          BY <3>4, <4>1, <4>3, <5>1, <5>6 DEF y
      <4>4. CASE ~ (b <= 7 - k)
        <5>2. y = 7 * (8 * g + k) + (b - (8 - k)) /\ b - (8 - k) \in 0..6
          BY <3>3, <4>2, <4>4
        <5>3. y \div 7 = 8 * g + k /\ y % 7 = b - (8 - k)
          BY <5>2
        <5>4. CASE k < len
          <6>1. gr[k + 1] = s[8 * g + (k + 1)] /\ 8 * g + (k + 1) = 8 * g + k + 1
            BY <3>3, <3>4, <5>4
          <6>2. y < 7 * n
            BY <5>2, <3>2, <5>4
          <6> HIDE DEF y
          <6>3. Stream(s, y) = s[8 * g + k + 1][b - (8 - k)]
            BY <5>3, <6>2 DEF Stream
          <6> QED
            BY <3>4, <4>1, <4>4, <5>4, <6>1, <6>3 DEF y
        <5>5. CASE ~ (k < len)
          <6>1. k = len /\ len # 8
            BY <3>3, <5>5
          <6>2. ~ (y < 7 * n)
            BY <5>2, <3>2, <6>1
          <6> HIDE DEF y
          <6>3. Stream(s, y) = Zero
            BY <6>2 DEF Stream
          <6> QED
            BY <3>4, <4>1, <4>4, <5>5, <6>3 DEF y
        <5> QED
          BY <5>4, <5>5
      <4> QED
        BY <4>3, <4>4
    <3>7. blocks[g + 1][k] = [b \in Octet |-> blocks[g + 1][k][b]]
      BY <3>5 DEF OctetValues
    <3>8. blocks[g + 1][k] = [b \in Octet |-> Stream(s, 8 * (x - 1) + b)]
      BY <3>6, <3>7
    <3> QED
      BY <3>2, <3>8
  <2> QED
    BY <2>6, <2>7
<1> QED
  BY <1>0, <1>1

LEMMA StreamOfText ==
    ASSUME NEW n \in Nat, NEW y \in Nat
    PROVE  Stream(Text(n), y) = IF y < 7 * n THEN <<(y \div 7) + 1, y % 7>> ELSE Zero
<1>1. CASE y < 7 * n
  <2>1. (y \div 7) + 1 \in 1..n /\ y % 7 \in Septet
    BY <1>1 DEF Septet
  <2>2. Text(n)[(y \div 7) + 1] = [c \in Septet |-> <<(y \div 7) + 1, c>>]
    BY <2>1, TextSeptets
  <2>3. Text(n)[(y \div 7) + 1][y % 7] = <<(y \div 7) + 1, y % 7>>
    BY <2>1, <2>2
  <2>4. Stream(Text(n), y) = Text(n)[(y \div 7) + 1][y % 7]
    BY <1>1, TextSeptets DEF Stream
  <2> QED
    BY <1>1, <2>3, <2>4
<1>2. CASE ~ (y < 7 * n)
  BY <1>2, TextSeptets DEF Stream
<1> QED
  BY <1>1, <1>2

\* The octets of the standard, behind a header that ends on a septet boundary or one
\* bit before it.
LEMMA StandardOctets ==
    ASSUME NEW n \in Nat, NEW h \in Nat, NEW pad \in {0, 1}, PadBits(h) = pad
    PROVE  /\ Standard(n, h) \in Seq([Octet -> BitValues]) /\ Len(Standard(n, h)) = (pad + 7 * n + 7) \div 8
           /\ \A k \in 1..((pad + 7 * n + 7) \div 8), b \in Octet :
                LET x == 8 * (k - 1) + b
                IN  Standard(n, h)[k][b] = IF x < pad \/ x >= pad + 7 * n THEN Zero
                                           ELSE <<((x - pad) \div 7) + 1, (x - pad) % 7>>
<1> DEFINE size == (pad + 7 * n + 7) \div 8
           bit(x) == IF x < pad \/ x >= pad + 7 * n THEN Zero ELSE <<((x - pad) \div 7) + 1, (x - pad) % 7>>
<1>1. Standard(n, h) = [k \in 1..size |-> [b \in Octet |-> bit(8 * (k - 1) + b)]]
  BY DEF Standard
<1>2. size \in Nat
  OBVIOUS
<1> HIDE DEF size
<1>3. ASSUME NEW k \in 1..size, NEW b \in Octet PROVE bit(8 * (k - 1) + b) \in BitValues
  <2>1. b \in Nat /\ 8 * (k - 1) + b \in Nat
    BY <1>2 DEF Octet
  <2> DEFINE x == 8 * (k - 1) + b
  <2>2. CASE x < pad \/ x >= pad + 7 * n
    BY <2>2 DEF BitValues
  <2>3. CASE ~ (x < pad \/ x >= pad + 7 * n)
    <3> HIDE DEF x
    <3>1. x - pad \in Nat
      BY <2>1, <2>3 DEF x
    <3>2. ((x - pad) \div 7) + 1 \in Nat /\ (x - pad) % 7 \in Nat
      BY <3>1
    <3> QED
      BY <2>3, <3>2 DEF BitValues, x
  <2> QED
    BY <2>2, <2>3
<1> HIDE DEF bit
<1>4. ASSUME NEW k \in 1..size PROVE [b \in Octet |-> bit(8 * (k - 1) + b)] \in [Octet -> BitValues]
  BY <1>3
<1>5. Standard(n, h) \in Seq([Octet -> BitValues]) /\ Len(Standard(n, h)) = size
  BY <1>1, <1>2, <1>4
<1>6. \A k \in 1..size, b \in Octet : Standard(n, h)[k][b] = bit(8 * (k - 1) + b)
  BY <1>1
<1> QED
  BY <1>5, <1>6 DEF size, bit

LEMMA Pads == PadBits(0) = 0 /\ PadBits(6) = 1 /\ PadBits(7) = 0 /\ PadBits(13) = 1
  BY DEF PadBits

\* Two sequences of octets of the same length are equal if all their bits are.
LEMMA SameOctets ==
    ASSUME NEW S, NEW o \in Seq([Octet -> S]), NEW q \in Seq([Octet -> S]), Len(o) = Len(q),
           \A k \in 1..Len(o), b \in Octet : o[k][b] = q[k][b]
    PROVE  o = q
<1>1. ASSUME NEW k \in 1..Len(o) PROVE o[k] = q[k]
  <2>1. o[k] \in [Octet -> S] /\ q[k] \in [Octet -> S]
    OBVIOUS
  <2> QED
    BY <2>1
<1> QED
  BY <1>1

LEMMA EncodedOctets ==
    ASSUME NEW s \in Seq(SeptetValues)
    PROVE  /\ Encode7bit(s) \in Seq([Octet -> BitValues])
           /\ Len(Encode7bit(s)) = (7 * Len(s) + 7) \div 8
           /\ \A x \in 1..((7 * Len(s) + 7) \div 8), b \in Octet :
                Encode7bit(s)[x][b] = Stream(s, 8 * (x - 1) + b)
<1> DEFINE size == (7 * Len(s) + 7) \div 8
<1>1. Encode7bit(s) = [x \in 1..size |-> [b \in Octet |-> Stream(s, 8 * (x - 1) + b)]]
  BY Packed
<1>2. size \in Nat /\ Len(s) \in Nat
  OBVIOUS
<1> HIDE DEF size
<1>3. ASSUME NEW x \in 1..size, NEW b \in Octet PROVE Stream(s, 8 * (x - 1) + b) \in BitValues
  <2> DEFINE y == 8 * (x - 1) + b
  <2>1. y \in Nat
    BY <1>2 DEF Octet
  <2> HIDE DEF y
  <2>2. CASE y < 7 * Len(s)
    <3>1. (y \div 7) + 1 \in 1..Len(s) /\ y % 7 \in Septet
      BY <1>2, <2>1, <2>2 DEF Septet
    <3>2. s[(y \div 7) + 1] \in SeptetValues
      BY <3>1
    <3>3. s[(y \div 7) + 1][y % 7] \in BitValues
      BY <3>1, <3>2 DEF SeptetValues
    <3>4. Stream(s, y) = s[(y \div 7) + 1][y % 7]
      BY <2>2 DEF Stream
    <3> QED
      BY <3>3, <3>4 DEF y
  <2>3. CASE ~ (y < 7 * Len(s))
    <3>1. Stream(s, y) = Zero
      BY <2>3 DEF Stream
    <3> QED
      BY <3>1 DEF y, BitValues
  <2> QED
    BY <2>2, <2>3
<1>4. ASSUME NEW x \in 1..size PROVE [b \in Octet |-> Stream(s, 8 * (x - 1) + b)] \in [Octet -> BitValues]
  BY <1>3
<1>5. Encode7bit(s) \in Seq([Octet -> BitValues]) /\ Len(Encode7bit(s)) = size
  BY <1>1, <1>2, <1>4
<1>6. \A x \in 1..size, b \in Octet : Encode7bit(s)[x][b] = Stream(s, 8 * (x - 1) + b)
  BY <1>1
<1> QED
  BY <1>5, <1>6 DEF size

\* What is sent is laid out as the standard says, with and without a header.
LEMMA AllPacked ==
    ASSUME NEW n \in Nat
    PROVE  PackedAsStandard(n)
<1>1. Text(n) \in Seq(SeptetValues) /\ Len(Text(n)) = n
  BY TextSeptets
<1>2. Encode7bit(Text(n)) = Standard(n, 0)
  <2> DEFINE size == (7 * n + 7) \div 8
  <2>1. /\ Encode7bit(Text(n)) \in Seq([Octet -> BitValues]) /\ Len(Encode7bit(Text(n))) = size
        /\ \A x \in 1..size, b \in Octet : Encode7bit(Text(n))[x][b] = Stream(Text(n), 8 * (x - 1) + b)
    BY <1>1, EncodedOctets
  <2>2. /\ Standard(n, 0) \in Seq([Octet -> BitValues]) /\ Len(Standard(n, 0)) = (0 + 7 * n + 7) \div 8
        /\ \A k \in 1..((0 + 7 * n + 7) \div 8), b \in Octet :
             LET x == 8 * (k - 1) + b
             IN  Standard(n, 0)[k][b] = IF x < 0 \/ x >= 0 + 7 * n THEN Zero
                                        ELSE <<((x - 0) \div 7) + 1, (x - 0) % 7>>
    BY Pads, StandardOctets
  <2>3. (0 + 7 * n + 7) \div 8 = size /\ size \in Nat
    OBVIOUS
  <2> HIDE DEF size
  <2>4. ASSUME NEW k \in 1..size, NEW b \in Octet
        PROVE  Encode7bit(Text(n))[k][b] = Standard(n, 0)[k][b]
    <3> DEFINE x == 8 * (k - 1) + b
    <3>1. x \in Nat
      BY <2>3 DEF Octet
    <3>2. Encode7bit(Text(n))[k][b] = Stream(Text(n), x)
      BY <2>1
    <3>3. Standard(n, 0)[k][b] = IF x < 0 \/ x >= 0 + 7 * n THEN Zero
                                 ELSE <<((x - 0) \div 7) + 1, (x - 0) % 7>>
      BY <2>2, <2>3
    <3> HIDE DEF x
    <3>4. Stream(Text(n), x) = IF x < 7 * n THEN <<(x \div 7) + 1, x % 7>> ELSE Zero
      BY <3>1, StreamOfText
    <3> QED
      BY <3>1, <3>2, <3>3, <3>4
  <2> QED
    BY <2>1, <2>2, <2>3, <2>4, SameOctets
<1>3. ASSUME n > 0
      PROVE  EncodeBehindUdh(Text(n)) = Standard(n, 6)
  <2> DEFINE t == Tail(Text(n))
             size == (7 * (n - 1) + 7) \div 8
             first == [b \in Octet |-> IF b = 0 THEN Zero ELSE Text(n)[1][b - 1]]
             o == EncodeBehindUdh(Text(n))
  <2>1. /\ t \in Seq(SeptetValues) /\ Len(t) = n - 1
        /\ \A i \in 1..(n - 1) : t[i] = Text(n)[i + 1]
    BY <1>1, <1>3
  <2>2. /\ Encode7bit(t) \in Seq([Octet -> BitValues]) /\ Len(Encode7bit(t)) = size
        /\ \A x \in 1..size, b \in Octet : Encode7bit(t)[x][b] = Stream(t, 8 * (x - 1) + b)
    <3> HIDE DEF t
    <3> QED
      BY <2>1, EncodedOctets
  <2>3. size \in Nat /\ (1 + 7 * n + 7) \div 8 = size + 1
    BY <1>3
  <2>4. first \in [Octet -> BitValues] /\ \A b \in 1..7 : first[b] = <<1, b - 1>>
    <3>1. Text(n)[1] = [c \in Septet |-> <<1, c>>]
      BY <1>3, TextSeptets
    <3>2. ASSUME NEW b \in Octet
          PROVE  first[b] \in BitValues /\ (b # 0 => first[b] = <<1, b - 1>>)
      <4>1. CASE b = 0
        BY <4>1 DEF BitValues
      <4>2. CASE b # 0
        <5>1. b - 1 \in Septet /\ b - 1 \in Nat
          BY <4>2 DEF Septet, Octet
        <5> QED
          BY <3>1, <4>2, <5>1 DEF BitValues
      <4> QED
        BY <4>1, <4>2
    <3> QED
      BY <3>2 DEF Octet
  <2>5. o = <<first>> \o Encode7bit(t)
    BY DEF EncodeBehindUdh
  <2>6. /\ Standard(n, 6) \in Seq([Octet -> BitValues]) /\ Len(Standard(n, 6)) = (1 + 7 * n + 7) \div 8
        /\ \A k \in 1..((1 + 7 * n + 7) \div 8), b \in Octet :
             LET x == 8 * (k - 1) + b
             IN  Standard(n, 6)[k][b] = IF x < 1 \/ x >= 1 + 7 * n THEN Zero
                                        ELSE <<((x - 1) \div 7) + 1, (x - 1) % 7>>
    BY Pads, StandardOctets
  <2>7. /\ o \in Seq([Octet -> BitValues]) /\ Len(o) = size + 1
        /\ o[1] = first /\ \A k \in 2..(size + 1) : o[k] = Encode7bit(t)[k - 1]
    <3> HIDE DEF first, t, o, size
    <3> QED
      BY <2>2, <2>3, <2>4, <2>5
  <2> HIDE DEF size, first, o
  <2>8. ASSUME NEW k \in 1..(size + 1), NEW b \in Octet
        PROVE  o[k][b] = Standard(n, 6)[k][b]
    <3> DEFINE x == 8 * (k - 1) + b
    <3>1. x \in Nat /\ b \in 0..7
      BY <2>3 DEF Octet
    <3>2. Standard(n, 6)[k][b] = IF x < 1 \/ x >= 1 + 7 * n THEN Zero
                                 ELSE <<((x - 1) \div 7) + 1, (x - 1) % 7>>
      BY <2>3, <2>6
    <3>3. CASE k = 1
      <4>1. x = b
        BY <3>1, <3>3
      <4>2. CASE b = 0
        BY <2>7, <3>2, <3>3, <4>1, <4>2 DEF first
      <4>3. CASE b # 0
        <5>1. (b - 1) \div 7 = 0 /\ (b - 1) % 7 = b - 1 /\ b < 1 + 7 * n /\ b \in 1..7
          BY <1>3, <3>1, <4>3
        <5> HIDE DEF x
        <5>2. (x - 1) \div 7 = 0 /\ (x - 1) % 7 = b - 1 /\ ~ (x < 1 \/ x >= 1 + 7 * n)
          BY <3>1, <4>1, <5>1
        <5>3. Standard(n, 6)[k][b] = <<1, b - 1>>
          BY <3>2, <5>2
        <5> QED
          BY <2>4, <2>7, <3>3, <5>1, <5>3
      <4> QED
        BY <4>2, <4>3
    <3>4. CASE k # 1
      <4> DEFINE y == 8 * ((k - 1) - 1) + b
      <4>1. k - 1 \in 1..size /\ k \in 2..(size + 1) /\ y \in Nat /\ x = y + 8
        BY <2>3, <3>1, <3>4
      <4>2. o[k][b] = Stream(t, y)
        BY <2>2, <2>7, <4>1
      <4> HIDE DEF x, y, t
      <4>3. CASE y < 7 * (n - 1)
        <5>1. (y \div 7) + 1 \in 1..(n - 1) /\ y % 7 \in Septet
          BY <1>3, <4>1, <4>3 DEF Septet
        <5>2. Stream(t, y) = t[(y \div 7) + 1][y % 7]
          BY <2>1, <4>3 DEF Stream
        <5>3. t[(y \div 7) + 1] = Text(n)[(y \div 7) + 1 + 1]
          BY <2>1, <5>1
        <5>4. (y \div 7) + 1 + 1 \in 1..n
          BY <5>1
        <5>5. Text(n)[(y \div 7) + 1 + 1] = [c \in Septet |-> <<(y \div 7) + 1 + 1, c>>]
          BY <5>4, TextSeptets
        <5>6. Stream(t, y) = <<(y \div 7) + 1 + 1, y % 7>>
          BY <5>1, <5>2, <5>3, <5>5
        <5>7. /\ ~ (x < 1 \/ x >= 1 + 7 * n)
              /\ (x - 1) \div 7 = (y \div 7) + 1 /\ (x - 1) % 7 = y % 7
          BY <1>3, <4>1, <4>3
        <5> QED
          BY <3>2, <4>2, <5>6, <5>7
      <4>4. CASE ~ (y < 7 * (n - 1))
        <5>1. Stream(t, y) = Zero
          BY <2>1, <4>4 DEF Stream
        <5>2. x >= 1 + 7 * n
          BY <1>3, <4>1, <4>4
        <5> QED
          BY <3>2, <4>2, <5>1, <5>2
      <4> QED
        BY <4>3, <4>4
    <3> QED
      BY <3>3, <3>4
  <2>9. o = Standard(n, 6)
    BY <2>3, <2>6, <2>7, <2>8, SameOctets
  <2> QED
    BY <2>9 DEF o
<1> QED
  BY <1>2, <1>3 DEF PackedAsStandard

-----------------------------------------------------------------------------
(* Unpacking.                                                              *)

\* o has len octets, or more, that hold m septets of one group.
HoldsGroup(o, len, m) ==
    /\ o \in Seq([Octet -> BitValues]) /\ Len(o) = len /\ m \in 1..8
    /\ len = IF m = 8 THEN 7 ELSE m

Decoded(o, m) ==
    /\ DecodeStep(o, m) \in Seq([Septet -> BitValues]) /\ Len(DecodeStep(o, m)) = m
    /\ \A i \in 1..m, c \in Septet :
         DecodeStep(o, m)[i][c] = IF c < i - 1 THEN o[i - 1][c + 9 - i] ELSE o[i][c - (i - 1)]

LEMMA DecodedGroup ==
    ASSUME NEW o, NEW len, NEW m, HoldsGroup(o, len, m)
    PROVE  Decoded(o, m)
<1> USE DEF HoldsGroup
<1> DEFINE bit(i, c) == IF c < i - 1 THEN o[i - 1][c + 9 - i] ELSE o[i][c - (i - 1)]
<1>1. DecodeStep(o, m) = [i \in 1..m |-> [c \in Septet |-> bit(i, c)]]
  BY DEF DecodeStep
<1>2. ASSUME NEW i \in 1..m, NEW c \in Septet PROVE bit(i, c) \in BitValues
  <2>1. i \in 1..8 /\ c \in 0..6 /\ m \in 1..8
    BY DEF Septet
  <2>2. CASE c < i - 1
    <3>1. i - 1 \in 1..len /\ c + 9 - i \in Octet
      BY <2>1, <2>2 DEF Octet
    <3>2. o[i - 1] \in [Octet -> BitValues]
      BY <3>1
    <3> QED
      BY <2>2, <3>1, <3>2
  <2>3. CASE ~ (c < i - 1)
    <3>1. i \in 1..len /\ c - (i - 1) \in Octet
      BY <2>1, <2>3 DEF Octet
    <3>2. o[i] \in [Octet -> BitValues]
      BY <3>1
    <3> QED
      BY <2>3, <3>1, <3>2
  <2> QED
    BY <2>2, <2>3
<1> HIDE DEF bit
<1>3. ASSUME NEW i \in 1..m PROVE [c \in Septet |-> bit(i, c)] \in [Septet -> BitValues]
  BY <1>2
<1>4. DecodeStep(o, m) \in Seq([Septet -> BitValues]) /\ Len(DecodeStep(o, m)) = m
  BY <1>1, <1>3
<1>5. \A i \in 1..m, c \in Septet : DecodeStep(o, m)[i][c] = bit(i, c)
  BY <1>1
<1> QED
  BY <1>4, <1>5 DEF bit, Decoded

\* Bit y of a sequence of octets.
BitAt(o, y) == o[(y \div 8) + 1][y % 8]

\* decode7bit reads the bits one behind the other.
LEMMA Unpacked ==
    ASSUME NEW n \in Nat, NEW o \in Seq([Octet -> BitValues]), Len(o) = (7 * n + 7) \div 8
    PROVE  Decode7bit(o, n) = [i \in 1..n |-> [c \in Septet |-> BitAt(o, 7 * (i - 1) + c)]]
<1> DEFINE groups == Groups(o, 7)
           size(g) == IF g * 8 <= n THEN 8 ELSE n - (g - 1) * 8
           blocks == [g \in 1..((n + 7) \div 8) |-> DecodeStep(groups[g], size(g))]
<1>0. Decode7bit(o, n) = Joined(blocks, 8)
  BY DEF Decode7bit
<1>1. CASE n = 0
  <2>1. blocks = <<>>
    <3>1. (n + 7) \div 8 = 0
      BY <1>1
    <3> QED
      BY <3>1
  <2> HIDE DEF blocks
  <2>2. Decode7bit(o, n) = <<>>
    BY <1>0, <2>1 DEF Joined
  <2> QED
    BY <1>1, <2>2
<1>2. CASE n # 0
  <2> DEFINE Has(g, m, len) ==
                 /\ 8 * g < n /\ m = IF 8 * g + 8 <= n THEN 8 ELSE n - 8 * g
                 /\ len = IF m = 8 THEN 7 ELSE m
             Good(g, m, len) ==
                 /\ groups[g + 1] \in Seq([Octet -> BitValues]) /\ Len(groups[g + 1]) = len
                 /\ \A k \in 1..len : groups[g + 1][k] = o[7 * g + k]
                 /\ blocks[g + 1] = DecodeStep(groups[g + 1], m)
                 /\ Decoded(groups[g + 1], m)
  <2>1. ASSUME NEW g \in Nat, NEW m \in 1..8, NEW len \in Nat, Has(g, m, len)
        PROVE  Good(g, m, len)
    <3> DEFINE start == 7 * g
    <3>1. GroupAt([Octet -> BitValues], o, 7, g, start, len)
      <4>1. Len(o) \in Nat /\ 8 * Len(o) <= 7 * n + 7 /\ 8 * Len(o) > 7 * n - 1
        BY DEF Octet
      <4>2. start = g * 7 /\ start \in Nat /\ start < Len(o)
        BY <2>1, <4>1
      <4>3. len = IF start + 7 <= Len(o) THEN 7 ELSE Len(o) - start
        BY <2>1, <4>1
      <4> HIDE DEF start
      <4> QED
        BY <4>2, <4>3 DEF GroupAt
    <3>2. Grouped([Octet -> BitValues], o, 7, g, start, len)
      <4> HIDE DEF start
      <4> QED
        BY <3>1, OneGroup, Zenon
    <3>3. /\ groups[g + 1] \in Seq([Octet -> BitValues]) /\ Len(groups[g + 1]) = len
          /\ \A k \in 1..len : groups[g + 1][k] = o[7 * g + k]
      BY <3>2 DEF Grouped
    <3>4. size(g + 1) = m /\ g + 1 \in 1..((n + 7) \div 8)
      BY <2>1
    <3>5. blocks[g + 1] = DecodeStep(groups[g + 1], m)
      <4> HIDE DEF groups, size
      <4> QED
        BY <3>4
    <3>6. HoldsGroup(groups[g + 1], len, m)
      <4> HIDE DEF groups
      <4> QED
        BY <2>1, <3>3 DEF HoldsGroup
    <3>7. Decoded(groups[g + 1], m)
      <4> HIDE DEF groups
      <4> QED
        BY <3>6, DecodedGroup
    <3> HIDE DEF groups, blocks
    <3> QED
      BY <3>3, <3>5, <3>7
  <2>2. PICK last \in Nat, r \in 1..8 : n = 8 * last + r /\ (n + 7) \div 8 = last + 1
    <3>1. (n - 1) \div 8 \in Nat /\ n - 8 * ((n - 1) \div 8) \in 1..8
      BY <1>2
    <3>2. (n + 7) \div 8 = ((n - 1) \div 8) + 1
      BY <1>2
    <3> QED
      BY <3>1, <3>2
  <2>3. Len(blocks) = last + 1 /\ blocks # <<>>
    BY <2>2
  <2> HIDE DEF groups, blocks, size
  <2>4. Len(blocks[Len(blocks)]) = r
    <3> DEFINE len == IF r = 8 THEN 7 ELSE r
    <3>1. Has(last, r, len) /\ len \in Nat
      BY <2>2
    <3> HIDE DEF len, Has, Good
    <3>2. Good(last, r, len)
      BY <2>1, <3>1
    <3>3. Len(blocks[last + 1]) = r
      BY <3>2 DEF Good, Decoded
    <3> QED
      BY <2>3, <3>3
  <2>5. Decode7bit(o, n) = [x \in 1..n |-> blocks[((x - 1) \div 8) + 1][((x - 1) % 8) + 1]]
    <3>1. (Len(blocks) - 1) * 8 + Len(blocks[Len(blocks)]) = n
      <4> DEFINE b == Len(blocks)
                 l == Len(blocks[Len(blocks)])
      <4>1. b = last + 1 /\ l = r
        BY <2>3, <2>4
      <4>2. last \in Nat /\ r \in 1..8 /\ n = 8 * last + r
        BY <2>2
      <4> HIDE DEF b, l
      <4>3. (b - 1) * 8 + l = n
        BY <4>1, <4>2
      <4> QED
        BY <4>3 DEF b, l
    <3> QED
      BY <1>0, <2>3, <3>1 DEF Joined
  <2>6. ASSUME NEW x \in 1..n
        PROVE  blocks[((x - 1) \div 8) + 1][((x - 1) % 8) + 1] = [c \in Septet |-> BitAt(o, 7 * (x - 1) + c)]
    <3> DEFINE g == (x - 1) \div 8
               i == ((x - 1) % 8) + 1
               m == IF 8 * g + 8 <= n THEN 8 ELSE n - 8 * g
               len == IF m = 8 THEN 7 ELSE m
    <3>1. g \in Nat /\ i \in 1..8 /\ x = 8 * g + i
      OBVIOUS
    <3> HIDE DEF g, i
    <3>2. 8 * g < n /\ m \in 1..8 /\ len \in Nat /\ i \in 1..m
      BY <3>1
    <3>3. Has(g, m, len)
      BY <3>2
    <3>a. len = IF m = 8 THEN 7 ELSE m
      OBVIOUS
    <3> HIDE DEF m, len, Has, Good
    <3>4. Good(g, m, len)
      BY <2>1, <3>1, <3>2, <3>3
    <3> DEFINE gr == groups[g + 1]
    <3>5. /\ gr \in Seq([Octet -> BitValues]) /\ Len(gr) = len
          /\ \A k \in 1..len : gr[k] = o[7 * g + k]
          /\ blocks[g + 1] = DecodeStep(gr, m) /\ Decoded(gr, m)
      BY <3>4 DEF Good
    <3> HIDE DEF gr
    <3>6. DecodeStep(gr, m)[i] \in [Septet -> BitValues]
      BY <3>2, <3>5 DEF Decoded
    <3>7. ASSUME NEW c \in Septet PROVE DecodeStep(gr, m)[i][c] = BitAt(o, 7 * (x - 1) + c)
      <4> DEFINE y == 7 * (x - 1) + c
      <4>1. c \in 0..6 /\ y = 56 * g + 7 * (i - 1) + c
        BY <3>1 DEF Septet
      <4>2. DecodeStep(gr, m)[i][c] = IF c < i - 1 THEN gr[i - 1][c + 9 - i] ELSE gr[i][c - (i - 1)]
        BY <3>2, <3>5 DEF Decoded
      <4>3. CASE c < i - 1
        <5>1. y = 8 * (7 * g + i - 2) + (c + 9 - i) /\ c + 9 - i \in 0..7 /\ 7 * g + i - 2 \in Nat
          BY <3>1, <4>1, <4>3
        <5>2. y \div 8 = 7 * g + i - 2 /\ y % 8 = c + 9 - i
          <6> DEFINE a == 7 * g + i - 2
                     b == c + 9 - i
          <6>1. y = 8 * a + b /\ a \in Nat /\ b \in 0..7
            BY <5>1
          <6> HIDE DEF a, b, y
          <6>2. y \div 8 = a /\ y % 8 = b
            BY <6>1
          <6> QED
            BY <6>2 DEF a, b
        <5>3. i - 1 \in 1..len
          BY <3>1, <3>2, <3>a, <4>1, <4>3
        <5>4. gr[i - 1] = o[7 * g + (i - 1)]
          BY <3>5, <5>3
        <5> HIDE DEF y
        <5>5. (y \div 8) + 1 = 7 * g + (i - 1)
          BY <3>1, <5>2
        <5>6. BitAt(o, y) = o[7 * g + (i - 1)][c + 9 - i]
          BY <5>2, <5>5 DEF BitAt
        <5> QED
          BY <4>2, <4>3, <5>4, <5>6 DEF y
      <4>4. CASE ~ (c < i - 1)
        <5>1. y = 8 * (7 * g + i - 1) + (c - (i - 1)) /\ c - (i - 1) \in 0..7 /\ 7 * g + i - 1 \in Nat
          BY <3>1, <4>1, <4>4
        <5>2. y \div 8 = 7 * g + i - 1 /\ y % 8 = c - (i - 1)
          <6> DEFINE a == 7 * g + i - 1
                     b == c - (i - 1)
          <6>1. y = 8 * a + b /\ a \in Nat /\ b \in 0..7
            BY <5>1
          <6> HIDE DEF a, b, y
          <6>2. y \div 8 = a /\ y % 8 = b
            BY <6>1
          <6> QED
            BY <6>2 DEF a, b
        <5>3. i \in 1..len
          BY <3>1, <3>2, <3>a, <4>1, <4>4
        <5>4. gr[i] = o[7 * g + i]
          BY <3>5, <5>3
        <5> HIDE DEF y
        <5>5. (y \div 8) + 1 = 7 * g + i
          BY <3>1, <5>2
        <5>6. BitAt(o, y) = o[7 * g + i][c - (i - 1)]
          BY <5>2, <5>5 DEF BitAt
        <5> QED
          BY <4>2, <4>4, <5>4, <5>6 DEF y
      <4> QED
        BY <4>3, <4>4
    <3>8. DecodeStep(gr, m)[i] = [c \in Septet |-> BitAt(o, 7 * (x - 1) + c)]
      BY <3>6, <3>7
    <3> QED
      BY <3>5, <3>8 DEF g, i
  <2> QED
    BY <2>5, <2>6
<1> QED
  BY <1>1, <1>2

\* What comes in the standard layout is read as it was written.
LEMMA AllRead ==
    ASSUME NEW n \in Nat, NEW h \in {0, 6, 7, 13}
    PROVE  ReadAsStandard(n, h)
<1> DEFINE pad == PadBits(h)
<1>1. pad \in {0, 1} /\ h \in Nat
  BY Pads
<1> HIDE DEF pad
<1> DEFINE o == Standard(n, h)
<1>2. /\ o \in Seq([Octet -> BitValues]) /\ Len(o) = (pad + 7 * n + 7) \div 8
      /\ \A k \in 1..((pad + 7 * n + 7) \div 8), b \in Octet :
           LET x == 8 * (k - 1) + b
           IN  o[k][b] = IF x < pad \/ x >= pad + 7 * n THEN Zero
                         ELSE <<((x - pad) \div 7) + 1, (x - pad) % 7>>
  BY <1>1, StandardOctets DEF pad
\* A bit of the text in the standard layout.
<1>3. ASSUME NEW x \in Nat, x >= pad, x < pad + 7 * n
      PROVE  /\ (x \div 8) + 1 \in 1..Len(o) /\ x % 8 \in Octet
             /\ o[(x \div 8) + 1][x % 8] = <<((x - pad) \div 7) + 1, (x - pad) % 7>>
  <2> DEFINE k == (x \div 8) + 1
             b == x % 8
  <2>1. k \in 1..((pad + 7 * n + 7) \div 8) /\ b \in Octet /\ 8 * (k - 1) + b = x
    BY <1>1, <1>3 DEF Octet
  <2> HIDE DEF o, k, b
  <2>2. o[k][b] = IF x < pad \/ x >= pad + 7 * n THEN Zero
                  ELSE <<((x - pad) \div 7) + 1, (x - pad) % 7>>
    BY <1>2, <2>1
  <2>3. k \in 1..Len(o) /\ b \in Octet /\ o[k][b] = <<((x - pad) \div 7) + 1, (x - pad) % 7>>
    BY <1>1, <1>2, <1>3, <2>1, <2>2
  <2> QED
    BY <2>3 DEF k, b
<1> HIDE DEF o
<1>4. \A i \in 1..n : Text(n)[i] = [c \in Septet |-> <<i, c>>]
  BY TextSeptets
<1>5. Text(n) = [i \in 1..n |-> [c \in Septet |-> <<i, c>>]]
  BY DEF Text
<1>6. CASE pad = 0
  <2>1. DecodeBehind(o, n, h) = Decode7bit(o, n)
    BY <1>6 DEF DecodeBehind, pad
  <2>2. Decode7bit(o, n) = [i \in 1..n |-> [c \in Septet |-> BitAt(o, 7 * (i - 1) + c)]]
    <3>1. Len(o) = (7 * n + 7) \div 8
      BY <1>2, <1>6
    <3> QED
      BY <1>2, <3>1, Unpacked
  <2>3. ASSUME NEW i \in 1..n, NEW c \in Septet PROVE BitAt(o, 7 * (i - 1) + c) = <<i, c>>
    <3> DEFINE x == 7 * (i - 1) + c
    <3>1. x \in Nat /\ x >= pad /\ x < pad + 7 * n /\ c \in 0..6
      BY <1>6 DEF Septet
    <3>2. (x - pad) \div 7 = i - 1 /\ (x - pad) % 7 = c
      BY <1>6, <3>1
    <3> HIDE DEF x
    <3>3. BitAt(o, x) = <<((x - pad) \div 7) + 1, (x - pad) % 7>>
      BY <1>3, <3>1 DEF BitAt
    <3> QED
      BY <3>2, <3>3 DEF x
  <2> QED
    BY <1>5, <2>1, <2>2, <2>3 DEF ReadAsStandard, o
<1>7. CASE pad = 1
  <2>1. CASE n = 0
    <3>1. DecodeBehind(o, n, h) = Decode7bit(o, n)
      BY <2>1 DEF DecodeBehind
    <3>2. Decode7bit(o, n) = <<>>
      <4> DEFINE blocks == [g \in 1..((n + 7) \div 8) |->
                               DecodeStep(Groups(o, 7)[g], IF g * 8 <= n THEN 8 ELSE n - (g - 1) * 8)]
      <4>1. blocks = <<>>
        <5>1. (n + 7) \div 8 = 0
          BY <2>1
        <5> QED
          BY <5>1
      <4>2. Decode7bit(o, n) = Joined(blocks, 8)
        BY DEF Decode7bit
      <4> HIDE DEF blocks
      <4> QED
        BY <4>1, <4>2 DEF Joined
    <3> QED
      BY <1>5, <2>1, <3>1, <3>2 DEF ReadAsStandard, o
  <2>2. CASE n # 0
    <3> DEFINE t == Tail(o)
               first == [c \in Septet |-> IF c + 1 \in Octet THEN o[1][c + 1] ELSE Zero]
    <3>1. DecodeBehind(o, n, h) = <<first>> \o Decode7bit(t, n - 1)
      <4>1. n > 0 /\ PadBits(h) = 1 /\ PadBits(h) > 0
        BY <1>7, <2>2 DEF pad
      <4> QED
        BY <4>1 DEF DecodeBehind
    <3>2. Len(o) = ((7 * (n - 1) + 7) \div 8) + 1 /\ Len(o) \in Nat
      BY <1>2, <1>7, <2>2
    <3>3. /\ t \in Seq([Octet -> BitValues]) /\ Len(t) = (7 * (n - 1) + 7) \div 8
          /\ \A k \in 1..Len(t) : t[k] = o[k + 1]
      BY <1>2, <3>2
    <3> HIDE DEF t
    <3>4. Decode7bit(t, n - 1) = [i \in 1..(n - 1) |-> [c \in Septet |-> BitAt(t, 7 * (i - 1) + c)]]
      <4>1. n - 1 \in Nat
        BY <2>2
      <4> QED
        BY <3>3, <4>1, Unpacked
    <3>5. first = [c \in Septet |-> <<1, c>>]
      <4>1. ASSUME NEW c \in Septet PROVE c + 1 \in Octet /\ o[1][c + 1] = <<1, c>>
        <5>1. c \in 0..6 /\ c + 1 \in Octet
          BY DEF Septet, Octet
        <5> DEFINE x == c + 1
        <5>2. x \in Nat /\ x >= pad /\ x < pad + 7 * n /\ x \div 8 = 0 /\ x % 8 = c + 1
          BY <1>7, <2>2, <5>1
        <5>3. (x - pad) \div 7 = 0 /\ (x - pad) % 7 = c
          BY <1>7, <5>1
        <5> HIDE DEF x
        <5>4. o[(x \div 8) + 1][x % 8] = <<((x - pad) \div 7) + 1, (x - pad) % 7>>
          BY <1>3, <5>2
        <5> QED
          BY <5>1, <5>2, <5>3, <5>4
      <4> QED
        BY <4>1
    <3>6. ASSUME NEW i \in 1..(n - 1), NEW c \in Septet
          PROVE  BitAt(t, 7 * (i - 1) + c) = <<i + 1, c>>
      <4> DEFINE y == 7 * (i - 1) + c
                 x == y + 8
      <4>1. c \in 0..6 /\ y \in Nat /\ x \in Nat /\ x >= pad /\ x < pad + 7 * n
        BY <1>7, <2>2 DEF Septet
      <4>2. (x - pad) \div 7 = i /\ (x - pad) % 7 = c
        BY <1>7, <4>1
      <4>3. x \div 8 = (y \div 8) + 1 /\ x % 8 = y % 8 /\ (y \div 8) \in Nat
        BY <4>1
      <4> HIDE DEF x
      <4>4. /\ (x \div 8) + 1 \in 1..Len(o)
            /\ o[(x \div 8) + 1][x % 8] = <<((x - pad) \div 7) + 1, (x - pad) % 7>>
        BY <1>3, <4>1
      <4> HIDE DEF y
      <4>5. (y \div 8) + 1 \in 1..Len(t)
        BY <3>2, <3>3, <4>3, <4>4
      <4>6. t[(y \div 8) + 1] = o[(x \div 8) + 1]
        BY <3>3, <4>3, <4>5
      <4> QED
        BY <4>2, <4>3, <4>4, <4>6 DEF BitAt, y
    <3> DEFINE rest == [i \in 1..(n - 1) |-> [c \in Septet |-> <<i + 1, c>>]]
    <3>7. Decode7bit(t, n - 1) = rest
      BY <3>4, <3>6
    <3>8. <<[c \in Septet |-> <<1, c>>]>> \o rest = Text(n)
      <4>1. rest \in Seq([Septet -> Nat \X Nat]) /\ Len(rest) = n - 1
        BY <2>2 DEF Septet
      <4>2. Text(n) \in Seq([Septet -> Nat \X Nat]) /\ Len(Text(n)) = n
        BY DEF Septet, Text
      <4>3. \A i \in 1..(n - 1) : rest[i] = Text(n)[i + 1]
        BY <1>4
      <4>4. Text(n)[1] = [c \in Septet |-> <<1, c>>]
        BY <1>4, <2>2
      <4>5. [c \in Septet |-> <<1, c>>] \in [Septet -> Nat \X Nat]
        BY DEF Septet
      <4> HIDE DEF rest
      <4> DEFINE f == [c \in Septet |-> <<1, c>>]
      <4> HIDE DEF f
      <4>6. <<f>> \o rest = Text(n)
        BY <2>2, <4>1, <4>2, <4>3, <4>4, <4>5 DEF f
      <4> QED
        BY <4>6 DEF f
    <3> QED
      BY <3>1, <3>5, <3>7, <3>8 DEF ReadAsStandard, o
  <2> QED
    BY <2>1, <2>2
<1> QED
  BY <1>1, <1>6, <1>7

-----------------------------------------------------------------------------
(* The invariant of a text.                                                *)

UnitValues == {ESC} \cup {Code(c) : c \in Nat}
PartValues ==
    [scheme : Schemes, number : Nat, total : Nat, udl : Nat,
     units : Seq(UnitValues) \cup Seq(TextCharacters)]

TextTypes ==
    /\ stage \in {"scan", "cut", "receive"}
    /\ sText \in Seq(TextCharacters) /\ sms7BitText \in Seq(UnitValues)
    /\ found \in [wide : BOOLEAN, latin : BOOLEAN]
    /\ textLen \in Nat /\ iPart \in Nat /\ outList \in Seq(PartValues)
    /\ reading \in Nat /\ septet \in Nat
    /\ decoded \in [esc : BOOLEAN, out : Seq(TextCharacters)]

\* Where the septets of each character end: behind those of the one before, one
\* septet or, with an escape, two.
LaidAt(at, chars, septets) ==
    /\ at \in [0..Len(chars) -> Nat] /\ at[0] = 0 /\ at[Len(chars)] = Len(septets)
    /\ \A i \in 0..Len(chars) : at[i] + (Len(chars) - i) <= Len(septets)
    /\ \A i \in 1..Len(chars) :
         \/ /\ chars[i].table = "basic" /\ at[i] = at[i - 1] + 1
            /\ septets[at[i]] = Code(chars[i].code)
         \/ /\ chars[i].table = "extension" /\ at[i] = at[i - 1] + 2
            /\ septets[at[i - 1] + 1] = ESC /\ septets[at[i]] = Code(chars[i].code)

LaidOut == found.wide \/ found.latin \/ \E at : LaidAt(at, sText, sms7BitText)

\* How many units are in the first i parts.
CutAt(i) == Least(i * PartSize, Len(Units))

ThePart(i) ==
    [scheme |-> Scheme,
     number |-> IF HasUdh THEN i ELSE 0,
     total  |-> IF HasUdh THEN NParts ELSE 0,
     udl    |-> (CutAt(i) - CutAt(i - 1)) + (IF HasUdh THEN UdhLen[Scheme] ELSE 0),
     units  |-> SubSeq(Units, CutAt(i - 1) + 1, CutAt(i))]

CutSoFar ==
    /\ iPart \in 0..NParts /\ Len(outList) = iPart
    /\ textLen = Len(Units) - CutAt(iPart)
    /\ \A i \in 1..iPart : outList[i] = ThePart(i)
    /\ stage = "receive" => iPart = NParts

CutInv ==
    IF stage = "scan" THEN textLen = 0 /\ iPart = 0 /\ outList = <<>>
    ELSE
        /\ sText # <<>>
        /\ IF NParts <= MaxParts THEN CutSoFar ELSE stage = "cut" /\ iPart \in 0..MaxParts /\ textLen <= Len(Units)

\* The last septet of an earlier part is an escape.
CutBefore == \E i \in 1..(reading - 1) : outList[i].units[Len(outList[i].units)] = ESC

\* The first k characters have been decoded, and the escape of the next one if there
\* is one in force.
ReadTo(at, k, pos) ==
    /\ k \in 0..Len(sText) /\ Len(decoded.out) = k
    /\ \A j \in 1..k : decoded.out[j] = sText[j]
    /\ IF decoded.esc THEN k < Len(sText) /\ sText[k + 1].table = "extension" /\ pos = at[k] + 1
       ELSE pos = at[k]

ReadSoFar ==
    CutBefore \/ \E at : /\ LaidAt(at, sText, sms7BitText)
                         /\ \E k \in Nat : ReadTo(at, k, CutAt(reading - 1) + septet)

ReadInv ==
    IF stage # "receive" THEN reading = 1 /\ septet = 0 /\ decoded = [esc |-> FALSE, out |-> <<>>]
    ELSE /\ reading \in 1..(NParts + 1)
         /\ reading = NParts + 1 => septet = 0
         /\ reading <= NParts => septet <= CutAt(reading) - CutAt(reading - 1)
         /\ septet = 0 => ~decoded.esc
         /\ septet > 0 /\ decoded.esc => outList[reading].units[septet] = ESC
         /\ IF Scheme = "pdu7"
            THEN ReadSoFar
            ELSE septet = 0 /\ decoded.out = SubSeq(sText, 1, CutAt(reading - 1))

TextInv == TextTypes /\ LaidOut /\ CutInv /\ ReadInv

-----------------------------------------------------------------------------
(* The cuts.                                                               *)

LEMMA Multiples ==
    ASSUME NEW total \in Nat \ {0}, NEW size \in Nat \ {0},
           NEW n, n = (total - 1) \div size + 1
    PROVE  /\ n \in Nat \ {0} /\ n * size >= total
           /\ \A i \in Nat : i < n => i * size < total
<1> DEFINE q == (total - 1) \div size
           r == (total - 1) % size
<1>1. total - 1 \in Nat
  OBVIOUS
<1>2. /\ q \in Nat /\ r \in 0..(size - 1) /\ total - 1 = size * q + r
  BY <1>1
<1>3. n = q + 1
  OBVIOUS
<1> HIDE DEF q, r
<1>4. n * size = size * q + size
  BY <1>2, <1>3
<1>5. n * size >= total
  <2> DEFINE z == size * q
  <2>1. z \in Nat
    BY <1>2
  <2>2. total - 1 = z + r /\ n * size = z + size
    BY <1>2, <1>4
  <2> HIDE DEF z
  <2> QED
    BY <1>2, <2>1, <2>2
<1>6. ASSUME NEW i \in Nat, i < n PROVE i * size < total
  <2> DEFINE d == q - i
  <2>1. d \in Nat /\ q = i + d
    BY <1>2, <1>3, <1>6
  <2> HIDE DEF d
  <2>2. size * q = i * size + d * size
    BY <2>1
  <2>3. d * size \in Nat /\ i * size \in Nat
    BY <2>1
  <2> DEFINE a == i * size
             z == d * size
  <2>4. total - 1 = (a + z) + r /\ a \in Nat /\ z \in Nat
    BY <1>2, <2>2, <2>3
  <2> HIDE DEF a, z
  <2>5. a < total
    BY <1>2, <2>4
  <2> QED
    BY <2>5 DEF a
<1> QED
  BY <1>2, <1>3, <1>5, <1>6

LEMMA Sizes ==
    ASSUME TextTypes
    PROVE  /\ Scheme \in Schemes /\ HasUdh \in BOOLEAN
           /\ Units \in Seq(UnitValues) \cup Seq(TextCharacters) /\ Len(Units) \in Nat
           /\ PartSize \in Nat \ {0}
           /\ PartSize + (IF HasUdh THEN UdhLen[Scheme] ELSE 0) = MaxTextLen[Scheme]
           /\ UdhLen[Scheme] \in Nat /\ MaxTextLen[Scheme] \in Nat
<1>1. Scheme \in Schemes
  BY DEF Scheme, Schemes
<1>2. UdhLen[Scheme] \in Nat /\ MaxTextLen[Scheme] \in Nat /\ UdhLen[Scheme] < MaxTextLen[Scheme]
  BY <1>1, LengthAssumption
<1>3. Units \in Seq(UnitValues) \cup Seq(TextCharacters)
  BY DEF Units, TextTypes
<1>4. Len(Units) \in Nat
  BY DEF Units, TextTypes
<1> QED
  BY <1>1, <1>2, <1>3, <1>4 DEF PartSize, HasUdh

\* Every part but the last is full, none is empty, and the parts hold all units.
LEMMA Cuts ==
    ASSUME TextTypes, Len(Units) > 0
    PROVE  /\ NParts \in Nat \ {0} /\ CutAt(0) = 0 /\ CutAt(NParts) = Len(Units)
           /\ \A i \in Nat : CutAt(i) \in 0..Len(Units)
           /\ \A i \in Nat : i < NParts =>
                /\ CutAt(i) < CutAt(i + 1)
                /\ CutAt(i + 1) - CutAt(i) = Least(Len(Units) - CutAt(i), PartSize)
           /\ HasUdh <=> NParts # 1
<1> DEFINE total == Len(Units)
           size == PartSize
<1>1. total \in Nat \ {0} /\ size \in Nat \ {0}
  BY Sizes
<1>2. NParts = (total - 1) \div size + 1
  BY DEF NParts
<1>3. \A i \in Nat : CutAt(i) = IF i * size <= total THEN i * size ELSE total
  BY DEF CutAt, Least
<1>4. /\ ~HasUdh => total <= size
      /\ HasUdh => total > size
  BY Sizes DEF HasUdh, PartSize
<1> HIDE DEF total, size
<1>5. /\ NParts \in Nat \ {0} /\ NParts * size >= total
      /\ \A i \in Nat : i < NParts => i * size < total
  BY <1>1, <1>2, Multiples
<1>6. \A i \in Nat : i * size \in Nat
  BY <1>1
<1>7. CutAt(0) = 0
  BY <1>1, <1>3
<1>8. CutAt(NParts) = total
  <2>1. NParts * size \in Nat
    BY <1>5, <1>6
  <2> DEFINE z == NParts * size
  <2>2. z \in Nat /\ z >= total /\ CutAt(NParts) = IF z <= total THEN z ELSE total
    BY <1>3, <1>5, <2>1
  <2> HIDE DEF z
  <2> QED
    BY <1>1, <2>2
<1>9. ASSUME NEW i \in Nat PROVE CutAt(i) \in 0..total
  <2> DEFINE z == i * size
  <2>1. z \in Nat /\ CutAt(i) = IF z <= total THEN z ELSE total
    BY <1>3, <1>6
  <2> HIDE DEF z
  <2> QED
    BY <1>1, <2>1
<1>10. ASSUME NEW i \in Nat, i < NParts
       PROVE  CutAt(i) < CutAt(i + 1) /\ CutAt(i + 1) - CutAt(i) = Least(total - CutAt(i), size)
  <2> DEFINE z == i * size
  <2>1. (i + 1) * size = z + size
    BY <1>1
  <2>2. z \in Nat /\ z < total
    BY <1>5, <1>6, <1>10
  <2>3. CutAt(i) = IF z <= total THEN z ELSE total
    BY <1>3
  <2>4. CutAt(i + 1) = IF z + size <= total THEN z + size ELSE total
    BY <1>3, <2>1
  <2> HIDE DEF z
  <2>5. CutAt(i) = z
    BY <1>1, <2>2, <2>3
  <2>6. CASE z + size <= total
    BY <1>1, <2>2, <2>4, <2>5, <2>6 DEF Least
  <2>7. CASE ~ (z + size <= total)
    BY <1>1, <2>2, <2>4, <2>5, <2>7 DEF Least
  <2> QED
    BY <2>6, <2>7
<1>11. ASSUME ~HasUdh PROVE NParts = 1
  <2>1. ASSUME NParts # 1 PROVE FALSE
    <3>1. 1 < NParts
      BY <1>5, <2>1
    <3>2. 1 * size < total
      BY <1>5, <3>1
    <3> QED
      BY <1>1, <1>4, <1>11, <3>2
  <2> QED
    BY <2>1
<1>12. ASSUME HasUdh PROVE NParts # 1
  BY <1>1, <1>4, <1>5, <1>12
<1> QED
  BY <1>5, <1>7, <1>8, <1>9, <1>10, <1>11, <1>12 DEF total, size

-----------------------------------------------------------------------------
(* The scan.                                                               *)

LEMMA EscapedUnits ==
    ASSUME NEW c \in TextCharacters
    PROVE  /\ Escaped(c) \in Seq(UnitValues) 
           /\ Len(Escaped(c)) = IF c.table = "extension" THEN 2 ELSE 1
<1>1. c.code \in Nat
  BY DEF TextCharacters
<1>2. Code(c.code) \in UnitValues /\ ESC \in UnitValues
  BY <1>1 DEF UnitValues
<1> DEFINE u == Code(c.code)
           e == ESC
<1>3. u \in UnitValues /\ e \in UnitValues
  BY <1>2
<1>4. Escaped(c) = IF c.table = "extension" THEN <<e, u>> ELSE <<u>>
  BY DEF Escaped
<1> HIDE DEF u, e
<1>5. CASE c.table = "extension"
  BY <1>3, <1>4, <1>5
<1>6. CASE c.table # "extension"
  BY <1>3, <1>4, <1>6
<1> QED
  BY <1>5, <1>6

LEMMA LaidLonger ==
    ASSUME NEW chars \in Seq(TextCharacters), NEW septets \in Seq(UnitValues), NEW at,
           LaidAt(at, chars, septets), NEW c \in TextCharacters, c.table \in {"basic", "extension"}
    PROVE  /\ septets \o Escaped(c) \in Seq(UnitValues)
           /\ \E more : LaidAt(more, Append(chars, c), septets \o Escaped(c))
<1> DEFINE n == Len(chars)
           m == Len(septets)
           size == IF c.table = "extension" THEN 2 ELSE 1
           more == [i \in 0..(n + 1) |-> IF i <= n THEN at[i] ELSE m + size]
           longer == septets \o Escaped(c)
           chars2 == Append(chars, c)
<1>1. n \in Nat /\ m \in Nat
  OBVIOUS
<1>2. Escaped(c) \in Seq(UnitValues) /\ Len(Escaped(c)) = size
  BY EscapedUnits
<1>3. /\ longer \in Seq(UnitValues) /\ Len(longer) = m + size
      /\ \A j \in 1..m : longer[j] = septets[j]
      /\ longer[m + size] = Code(c.code)
      /\ size = 2 => longer[m + 1] = ESC
  <2>1. Escaped(c)[size] = Code(c.code) /\ (size = 2 => Escaped(c)[1] = ESC)
    BY DEF Escaped
  <2> HIDE DEF size
  <2>2. size \in {1, 2}
    BY DEF size
  <2> QED
    BY <1>1, <1>2, <2>1, <2>2
<1>4. chars2 \in Seq(TextCharacters) /\ Len(chars2) = n + 1 /\ chars2[n + 1] = c /\ \A j \in 1..n : chars2[j] = chars[j]
  OBVIOUS
<1>5. size \in {1, 2} /\ (size = 2 <=> c.table = "extension") /\ (size = 1 <=> c.table = "basic")
  OBVIOUS
<1> HIDE DEF longer, chars2, size
<1>6. /\ at \in [0..n -> Nat] /\ at[0] = 0 /\ at[n] = m
      /\ \A i \in 0..n : at[i] + (n - i) <= m
  BY DEF LaidAt
<1>7. \A i \in 1..n :
         \/ /\ chars[i].table = "basic" /\ at[i] = at[i - 1] + 1
            /\ septets[at[i]] = Code(chars[i].code)
         \/ /\ chars[i].table = "extension" /\ at[i] = at[i - 1] + 2
            /\ septets[at[i - 1] + 1] = ESC /\ septets[at[i]] = Code(chars[i].code)
  BY DEF LaidAt
<1>8. /\ more \in [0..(n + 1) -> Nat] /\ more[0] = 0 /\ more[n + 1] = m + size
      /\ \A i \in 0..n : more[i] = at[i]
  BY <1>1, <1>5, <1>6
<1> HIDE DEF n, m, more
<1>9. ASSUME NEW i \in 0..(n + 1) PROVE more[i] + ((n + 1) - i) <= m + size
  <2>1. CASE i \in 0..n
    <3>1. more[i] = at[i] /\ at[i] \in Nat /\ at[i] + (n - i) <= m
      BY <1>6, <1>8, <2>1
    <3> QED
      BY <1>1, <1>5, <2>1, <3>1
  <2>2. CASE i = n + 1
    BY <1>1, <1>5, <1>8, <2>2
  <2> QED
    BY <1>1, <2>1, <2>2
<1>10. ASSUME NEW i \in 1..(n + 1)
      PROVE  \/ /\ chars2[i].table = "basic" /\ more[i] = more[i - 1] + 1
                /\ longer[more[i]] = Code(chars2[i].code)
             \/ /\ chars2[i].table = "extension" /\ more[i] = more[i - 1] + 2
                /\ longer[more[i - 1] + 1] = ESC /\ longer[more[i]] = Code(chars2[i].code)
  <2>1. CASE i \in 1..n
    <3>1. chars2[i] = chars[i] /\ more[i] = at[i] /\ more[i - 1] = at[i - 1]
      <4>1. i \in 0..n /\ i - 1 \in 0..n
        BY <1>1, <2>1
      <4> QED
        BY <1>4, <1>8, <2>1, <4>1
    <3>2. at[i] \in Nat /\ at[i - 1] \in Nat /\ at[i] <= m
      <4>1. i \in 0..n /\ i - 1 \in 0..n
        BY <1>1, <2>1
      <4>2. at[i] \in Nat /\ at[i - 1] \in Nat /\ at[i] + (n - i) <= m
        BY <1>6, <4>1
      <4> DEFINE x == at[i]
      <4>3. x \in Nat /\ x + (n - i) <= m
        BY <4>2
      <4> HIDE DEF x
      <4>4. x <= m
        BY <1>1, <4>1, <4>3
      <4> QED
        BY <4>2, <4>4 DEF x
    <3>3. at[i] \in 1..m => longer[at[i]] = septets[at[i]]
      BY <1>3
    <3>4. at[i - 1] + 1 \in 1..m => longer[at[i - 1] + 1] = septets[at[i - 1] + 1]
      BY <1>3
    <3>5. CASE /\ chars[i].table = "basic" /\ at[i] = at[i - 1] + 1
               /\ septets[at[i]] = Code(chars[i].code)
      <4>1. at[i] \in 1..m
        BY <1>1, <3>2, <3>5
      <4> QED
        BY <3>1, <3>3, <3>5, <4>1
    <3>6. CASE /\ chars[i].table = "extension" /\ at[i] = at[i - 1] + 2
               /\ septets[at[i - 1] + 1] = ESC /\ septets[at[i]] = Code(chars[i].code)
      <4>1. at[i] \in 1..m /\ at[i - 1] + 1 \in 1..m
        <5> DEFINE x == at[i]
                   y == at[i - 1]
        <5>1. x \in Nat /\ y \in Nat /\ x <= m /\ x = y + 2
          BY <3>2, <3>6
        <5> HIDE DEF x, y
        <5>2. x \in 1..m /\ y + 1 \in 1..m
          BY <1>1, <5>1
        <5> QED
          BY <5>2 DEF x, y
      <4> QED
        BY <3>1, <3>3, <3>4, <3>6, <4>1
    <3> QED
      BY <1>7, <2>1, <3>5, <3>6
  <2>2. CASE i = n + 1
    <3>1. more[i - 1] = m /\ more[i] = m + size /\ chars2[i] = c
      <4>1. i - 1 = n /\ n \in 0..n
        BY <1>1, <2>2
      <4> QED
        BY <1>4, <1>6, <1>8, <2>2, <4>1
    <3> QED
      BY <1>3, <1>5, <3>1
  <2> QED
    BY <1>1, <2>1, <2>2
<1>11. LaidAt(more, chars2, longer)
  BY <1>1, <1>3, <1>4, <1>8, <1>9, <1>10 DEF LaidAt
<1> QED
  BY <1>3, <1>11 DEF longer, chars2

LEMMA ScanKeeps ==
    ASSUME TextInv, NEW c \in TextCharacters, Scan(c)
    PROVE  TextInv'
<1>1. TextTypes'
  <2>1. Escaped(c) \in Seq(UnitValues)
    BY EscapedUnits
  <2> QED
    BY <2>1 DEF TextInv, TextTypes, Scan, cutVars, receiveVars
<1>2. LaidOut'
  <2>1. CASE found'.wide \/ found'.latin
    BY <2>1 DEF LaidOut
  <2>2. CASE ~ (found'.wide \/ found'.latin)
    <3>1. /\ ~found.wide /\ ~found.latin /\ c.table # "wide" /\ c.table # "latin"
          /\ sText' = Append(sText, c) /\ sms7BitText' = sms7BitText \o Escaped(c)
      BY <2>2 DEF Scan
    <3>2. c.table \in {"basic", "extension"}
      BY <3>1 DEF TextCharacters, Tables
    <3>3. PICK at : LaidAt(at, sText, sms7BitText)
      BY <3>1 DEF TextInv, LaidOut
    <3>4. sText \in Seq(TextCharacters) /\ sms7BitText \in Seq(UnitValues)
      BY DEF TextInv, TextTypes
    <3>5. \E more : LaidAt(more, Append(sText, c), sms7BitText \o Escaped(c))
      BY <3>2, <3>3, <3>4, LaidLonger
    <3> QED
      BY <3>1, <3>5 DEF LaidOut
  <2> QED
    BY <2>1, <2>2
<1>3. CutInv' /\ ReadInv'
  <2>1. /\ stage = "scan" /\ stage' = "scan"
        /\ UNCHANGED <<textLen, iPart, outList, reading, septet, decoded>>
    BY DEF Scan, cutVars, receiveVars
  <2> QED
    BY <2>1 DEF TextInv, CutInv, ReadInv, ReadSoFar
<1> QED
  BY <1>1, <1>2, <1>3 DEF TextInv

-----------------------------------------------------------------------------
(* The loop over the parts.                                                *)

\* What depends on the scan alone.
LEMMA Steady ==
    ASSUME UNCHANGED scanVars
    PROVE  /\ UNCHANGED <<sText, sms7BitText, found, Scheme, Units, HasUdh, PartSize, NParts, LaidOut>>
           /\ \A i : CutAt(i)' = CutAt(i) /\ ThePart(i)' = ThePart(i)
<1>1. UNCHANGED <<sText, sms7BitText, found>>
  BY DEF scanVars
<1>2. Scheme' = Scheme
  BY <1>1 DEF Scheme
<1>3. Units' = Units
  BY <1>1, <1>2 DEF Units
<1>4. HasUdh' = HasUdh
  BY <1>2, <1>3 DEF HasUdh
<1>5. PartSize' = PartSize
  BY <1>2, <1>4 DEF PartSize
<1>6. NParts' = NParts
  BY <1>3, <1>5 DEF NParts
<1>7. ASSUME NEW i PROVE CutAt(i)' = CutAt(i)
  BY <1>3, <1>5 DEF CutAt
<1>8. ASSUME NEW i PROVE ThePart(i)' = ThePart(i)
  BY <1>2, <1>3, <1>4, <1>6, <1>7 DEF ThePart
<1>9. LaidOut' = LaidOut
  BY <1>1 DEF LaidOut
<1> QED
  BY <1>1, <1>2, <1>3, <1>4, <1>5, <1>6, <1>7, <1>8, <1>9

\* A text that is not empty has units.
LEMMA SomeUnits ==
    ASSUME TextTypes, LaidOut, sText # <<>>
    PROVE  Len(Units) > 0 /\ (Scheme = "pdu7" => \E at : LaidAt(at, sText, sms7BitText))
<1>1. Len(sText) \in Nat /\ Len(sText) > 0
  BY DEF TextTypes
<1>2. CASE Scheme = "pdu7"
  <2>1. ~found.wide /\ ~found.latin
    BY <1>2 DEF Scheme
  <2>2. PICK at : LaidAt(at, sText, sms7BitText)
    BY <2>1 DEF LaidOut
  <2>3. at[0] = 0 /\ at[0] + (Len(sText) - 0) <= Len(sms7BitText)
    BY <1>1, <2>2 DEF LaidAt
  <2>4. Len(sms7BitText) \in Nat
    BY DEF TextTypes
  <2> QED
    BY <1>1, <1>2, <2>2, <2>3, <2>4 DEF Units
<1>3. CASE Scheme # "pdu7"
  BY <1>1, <1>3 DEF Units
<1> QED
  BY <1>2, <1>3

\* What a part holds.
LEMMA PartUnits ==
    ASSUME TextTypes, Len(Units) > 0, NEW i \in 1..NParts
    PROVE  /\ ThePart(i) \in PartValues
           /\ ThePart(i).scheme = Scheme
           /\ ThePart(i).units = SubSeq(Units, CutAt(i - 1) + 1, CutAt(i))
           /\ Len(ThePart(i).units) = CutAt(i) - CutAt(i - 1)
           /\ CutAt(i) - CutAt(i - 1) \in Nat \ {0}
           /\ \A j \in 1..(CutAt(i) - CutAt(i - 1)) : ThePart(i).units[j] = Units[CutAt(i - 1) + j]
<1> DEFINE a == CutAt(i - 1)
           b == CutAt(i)
           part == SubSeq(Units, a + 1, b)
<1>1. NParts \in Nat \ {0} /\ i \in Nat /\ i - 1 \in Nat /\ i - 1 < NParts /\ (i - 1) + 1 = i
  BY Cuts
<1>2. a \in 0..Len(Units) /\ b \in 0..Len(Units) /\ a < b
  BY <1>1, Cuts
<1>3. Len(Units) \in Nat /\ Units \in Seq(UnitValues) \cup Seq(TextCharacters)
  BY Sizes
<1>4. Scheme \in Schemes /\ UdhLen[Scheme] \in Nat /\ HasUdh \in BOOLEAN
  BY Sizes
<1> DEFINE u == Units
<1>5. ThePart(i) = [scheme |-> Scheme,
                    number |-> IF HasUdh THEN i ELSE 0,
                    total  |-> IF HasUdh THEN NParts ELSE 0,
                    udl    |-> (b - a) + (IF HasUdh THEN UdhLen[Scheme] ELSE 0),
                    units  |-> part]
  BY DEF ThePart
<1> HIDE DEF a, b, u
<1>6. part \in Seq(UnitValues) \cup Seq(TextCharacters) /\ Len(part) = b - a
      /\ \A j \in 1..(b - a) : part[j] = u[a + j]
  <2>1. ASSUME NEW S, u \in Seq(S)
        PROVE  /\ SubSeq(u, a + 1, b) \in Seq(S) /\ Len(SubSeq(u, a + 1, b)) = b - a
               /\ \A j \in 1..(b - a) : SubSeq(u, a + 1, b)[j] = u[a + j]
    BY <1>2, <1>3, <2>1 DEF u
  <2> QED
    BY <1>3, <2>1 DEF u
<1> HIDE DEF part
<1>7. b - a \in Nat \ {0}
  BY <1>2, <1>3
<1>8. ThePart(i) \in PartValues
  <2> DEFINE x == IF HasUdh THEN i ELSE 0
             y == IF HasUdh THEN NParts ELSE 0
             z == (b - a) + (IF HasUdh THEN UdhLen[Scheme] ELSE 0)
  <2>1. x \in Nat /\ y \in Nat /\ z \in Nat
    BY <1>1, <1>4, <1>7
  <2>2. ThePart(i) = [scheme |-> Scheme, number |-> x, total |-> y, udl |-> z, units |-> part]
    BY <1>5
  <2> HIDE DEF x, y, z
  <2> QED
    BY <1>4, <1>6, <2>1, <2>2 DEF PartValues
<1>9. ThePart(i).scheme = Scheme /\ ThePart(i).units = part
  BY <1>5
<1>10. /\ Len(ThePart(i).units) = b - a
       /\ \A j \in 1..(b - a) : ThePart(i).units[j] = u[a + j]
  BY <1>6, <1>9
<1> QED
  BY <1>7, <1>8, <1>9, <1>10 DEF a, b, u, part

LEMMA ChooseKeeps ==
    ASSUME TextInv, Choose
    PROVE  TextInv'
<1>1. /\ stage = "scan" /\ stage' = "cut" /\ textLen' = Len(Units) /\ sText # <<>>
      /\ UNCHANGED <<scanVars, iPart, outList, reading, septet, decoded>>
  BY DEF Choose, receiveVars
<1>2. /\ UNCHANGED <<sText, sms7BitText, found, Scheme, Units, HasUdh, PartSize, NParts, LaidOut>>
      /\ \A i : CutAt(i)' = CutAt(i) /\ ThePart(i)' = ThePart(i)
  BY <1>1, Steady
<1>3. TextTypes /\ LaidOut /\ iPart = 0 /\ outList = <<>>
  BY <1>1 DEF TextInv, CutInv
<1>4. Len(Units) > 0 /\ Len(Units) \in Nat /\ NParts \in Nat \ {0} /\ CutAt(0) = 0
  BY <1>1, <1>3, SomeUnits, Sizes, Cuts
<1>5. TextTypes'
  BY <1>1, <1>2, <1>3, <1>4 DEF TextTypes
<1>6. CutInv'
  <2>1. CutSoFar'
    BY <1>1, <1>2, <1>3, <1>4 DEF CutSoFar
  <2>2. MaxParts \in Nat
    BY LengthAssumption
  <2> QED
    BY <1>1, <1>2, <1>3, <2>1, <2>2 DEF CutInv
<1>7. ReadInv'
  BY <1>1 DEF TextInv, ReadInv, ReadSoFar
<1> QED
  BY <1>2, <1>3, <1>5, <1>6, <1>7 DEF TextInv

LEMMA CutPartKeeps ==
    ASSUME TextInv, CutPart
    PROVE  TextInv'
<1> DEFINE size == Least(textLen, PartSize)
           txt == Len(Units) - textLen
           part == [scheme |-> Scheme,
                    number |-> IF HasUdh THEN Byte(iPart + 1) ELSE 0,
                    total  |-> IF HasUdh THEN Byte(NParts) ELSE 0,
                    udl    |-> size + (IF HasUdh THEN UdhLen[Scheme] ELSE 0),
                    units  |-> SubSeq(Units, txt + 1, txt + size)]
<1>1. /\ stage = "cut" /\ stage' = "cut" /\ iPart < NParts
      /\ outList' = Append(outList, part) /\ textLen' = textLen - size /\ iPart' = Byte(iPart + 1)
      /\ UNCHANGED <<scanVars, reading, septet, decoded>>
  BY DEF CutPart, receiveVars
<1>2. /\ UNCHANGED <<sText, sms7BitText, found, Scheme, Units, HasUdh, PartSize, NParts, LaidOut>>
      /\ \A i : CutAt(i)' = CutAt(i) /\ ThePart(i)' = ThePart(i)
  BY <1>1, Steady
<1>3. TextTypes /\ LaidOut /\ sText # <<>>
  BY <1>1 DEF TextInv, CutInv
<1>4. Len(Units) > 0 /\ Len(Units) \in Nat /\ PartSize \in Nat \ {0}
  BY <1>3, SomeUnits, Sizes
<1>5. /\ NParts \in Nat \ {0} /\ CutAt(0) = 0 /\ CutAt(NParts) = Len(Units)
      /\ \A i \in Nat : CutAt(i) \in 0..Len(Units)
      /\ \A i \in Nat : i < NParts =>
           /\ CutAt(i) < CutAt(i + 1)
           /\ CutAt(i + 1) - CutAt(i) = Least(Len(Units) - CutAt(i), PartSize)
  BY <1>3, <1>4, Cuts
<1>6. MaxParts \in Nat \ {0} /\ iPart \in Nat /\ textLen \in Nat
  BY <1>3, LengthAssumption DEF TextTypes
<1>7. Byte(iPart + 1) \in 0..MaxParts
  BY <1>6 DEF Byte
<1>8. ReadInv'
  BY <1>1 DEF TextInv, ReadInv, ReadSoFar
<1> HIDE DEF part, size, txt
<1>9. CASE NParts <= MaxParts
  <2>1. CutSoFar
    BY <1>1, <1>9 DEF TextInv, CutInv
  <2>2. iPart + 1 \in 1..NParts /\ textLen = Len(Units) - CutAt(iPart) /\ Len(outList) = iPart
    BY <1>1, <1>5, <1>6, <2>1 DEF CutSoFar
  <2>3. Byte(iPart + 1) = iPart + 1 /\ Byte(NParts) = NParts
    <3> DEFINE top == MaxParts
               m == iPart + 1
               n == NParts
    <3>1. /\ top \in Nat /\ m \in Nat /\ n \in Nat /\ m <= top /\ n <= top
          /\ Byte(m) = m % (top + 1) /\ Byte(n) = n % (top + 1)
      BY <1>5, <1>6, <1>9, <2>2 DEF Byte
    <3> HIDE DEF top, m, n
    <3>2. m % (top + 1) = m /\ n % (top + 1) = n
      BY <3>1
    <3> QED
      BY <3>1, <3>2 DEF m, n
  <2>4. size = CutAt(iPart + 1) - CutAt(iPart) /\ CutAt(iPart) \in Nat /\ CutAt(iPart + 1) \in Nat
    BY <1>1, <1>4, <1>5, <1>6, <2>2 DEF size
  <2>5. txt = CutAt(iPart) /\ txt + size = CutAt(iPart + 1) /\ (iPart + 1) - 1 = iPart
    BY <1>4, <1>6, <2>2, <2>4 DEF txt
  <2>6. part = ThePart(iPart + 1)
    <3>1. CASE HasUdh
      BY <2>3, <2>4, <2>5, <3>1 DEF part, ThePart
    <3>2. CASE ~HasUdh
      BY <2>3, <2>4, <2>5, <3>2 DEF part, ThePart
    <3> QED
      BY <3>1, <3>2, Sizes, <1>3
  <2>7. part \in PartValues
    BY <1>3, <1>4, <2>2, <2>6, PartUnits
  <2>8. textLen' = Len(Units) - CutAt(iPart + 1) /\ textLen' \in Nat
    <3>1. CutAt(iPart + 1) \in 0..Len(Units) /\ CutAt(iPart) \in 0..Len(Units)
      BY <1>5, <1>6
    <3> QED
      BY <1>1, <1>4, <2>2, <2>4, <3>1
  <2>9. TextTypes'
    <3>1. outList' \in Seq(PartValues)
      BY <1>1, <1>3, <2>7 DEF TextTypes
    <3> QED
      BY <1>1, <1>2, <1>3, <1>6, <2>3, <2>8, <3>1 DEF TextTypes
  <2>10. Len(outList') = iPart + 1 /\ outList'[iPart + 1] = part /\ \A i \in 1..iPart : outList'[i] = outList[i]
    BY <1>1, <1>3, <1>6, <2>2, <2>7 DEF TextTypes
  <2>11. \A i \in 1..(iPart + 1) : outList'[i] = ThePart(i)
    <3>1. \A i \in 1..iPart : outList[i] = ThePart(i)
      BY <2>1 DEF CutSoFar
    <3> QED
      BY <1>6, <2>6, <2>10, <3>1
  <2>12. CutSoFar'
    <3>1. iPart' = iPart + 1 /\ iPart' \in 0..NParts /\ stage' # "receive"
      BY <1>1, <1>6, <2>2, <2>3
    <3>2. NParts' = NParts /\ Len(Units)' = Len(Units) /\ CutAt(iPart)' = CutAt(iPart + 1)
      BY <1>2, <3>1 DEF CutAt
    <3>3. \A i \in 1..iPart' : outList'[i] = ThePart(i)'
      BY <1>2, <2>11, <3>1
    <3> QED
      BY <2>8, <2>10, <3>1, <3>2, <3>3 DEF CutSoFar
  <2>13. CutInv'
    BY <1>1, <1>2, <1>3, <1>9, <2>12 DEF CutInv
  <2> QED
    BY <1>2, <1>3, <1>8, <2>9, <2>13 DEF TextInv
<1>10. CASE ~ (NParts <= MaxParts)
  <2>1. textLen <= Len(Units)
    BY <1>1, <1>10 DEF TextInv, CutInv
  <2>2. /\ size \in Nat /\ textLen - size \in Nat /\ textLen - size <= Len(Units)
        /\ txt \in Nat /\ txt + size <= Len(Units)
    BY <1>4, <1>6, <2>1 DEF size, txt, Least
  <2>3. SubSeq(Units, txt + 1, txt + size) \in Seq(UnitValues) \cup Seq(TextCharacters)
    <3>1. ASSUME NEW S, Units \in Seq(S) PROVE SubSeq(Units, txt + 1, txt + size) \in Seq(S)
      BY <1>4, <2>2, <3>1
    <3> QED
      BY <1>3, <3>1, Sizes
  <2>4. part \in PartValues
    <3> DEFINE x == IF HasUdh THEN Byte(iPart + 1) ELSE 0
               y == IF HasUdh THEN Byte(NParts) ELSE 0
               z == size + (IF HasUdh THEN UdhLen[Scheme] ELSE 0)
               v == SubSeq(Units, txt + 1, txt + size)
    <3>1. Byte(NParts) \in Nat
      BY <1>5, <1>6 DEF Byte
    <3>2. x \in Nat /\ y \in Nat /\ z \in Nat /\ Scheme \in Schemes
      BY <1>3, <1>7, <2>2, <3>1, Sizes
    <3>3. part = [scheme |-> Scheme, number |-> x, total |-> y, udl |-> z, units |-> v]
      BY DEF part
    <3>4. v \in Seq(UnitValues) \cup Seq(TextCharacters)
      BY <2>3
    <3> HIDE DEF x, y, z, v
    <3> QED
      BY <3>2, <3>3, <3>4 DEF PartValues
  <2>5. TextTypes'
    BY <1>1, <1>2, <1>3, <1>7, <2>2, <2>4 DEF TextTypes
  <2>6. CutInv'
    BY <1>1, <1>2, <1>3, <1>7, <1>10, <2>2 DEF CutInv
  <2> QED
    BY <1>2, <1>3, <1>8, <2>5, <2>6 DEF TextInv
<1> QED
  BY <1>9, <1>10

LEMMA SendAllKeeps ==
    ASSUME TextInv, SendAll
    PROVE  TextInv'
<1>1. /\ stage = "cut" /\ stage' = "receive" /\ iPart >= NParts
      /\ UNCHANGED <<scanVars, textLen, iPart, outList, reading, septet, decoded>>
  BY DEF SendAll, cutVars, receiveVars
<1>2. /\ UNCHANGED <<sText, sms7BitText, found, Scheme, Units, HasUdh, PartSize, NParts, LaidOut>>
      /\ \A i : CutAt(i)' = CutAt(i) /\ ThePart(i)' = ThePart(i)
  BY <1>1, Steady
<1>3. TextTypes /\ LaidOut /\ sText # <<>> /\ sText \in Seq(TextCharacters)
      /\ reading = 1 /\ septet = 0 /\ decoded = [esc |-> FALSE, out |-> <<>>]
  BY <1>1 DEF TextInv, TextTypes, CutInv, ReadInv, ReadSoFar
<1>4. Len(Units) > 0 /\ Len(Units) \in Nat
      /\ (Scheme = "pdu7" => \E at : LaidAt(at, sText, sms7BitText))
  BY <1>3, SomeUnits, Sizes
<1>5. /\ NParts \in Nat \ {0} /\ CutAt(0) = 0
      /\ \A i \in Nat : CutAt(i) \in 0..Len(Units)
      /\ CutAt(0) < CutAt(0 + 1)
  BY <1>4, <1>3, Cuts
<1>6. MaxParts \in Nat
  BY LengthAssumption
<1>7. NParts <= MaxParts /\ CutSoFar
  BY <1>1, <1>5, <1>6 DEF TextInv, CutInv
<1>8. iPart = NParts
  BY <1>1, <1>5, <1>7 DEF CutSoFar
<1>9. TextTypes'
  BY <1>1, <1>2, <1>3 DEF TextTypes
<1>10. CutInv'
  <2>1. CutSoFar'
    BY <1>1, <1>2, <1>7, <1>8 DEF CutSoFar
  <2> QED
    BY <1>1, <1>2, <1>3, <1>7, <2>1 DEF CutInv
<1>11. ReadInv'
  <2>1. /\ reading' = 1 /\ septet' = 0 /\ decoded' = [esc |-> FALSE, out |-> <<>>]
        /\ CutAt(reading - 1)' = 0 /\ CutAt(reading)' - CutAt(reading - 1)' >= 0
    <3>1. reading - 1 = 0 /\ reading = 1 /\ CutAt(1) \in Nat
      BY <1>3, <1>5
    <3>2. CutAt(reading - 1)' = CutAt(0) /\ CutAt(reading)' = CutAt(1)
      BY <1>1, <1>2, <3>1 DEF CutAt
    <3> QED
      BY <1>1, <1>3, <1>5, <3>1, <3>2
  <2>2. CASE Scheme = "pdu7"
    <3>1. PICK at : LaidAt(at, sText, sms7BitText)
      BY <1>4, <2>2
    <3>2. ReadTo(at, 0, 0)'
      <4>1. at[0] = 0 /\ 0 \in 0..Len(sText)
        BY <1>3, <3>1 DEF LaidAt
      <4> QED
        BY <1>2, <2>1, <4>1 DEF ReadTo
    <3>3. LaidAt(at, sText, sms7BitText)'
      BY <1>2, <3>1 DEF LaidAt
    <3>4. CutAt(reading - 1)' + septet' = 0
      BY <2>1
    <3>5. ReadTo(at, 0, CutAt(reading - 1) + septet)'
      BY <3>2, <3>4 DEF ReadTo
    <3>6. \E a : LaidAt(a, sText, sms7BitText)' /\ \E k \in Nat : ReadTo(a, k, CutAt(reading - 1) + septet)'
      BY <3>3, <3>5
    <3> QED
      BY <1>1, <1>2, <1>5, <2>1, <2>2, <3>6 DEF ReadInv, ReadSoFar
  <2>3. CASE Scheme # "pdu7"
    <3>1. decoded'.out = SubSeq(sText, 1, 0)
      BY <1>3, <2>1
    <3> QED
      BY <1>1, <1>2, <1>5, <2>1, <2>3, <3>1 DEF ReadInv, ReadSoFar
  <2> QED
    BY <2>2, <2>3
<1> QED
  BY <1>2, <1>3, <1>9, <1>10, <1>11 DEF TextInv

-----------------------------------------------------------------------------
(* Decoding.                                                               *)

\* What a part that is being received holds.
LEMMA PartArriving ==
    ASSUME TextInv, Arriving
    PROVE  /\ reading \in 1..NParts /\ NParts \in Nat \ {0} /\ Len(outList) = NParts
           /\ NParts <= MaxParts /\ CutSoFar
           /\ Len(Units) > 0 /\ Len(Units) \in Nat
           /\ Part = ThePart(reading)
           /\ CutAt(reading - 1) \in 0..Len(Units) /\ CutAt(reading) \in 0..Len(Units)
           /\ CutAt(reading) - CutAt(reading - 1) \in Nat \ {0}
           /\ septet \in 0..(CutAt(reading) - CutAt(reading - 1))
<1>1. stage = "receive" /\ TextTypes /\ LaidOut /\ sText # <<>> /\ NParts <= MaxParts /\ CutSoFar
  BY DEF TextInv, Arriving, CutInv
<1>2. Len(Units) > 0 /\ Len(Units) \in Nat
  BY <1>1, SomeUnits, Sizes
<1>3. NParts \in Nat \ {0} /\ \A i \in Nat : CutAt(i) \in 0..Len(Units)
  BY <1>1, <1>2, Cuts
<1>4. Len(outList) = NParts /\ reading \in 1..NParts
  BY <1>1, <1>3 DEF TextInv, ReadInv, ReadSoFar, CutSoFar, Arriving
<1>5. Part = ThePart(reading)
  BY <1>1, <1>4 DEF CutSoFar, Part
<1>6. CutAt(reading - 1) \in 0..Len(Units) /\ CutAt(reading) \in 0..Len(Units)
  <2>1. reading - 1 \in Nat /\ reading \in Nat
    BY <1>4
  <2> QED
    BY <1>3, <2>1
<1>7. CutAt(reading) - CutAt(reading - 1) \in Nat \ {0}
  BY <1>1, <1>2, <1>4, PartUnits
<1>8. septet \in 0..(CutAt(reading) - CutAt(reading - 1))
  BY <1>1, <1>4, <1>7 DEF TextInv, TextTypes, ReadInv, ReadSoFar
<1> QED
  BY <1>1, <1>2, <1>3, <1>4, <1>5, <1>6, <1>7, <1>8

\* An earlier escape at the end of a part is not undone.
LEMMA CutBeforeStays ==
    ASSUME CutBefore, outList' = outList, reading \in Nat, reading' \in {reading, reading + 1}
    PROVE  CutBefore'
<1>1. PICK i \in 1..(reading - 1) : outList[i].units[Len(outList[i].units)] = ESC
  BY DEF CutBefore
<1>2. CASE reading' = reading
  BY <1>1, <1>2 DEF CutBefore
<1>3. CASE reading' = reading + 1
  <2>1. i \in 1..((reading + 1) - 1)
    BY <1>1
  <2> QED
    BY <1>1, <1>3, <2>1 DEF CutBefore
<1> QED
  BY <1>2, <1>3

\* Decoding one unit that lies where the table says.
LEMMA OneUnit ==
    ASSUME TextTypes, NEW at, LaidAt(at, sText, sms7BitText), NEW k \in Nat, NEW pos \in Nat,
           ReadTo(at, k, pos), pos < Len(sms7BitText), UNCHANGED <<sText, sms7BitText>>,
           decoded' = Step(decoded, sms7BitText[pos + 1])
    PROVE  /\ decoded' \in [esc : BOOLEAN, out : Seq(TextCharacters)]
           /\ \E m \in Nat : ReadTo(at, m, pos + 1)'
           /\ decoded'.esc => sms7BitText[pos + 1] = ESC
<1> DEFINE n == Len(sText)
           u == sms7BitText[pos + 1]
<1>1. /\ sText \in Seq(TextCharacters) /\ n \in Nat /\ Len(sms7BitText) \in Nat
      /\ decoded \in [esc : BOOLEAN, out : Seq(TextCharacters)]
  BY DEF TextTypes
<1>2. /\ at \in [0..n -> Nat] /\ at[n] = Len(sms7BitText)
      /\ \A i \in 1..n :
         \/ /\ sText[i].table = "basic" /\ at[i] = at[i - 1] + 1
            /\ sms7BitText[at[i]] = Code(sText[i].code)
         \/ /\ sText[i].table = "extension" /\ at[i] = at[i - 1] + 2
            /\ sms7BitText[at[i - 1] + 1] = ESC /\ sms7BitText[at[i]] = Code(sText[i].code)
  BY DEF LaidAt
<1>3. /\ k \in 0..n /\ Len(decoded.out) = k
      /\ \A j \in 1..k : decoded.out[j] = sText[j]
      /\ IF decoded.esc THEN k < n /\ sText[k + 1].table = "extension" /\ pos = at[k] + 1
         ELSE pos = at[k]
  BY DEF ReadTo
<1>4. k < n /\ k + 1 \in 1..n /\ (k + 1) - 1 = k
  BY <1>1, <1>2, <1>3
<1> DEFINE c == sText[k + 1]
<1>5. c \in TextCharacters /\ c = [table |-> c.table, code |-> c.code]
  <2>1. c \in TextCharacters
    BY <1>1, <1>4
  <2> HIDE DEF c
  <2>2. \A x \in TextCharacters : x = [table |-> x.table, code |-> x.code]
    BY DEF TextCharacters
  <2> QED
    BY <2>1, <2>2
<1>6. at[k] \in Nat /\ at[k + 1] \in Nat
  BY <1>2, <1>3, <1>4
<1>7. \/ c.table = "basic" /\ at[k + 1] = at[k] + 1 /\ sms7BitText[at[k + 1]] = Code(c.code)
      \/ /\ c.table = "extension" /\ at[k + 1] = at[k] + 2
         /\ sms7BitText[at[k] + 1] = ESC /\ sms7BitText[at[k + 1]] = Code(c.code)
  BY <1>2, <1>4
<1> HIDE DEF c, n, u
<1>8. CASE decoded.esc = FALSE /\ c.table = "extension"
  <2>1. u = ESC
    BY <1>3, <1>7, <1>8 DEF u
  <2>2. decoded' = [decoded EXCEPT !.esc = TRUE]
    BY <2>1 DEF Step, ESC, u
  <2>3. decoded'.esc = TRUE /\ decoded'.out = decoded.out
        /\ decoded' \in [esc : BOOLEAN, out : Seq(TextCharacters)]
    BY <1>1, <2>2
  <2>4. ReadTo(at, k, pos + 1)'
    BY <1>3, <1>4, <1>8, <2>3 DEF ReadTo, c, n
  <2> QED
    BY <2>1, <2>3, <2>4 DEF u
<1>9. CASE decoded.esc = TRUE \/ c.table = "basic"
  <2>1. u = Code(c.code) /\ pos + 1 = at[k + 1]
    <3>1. CASE decoded.esc = TRUE
      BY <1>3, <1>6, <1>7, <3>1 DEF u, c
    <3>2. CASE decoded.esc # TRUE
      BY <1>1, <1>3, <1>6, <1>7, <1>9, <3>2 DEF u, c
    <3> QED
      BY <3>1, <3>2
  <2>2. c.table = IF decoded.esc THEN "extension" ELSE "basic"
    <3>1. CASE decoded.esc = TRUE
      BY <1>3, <3>1 DEF c
    <3>2. CASE decoded.esc # TRUE
      BY <1>1, <1>9, <3>2
    <3> QED
      BY <3>1, <3>2
  <2>3. decoded' = [esc |-> FALSE, out |-> Append(decoded.out, c)]
    <3>1. decoded' = Step(decoded, Code(c.code))
      BY <2>1 DEF u
    <3> QED
      BY <1>5, <2>2, <3>1 DEF Step, Code
  <2>4. /\ decoded'.esc = FALSE /\ decoded'.out = Append(decoded.out, c)
        /\ decoded' \in [esc : BOOLEAN, out : Seq(TextCharacters)]
    BY <1>1, <1>5, <2>3
  <2>5. ReadTo(at, k + 1, pos + 1)'
    <3>1. Len(decoded'.out) = k + 1 /\ \A j \in 1..(k + 1) : decoded'.out[j] = sText[j]
      BY <1>1, <1>3, <1>5, <2>4 DEF c
    <3>2. k + 1 \in 0..Len(sText')
      BY <1>4 DEF n
    <3> QED
      BY <2>1, <2>4, <3>1, <3>2 DEF ReadTo
  <2> QED
    BY <2>4, <2>5
<1> QED
  BY <1>1, <1>7, <1>8, <1>9

LEMMA DecodeSeptetKeeps ==
    ASSUME TextInv, DecodeSeptet
    PROVE  TextInv'
<1>1. /\ Arriving /\ Part.scheme = "pdu7" /\ septet < Len(Part.units) /\ septet' = septet + 1
      /\ decoded' = Step(decoded, Part.units[septet + 1])
      /\ UNCHANGED <<stage, scanVars, textLen, iPart, outList, reading>>
  BY DEF DecodeSeptet, cutVars
<1>2. /\ UNCHANGED <<sText, sms7BitText, found, Scheme, Units, HasUdh, PartSize, NParts, LaidOut>>
      /\ \A i : CutAt(i)' = CutAt(i) /\ ThePart(i)' = ThePart(i)
  BY <1>1, Steady
<1>3. TextTypes /\ LaidOut /\ CutInv /\ ReadInv /\ stage = "receive"
  BY <1>1 DEF TextInv, Arriving
<1> DEFINE a == CutAt(reading - 1)
           size == CutAt(reading) - CutAt(reading - 1)
<1>4. /\ reading \in 1..NParts /\ NParts \in Nat \ {0} /\ Len(Units) > 0 /\ Len(Units) \in Nat
      /\ Part = ThePart(reading) /\ outList[reading] = ThePart(reading)
      /\ a \in 0..Len(Units) /\ CutAt(reading) \in 0..Len(Units)
      /\ size \in Nat \ {0} /\ septet \in 0..size
  BY <1>1, PartArriving DEF Part
<1>5. /\ Part.scheme = Scheme /\ Len(Part.units) = size
      /\ \A j \in 1..size : Part.units[j] = Units[a + j]
  BY <1>3, <1>4, PartUnits
<1>6. Scheme = "pdu7" /\ Units = sms7BitText /\ septet < size
  BY <1>1, <1>5 DEF Units
<1>7. a' = a /\ size' = size /\ CutAt(reading)' = CutAt(reading)
  BY <1>1, <1>2 DEF CutAt
<1>8. /\ a \in Nat /\ septet \in Nat /\ septet + 1 \in 1..size /\ (a + septet) + 1 = a + (septet + 1)
      /\ a + septet < Len(sms7BitText) /\ a + septet \in Nat
  BY <1>4, <1>6
<1>9. Part.units[septet + 1] = sms7BitText[(a + septet) + 1]
  BY <1>5, <1>6, <1>8
<1> HIDE DEF a, size
<1>10. CutInv'
  <2>1. CutSoFar => CutSoFar'
    BY <1>1, <1>2, <1>3 DEF CutSoFar, CutAt
  <2> QED
    BY <1>1, <1>2, <1>3, <2>1 DEF CutInv
<1>11. decoded' \in [esc : BOOLEAN, out : Seq(TextCharacters)]
  <2>1. decoded \in [esc : BOOLEAN, out : Seq(TextCharacters)] /\ sms7BitText \in Seq(UnitValues)
    BY <1>3 DEF TextTypes
  <2>2. sms7BitText[(a + septet) + 1] \in UnitValues
    BY <1>8, <2>1
  <2> DEFINE u == sms7BitText[(a + septet) + 1]
  <2>3. u \in UnitValues /\ decoded' = Step(decoded, u)
    BY <1>1, <1>9, <2>2
  <2> HIDE DEF u
  <2>4. CASE u = ESC
    <3>1. decoded' = [decoded EXCEPT !.esc = TRUE]
      BY <2>3, <2>4 DEF Step, ESC
    <3> QED
      BY <2>1, <3>1
  <2>5. CASE \E c \in Nat : u = Code(c)
    <3>1. PICK c \in Nat : u = Code(c)
      BY <2>5
    <3> DEFINE x == [table |-> IF decoded.esc THEN "extension" ELSE "basic", code |-> c]
    <3>2. decoded' = [esc |-> FALSE, out |-> Append(decoded.out, x)]
      BY <2>3, <3>1 DEF Step, Code
    <3>3. x \in TextCharacters
      BY DEF TextCharacters, Tables
    <3> HIDE DEF x
    <3> QED
      BY <2>1, <3>2, <3>3
  <2> QED
    BY <2>3, <2>4, <2>5 DEF UnitValues
<1>12. decoded'.esc => Part.units[septet + 1] = ESC
  <2>1. decoded.esc \in BOOLEAN
    BY <1>3 DEF TextTypes
  <2> DEFINE u == Part.units[septet + 1]
  <2>2. CASE u = ESC
    BY <2>2
  <2>3. CASE \E c \in Nat : u = Code(c)
    BY <1>1, <2>3 DEF Step, Code
  <2>4. u \in UnitValues
    BY <1>3, <1>8, <1>9 DEF TextTypes
  <2> QED
    BY <2>2, <2>3, <2>4 DEF UnitValues
<1>13. CutBefore' \/ \E at : LaidAt(at, sText, sms7BitText)' /\ \E k \in Nat : ReadTo(at, k, CutAt(reading - 1) + septet)'
  <2>1. CASE CutBefore
    <3>1. CutBefore'
      BY <1>1, <1>3, <2>1, CutBeforeStays DEF TextTypes
    <3> QED
      BY <3>1
  <2>2. CASE ~CutBefore
    <3>1. PICK at : LaidAt(at, sText, sms7BitText) /\ \E k \in Nat : ReadTo(at, k, CutAt(reading - 1) + septet)
      BY <1>3, <1>6, <2>2 DEF ReadInv, ReadSoFar
    <3>2. PICK k \in Nat : ReadTo(at, k, a + septet)
      BY <3>1 DEF a
    <3>3. PICK p \in Nat : p = a + septet
      BY <1>8
    <3>4. PICK m \in Nat : ReadTo(at, m, p + 1)'
      <4>1. decoded' = Step(decoded, sms7BitText[p + 1])
        BY <1>1, <1>9, <3>3
      <4>2. ReadTo(at, k, p) /\ p < Len(sms7BitText)
        BY <1>8, <3>2, <3>3
      <4>3. UNCHANGED <<sText, sms7BitText>>
        BY <1>2
      <4> QED
        BY <1>3, <3>1, <4>1, <4>2, <4>3, OneUnit
    <3>5. (CutAt(reading - 1) + septet)' = p + 1
      BY <1>1, <1>7, <1>8, <3>3 DEF a
    <3>6. ReadTo(at, m, CutAt(reading - 1) + septet)'
      BY <3>4, <3>5 DEF ReadTo
    <3>7. LaidAt(at, sText, sms7BitText)'
      BY <1>2, <3>1 DEF LaidAt
    <3> QED
      BY <3>6, <3>7
  <2> QED
    BY <2>1, <2>2
<1>14. ReadInv'
  <2>1. /\ reading' \in 1..(NParts' + 1) /\ reading' # NParts' + 1 /\ stage' = "receive" /\ septet' # 0
        /\ septet' <= CutAt(reading)' - CutAt(reading - 1)' /\ Scheme' = "pdu7"
    BY <1>1, <1>2, <1>3, <1>4, <1>6, <1>7, <1>8 DEF a, size
  <2>2. decoded'.esc => outList'[reading'].units[septet'] = ESC
    BY <1>1, <1>12 DEF Part
  <2> QED
    BY <1>13, <2>1, <2>2 DEF ReadInv, ReadSoFar
<1>15. TextTypes'
  BY <1>1, <1>2, <1>3, <1>8, <1>11 DEF TextTypes
<1> QED
  BY <1>2, <1>3, <1>10, <1>14, <1>15 DEF TextInv

LEMMA NextPartKeeps ==
    ASSUME TextInv, NextPart
    PROVE  TextInv'
<1>1. /\ Arriving /\ Part.scheme = "pdu7" /\ septet = Len(Part.units)
      /\ reading' = reading + 1 /\ septet' = 0 /\ decoded' = [decoded EXCEPT !.esc = FALSE]
      /\ UNCHANGED <<stage, scanVars, textLen, iPart, outList>>
  BY DEF NextPart, cutVars
<1>2. /\ UNCHANGED <<sText, sms7BitText, found, Scheme, Units, HasUdh, PartSize, NParts, LaidOut>>
      /\ \A i : CutAt(i)' = CutAt(i) /\ ThePart(i)' = ThePart(i)
  BY <1>1, Steady
<1>3. TextTypes /\ LaidOut /\ CutInv /\ ReadInv /\ stage = "receive"
  BY <1>1 DEF TextInv, Arriving
<1>4. /\ reading \in 1..NParts /\ NParts \in Nat \ {0} /\ Len(Units) > 0 /\ Len(Units) \in Nat
      /\ Part = ThePart(reading) /\ outList[reading] = ThePart(reading)
      /\ CutAt(reading - 1) \in 0..Len(Units) /\ CutAt(reading) \in 0..Len(Units)
      /\ CutAt(reading) - CutAt(reading - 1) \in Nat \ {0}
  BY <1>1, PartArriving DEF Part
<1>5. Part.scheme = Scheme /\ septet = CutAt(reading) - CutAt(reading - 1) /\ Len(Part.units) = septet
  BY <1>1, <1>3, <1>4, PartUnits
<1>6. decoded' \in [esc : BOOLEAN, out : Seq(TextCharacters)] /\ decoded'.esc = FALSE
      /\ decoded'.out = decoded.out
  BY <1>1, <1>3 DEF TextTypes
<1>7. CutInv'
  <2>1. CutSoFar => CutSoFar'
    BY <1>1, <1>2, <1>3 DEF CutSoFar, CutAt
  <2> QED
    BY <1>1, <1>2, <1>3, <2>1 DEF CutInv
<1>8. reading \in Nat /\ reading' - 1 = reading /\ CutAt(reading - 1)' = CutAt(reading)
  <2>1. reading \in Nat /\ reading' - 1 = reading
    BY <1>1, <1>4
  <2> QED
    BY <1>2, <2>1 DEF CutAt
<1>9. CutBefore' \/ \E at : LaidAt(at, sText, sms7BitText)' /\ \E k \in Nat : ReadTo(at, k, CutAt(reading - 1) + septet)'
  <2>1. CASE CutBefore
    <3>1. CutBefore'
      BY <1>1, <1>3, <2>1, CutBeforeStays DEF TextTypes
    <3> QED
      BY <3>1
  <2>2. CASE decoded.esc
    <3>1. outList[reading].units[Len(outList[reading].units)] = ESC
      BY <1>3, <1>4, <1>5, <2>2 DEF ReadInv, ReadSoFar
    <3>2. reading \in 1..(reading' - 1)
      BY <1>8, <1>4
    <3> QED
      BY <1>1, <3>1, <3>2 DEF CutBefore
  <2>3. CASE ~CutBefore /\ ~decoded.esc
    <3>1. PICK at : LaidAt(at, sText, sms7BitText) /\ \E k \in Nat : ReadTo(at, k, CutAt(reading - 1) + septet)
      BY <1>1, <1>3, <1>5, <2>3 DEF ReadInv, ReadSoFar
    <3>2. PICK k \in Nat : ReadTo(at, k, CutAt(reading - 1) + septet)
      BY <3>1
    <3>3. CutAt(reading - 1) + septet = CutAt(reading) /\ CutAt(reading) + 0 = CutAt(reading)
      BY <1>4, <1>5
    <3>4. (CutAt(reading - 1) + septet)' = CutAt(reading)
      BY <1>1, <1>8, <3>3
    <3>5. ReadTo(at, k, CutAt(reading - 1) + septet)'
      BY <1>2, <1>6, <2>3, <3>2, <3>3, <3>4 DEF ReadTo
    <3>6. LaidAt(at, sText, sms7BitText)'
      BY <1>2, <3>1 DEF LaidAt
    <3> QED
      BY <3>5, <3>6
  <2> QED
    BY <2>1, <2>2, <2>3
<1>10. ReadInv'
  <2>1. /\ reading' \in 1..(NParts' + 1) /\ stage' = "receive" /\ Scheme' = "pdu7"
        /\ septet' = 0 /\ ~decoded'.esc
    BY <1>1, <1>2, <1>3, <1>4, <1>5, <1>6
  <2>2. reading' <= NParts' => septet' <= CutAt(reading)' - CutAt(reading - 1)'
    <3>1. SUFFICES ASSUME reading + 1 <= NParts
                   PROVE  0 <= CutAt(reading + 1) - CutAt(reading)
      <4>1. CutAt(reading)' = CutAt(reading + 1)
        BY <1>1, <1>2 DEF CutAt
      <4> QED
        BY <1>1, <1>2, <1>8, <4>1
    <3>2. reading < NParts /\ reading \in Nat /\ reading + 1 \in Nat
      BY <1>4, <3>1
    <3>3. CutAt(reading) < CutAt(reading + 1) /\ CutAt(reading + 1) \in Nat /\ CutAt(reading) \in Nat
      BY <1>3, <1>4, <3>2, Cuts
    <3> QED
      BY <3>3
  <2> QED
    BY <1>9, <2>1, <2>2 DEF ReadInv, ReadSoFar
<1>11. TextTypes'
  BY <1>1, <1>2, <1>3, <1>6, <1>8 DEF TextTypes
<1> QED
  BY <1>2, <1>3, <1>7, <1>10, <1>11 DEF TextInv

LEMMA TwoPieces ==
    ASSUME NEW S, NEW s \in Seq(S), NEW a \in Nat, NEW b \in Nat, a <= b, b <= Len(s)
    PROVE  /\ SubSeq(s, 1, a) \o SubSeq(s, a + 1, b) = SubSeq(s, 1, b)
           /\ SubSeq(s, 1, b) \in Seq(S)
<1>1. SubSeq(s, 1, a) \in Seq(S) /\ Len(SubSeq(s, 1, a)) = a
      /\ \A j \in 1..a : SubSeq(s, 1, a)[j] = s[j]
  OBVIOUS
<1>2. SubSeq(s, a + 1, b) \in Seq(S) /\ Len(SubSeq(s, a + 1, b)) = b - a
      /\ \A j \in 1..(b - a) : SubSeq(s, a + 1, b)[j] = s[a + j]
  OBVIOUS
<1>3. SubSeq(s, 1, b) \in Seq(S) /\ Len(SubSeq(s, 1, b)) = b
      /\ \A j \in 1..b : SubSeq(s, 1, b)[j] = s[j]
  OBVIOUS
<1> DEFINE x == SubSeq(s, 1, a)
           y == SubSeq(s, a + 1, b)
           z == SubSeq(s, 1, b)
<1> HIDE DEF x, y, z
<1>4. x \o y \in Seq(S) /\ Len(x \o y) = b
      /\ \A j \in 1..b : (x \o y)[j] = IF j <= a THEN x[j] ELSE y[j - a]
  <2>1. x \in Seq(S) /\ Len(x) = a /\ y \in Seq(S) /\ Len(y) = b - a
    BY <1>1, <1>2 DEF x, y
  <2>2. Len(x) + Len(y) = b
    BY <2>1
  <2>3. /\ x \o y \in Seq(S) /\ Len(x \o y) = Len(x) + Len(y)
        /\ \A j \in 1..(Len(x) + Len(y)) : (x \o y)[j] = IF j <= Len(x) THEN x[j] ELSE y[j - Len(x)]
    BY <2>1, ConcatProperties
  <2> DEFINE w == x \o y
             m == Len(x)
             n == Len(x) + Len(y)
  <2>4. m = a /\ n = b /\ w \in Seq(S) /\ Len(w) = n
        /\ \A j \in 1..n : w[j] = IF j <= m THEN x[j] ELSE y[j - m]
    BY <2>1, <2>2, <2>3
  <2> HIDE DEF w, m, n
  <2>5. w \in Seq(S) /\ Len(w) = b /\ \A j \in 1..b : w[j] = IF j <= a THEN x[j] ELSE y[j - a]
    BY <2>4
  <2> QED
    BY <2>5 DEF w
<1>5. \A j \in 1..b : (x \o y)[j] = z[j]
  <2> TAKE j \in 1..b
  <2>1. CASE j <= a
    BY <1>1, <1>3, <1>4, <2>1 DEF x, z
  <2>2. CASE ~ (j <= a)
    <3>1. j - a \in 1..(b - a) /\ a + (j - a) = j
      BY <2>2
    <3>2. y[j - a] = s[j]
      BY <1>2, <3>1 DEF y
    <3> QED
      BY <1>3, <1>4, <2>2, <3>2 DEF z
  <2> QED
    BY <2>1, <2>2
<1>6. x \o y = z
  <2>1. z \in Seq(S) /\ Len(z) = b
    BY <1>3 DEF z
  <2> DEFINE w == x \o y
  <2>2. w \in Seq(S) /\ Len(w) = b /\ \A j \in 1..b : w[j] = z[j]
    BY <1>4, <1>5
  <2> HIDE DEF w
  <2>3. w = z
    BY <2>1, <2>2
  <2> QED
    BY <2>3 DEF w
<1> QED
  BY <1>3, <1>6 DEF x, y, z

LEMMA CopyPartKeeps ==
    ASSUME TextInv, CopyPart
    PROVE  TextInv'
<1>1. /\ Arriving /\ Part.scheme # "pdu7" /\ reading' = reading + 1
      /\ decoded' = [decoded EXCEPT !.out = @ \o Part.units]
      /\ UNCHANGED <<stage, scanVars, textLen, iPart, outList, septet>>
  BY DEF CopyPart, cutVars
<1>2. /\ UNCHANGED <<sText, sms7BitText, found, Scheme, Units, HasUdh, PartSize, NParts, LaidOut>>
      /\ \A i : CutAt(i)' = CutAt(i) /\ ThePart(i)' = ThePart(i)
  BY <1>1, Steady
<1>3. TextTypes /\ LaidOut /\ CutInv /\ ReadInv /\ stage = "receive"
  BY <1>1 DEF TextInv, Arriving
<1>4. /\ reading \in 1..NParts /\ NParts \in Nat \ {0} /\ Len(Units) > 0 /\ Len(Units) \in Nat
      /\ Part = ThePart(reading)
      /\ CutAt(reading - 1) \in 0..Len(Units) /\ CutAt(reading) \in 0..Len(Units)
      /\ CutAt(reading) - CutAt(reading - 1) \in Nat \ {0}
  BY <1>1, PartArriving
<1>5. Part.scheme = Scheme /\ Part.units = SubSeq(Units, CutAt(reading - 1) + 1, CutAt(reading))
  BY <1>3, <1>4, PartUnits
<1>6. Scheme # "pdu7" /\ Units = sText
  BY <1>1, <1>5 DEF Units
<1>7. decoded \in [esc : BOOLEAN, out : Seq(TextCharacters)] /\ sText \in Seq(TextCharacters)
  BY <1>3 DEF TextTypes
<1>8. septet = 0 /\ decoded.out = SubSeq(sText, 1, CutAt(reading - 1)) /\ ~decoded.esc
  BY <1>3, <1>6 DEF ReadInv, ReadSoFar
<1>9. decoded'.esc = FALSE /\ decoded'.out = SubSeq(sText, 1, CutAt(reading))
      /\ decoded' \in [esc : BOOLEAN, out : Seq(TextCharacters)]
  <2> DEFINE a == CutAt(reading - 1)
             b == CutAt(reading)
  <2>1. a \in Nat /\ b \in Nat /\ a <= b /\ b <= Len(sText)
    BY <1>4, <1>6
  <2> HIDE DEF a, b
  <2>2. SubSeq(sText, 1, a) \o SubSeq(sText, a + 1, b) = SubSeq(sText, 1, b)
        /\ SubSeq(sText, 1, b) \in Seq(TextCharacters)
    BY <1>7, <2>1, TwoPieces
  <2>3. decoded.out \o Part.units = SubSeq(sText, 1, b)
    BY <1>5, <1>6, <1>8, <2>2 DEF a, b
  <2>4. decoded' = [decoded EXCEPT !.out = SubSeq(sText, 1, b)]
    BY <1>1, <2>3
  <2> DEFINE z == SubSeq(sText, 1, b)
  <2>5. z \in Seq(TextCharacters) /\ decoded' = [decoded EXCEPT !.out = z]
    BY <2>2, <2>4
  <2> HIDE DEF z
  <2>6. decoded'.esc = FALSE /\ decoded'.out = z /\ decoded' \in [esc : BOOLEAN, out : Seq(TextCharacters)]
    BY <1>7, <1>8, <2>5
  <2> QED
    BY <2>6 DEF z, b
<1>10. CutInv'
  <2>1. CutSoFar => CutSoFar'
    BY <1>1, <1>2, <1>3 DEF CutSoFar, CutAt
  <2> QED
    BY <1>1, <1>2, <1>3, <2>1 DEF CutInv
<1>11. reading \in Nat /\ reading' - 1 = reading /\ CutAt(reading - 1)' = CutAt(reading)
  <2>1. reading \in Nat /\ reading' - 1 = reading
    BY <1>1, <1>4
  <2> QED
    BY <1>2, <2>1 DEF CutAt
<1>12. ReadInv'
  <2>1. /\ reading' \in 1..(NParts' + 1) /\ stage' = "receive" /\ Scheme' # "pdu7"
        /\ septet' = 0 /\ ~decoded'.esc
    BY <1>1, <1>2, <1>3, <1>4, <1>6, <1>8, <1>9
  <2>2. reading' <= NParts' => septet' <= CutAt(reading)' - CutAt(reading - 1)'
    <3>1. SUFFICES ASSUME reading + 1 <= NParts
                   PROVE  0 <= CutAt(reading + 1) - CutAt(reading)
      <4>1. CutAt(reading)' = CutAt(reading + 1)
        BY <1>1, <1>2 DEF CutAt
      <4> QED
        BY <1>1, <1>2, <1>8, <1>11, <4>1
    <3>2. reading < NParts /\ reading \in Nat /\ reading + 1 \in Nat
      BY <1>4, <3>1
    <3>3. CutAt(reading) < CutAt(reading + 1) /\ CutAt(reading + 1) \in Nat /\ CutAt(reading) \in Nat
      BY <1>3, <1>4, <3>2, Cuts
    <3> QED
      BY <3>3
  <2>3. decoded'.out = SubSeq(sText, 1, CutAt(reading - 1))'
    BY <1>2, <1>9, <1>11
  <2> QED
    BY <2>1, <2>2, <2>3 DEF ReadInv, ReadSoFar
<1>13. TextTypes'
  BY <1>1, <1>2, <1>3, <1>9, <1>11 DEF TextTypes
<1> QED
  BY <1>2, <1>3, <1>10, <1>12, <1>13 DEF TextInv

LEMMA Beginning == TextInit => TextInv
<1> SUFFICES ASSUME TextInit PROVE TextInv
  OBVIOUS
<1>1. TextTypes
  BY DEF TextInit, TextTypes
<1>2. LaidOut
  <2> DEFINE at == [i \in 0..0 |-> 0]
  <2>1. sText = <<>> /\ sms7BitText = <<>> /\ Len(sText) = 0 /\ Len(sms7BitText) = 0
    BY DEF TextInit
  <2>2. /\ at \in [0..0 -> Nat] /\ at[0] = 0 /\ 0..0 = {0} /\ 1..0 = {}
    OBVIOUS
  <2> HIDE DEF at
  <2>3. LaidAt(at, sText, sms7BitText)
    BY <2>1, <2>2 DEF LaidAt
  <2> QED
    BY <2>3 DEF LaidOut
<1>3. CutInv /\ ReadInv
  BY DEF TextInit, CutInv, ReadInv, ReadSoFar
<1> QED
  BY <1>1, <1>2, <1>3 DEF TextInv

LEMMA NextTextKeeps ==
    ASSUME NextText
    PROVE  TextInv'
<1>1. TextInit'
  BY DEF NextText, TextInit
<1>2. (TextInit => TextInv)'
  BY Beginning, PTL
<1> QED
  BY <1>1, <1>2

-----------------------------------------------------------------------------
(* The theorems.                                                           *)

\* Whatever the characters of a text are and however long it is, its parts are the
\* consecutive pieces of its units until there are more than an unsigned char can count,
\* and what has been decoded is a beginning of the text unless an escape was cut off
\* (ParseText, decode7bit and ProcessRecvPDU).
THEOREM TextInvariance == TextSpec => []TextInv
<1>1. TextInv /\ [TextNext]_textVars => TextInv'
  <2> SUFFICES ASSUME TextInv, [TextNext]_textVars PROVE TextInv'
    OBVIOUS
  <2>1. TextTypes
    BY DEF TextInv
  <2>2. ASSUME NEW c \in CharactersAt(Len(sText) + 1), Scan(c) PROVE TextInv'
    <3>1. Len(sText) + 1 \in 1..MaxLength
      BY <2>1, <2>2, LengthAssumption DEF Scan, TextTypes
    <3>2. c \in TextCharacters
      BY <3>1, LengthAssumption
    <3> QED
      BY <2>2, <3>2, ScanKeeps
  <2>3. CASE Scan(Space)
    <3>1. Space \in TextCharacters
      BY DEF Space, TextCharacters, Tables
    <3> QED
      BY <2>3, <3>1, ScanKeeps
  <2>4. CASE UNCHANGED textVars
    <3>1. UNCHANGED <<stage, scanVars, textLen, iPart, outList, reading, septet, decoded>>
      BY <2>4 DEF textVars, cutVars, receiveVars
    <3>2. /\ UNCHANGED <<sText, sms7BitText, found, Scheme, Units, HasUdh, PartSize, NParts, LaidOut>>
          /\ \A i : CutAt(i)' = CutAt(i) /\ ThePart(i)' = ThePart(i)
      BY <3>1, Steady
    <3>3. TextTypes'
      BY <2>1, <3>1, <3>2 DEF TextTypes
    <3>4. CutInv'
      <4>1. CutSoFar' = CutSoFar
        BY <3>1, <3>2 DEF CutSoFar, CutAt
      <4> QED
        BY <3>1, <3>2, <4>1 DEF TextInv, CutInv
    <3>5. ReadInv'
      <4>1. CutBefore' = CutBefore /\ CutAt(reading - 1)' = CutAt(reading - 1)
            /\ CutAt(reading)' = CutAt(reading)
        BY <3>1, <3>2 DEF CutBefore, CutAt
      <4>2. ASSUME NEW at, NEW k \in Nat
            PROVE  /\ ReadTo(at, k, CutAt(reading - 1) + septet)' = ReadTo(at, k, CutAt(reading - 1) + septet)
                   /\ LaidAt(at, sText, sms7BitText)' = LaidAt(at, sText, sms7BitText)
        BY <3>1, <3>2, <4>1 DEF LaidAt, ReadTo
      <4>3. ReadSoFar' = ReadSoFar
        BY <4>1, <4>2 DEF ReadSoFar
      <4> QED
        BY <3>1, <3>2, <4>1, <4>3 DEF TextInv, ReadInv
    <3> QED
      BY <3>2, <3>3, <3>4, <3>5 DEF TextInv
  <2> QED
    BY <2>2, <2>3, <2>4, ChooseKeeps, CutPartKeeps, SendAllKeeps, DecodeSeptetKeeps, NextPartKeeps,
       CopyPartKeeps, NextTextKeeps DEF TextNext
<1> QED
  BY Beginning, <1>1, PTL DEF TextSpec

LEMMA CutsAreWell ==
    ASSUME TextInv
    PROVE  WellCut
<1> SUFFICES ASSUME stage = "receive", NEW i \in 1..Len(outList)
             PROVE  /\ outList[i].units # <<>>
                    /\ outList[i].udl <= MaxTextLen[outList[i].scheme]
                    /\ IF Len(outList) = 1 THEN outList[i].total = 0
                       ELSE outList[i].number = i /\ outList[i].total = Len(outList)
  BY DEF WellCut
<1>1. TextTypes /\ LaidOut /\ sText # <<>> /\ CutSoFar
  BY DEF TextInv, CutInv
<1>2. Len(Units) > 0 /\ Len(Units) \in Nat /\ PartSize \in Nat \ {0}
      /\ PartSize + (IF HasUdh THEN UdhLen[Scheme] ELSE 0) = MaxTextLen[Scheme]
      /\ UdhLen[Scheme] \in Nat /\ MaxTextLen[Scheme] \in Nat /\ HasUdh \in BOOLEAN
  BY <1>1, SomeUnits, Sizes
<1>3. /\ NParts \in Nat \ {0} /\ (HasUdh <=> NParts # 1)
      /\ \A j \in Nat : CutAt(j) \in 0..Len(Units)
      /\ \A j \in Nat : j < NParts => CutAt(j + 1) - CutAt(j) = Least(Len(Units) - CutAt(j), PartSize)
  BY <1>1, <1>2, Cuts
<1>4. Len(outList) = NParts /\ i \in 1..NParts /\ outList[i] = ThePart(i)
  BY <1>1 DEF CutSoFar
<1>5. outList[i].units # <<>>
  BY <1>1, <1>2, <1>4, PartUnits
<1> DEFINE size == CutAt(i) - CutAt(i - 1)
           header == IF HasUdh THEN UdhLen[Scheme] ELSE 0
<1>6. size <= PartSize /\ size \in Nat
  <2>1. i - 1 \in Nat /\ i - 1 < NParts /\ (i - 1) + 1 = i
    BY <1>3, <1>4
  <2>2. size = Least(Len(Units) - CutAt(i - 1), PartSize)
    BY <1>3, <2>1
  <2>3. CutAt(i - 1) \in 0..Len(Units)
    BY <1>3, <2>1
  <2> HIDE DEF size
  <2> QED
    BY <1>2, <2>2, <2>3 DEF Least
<1>7. /\ outList[i].udl = size + header /\ outList[i].scheme = Scheme
      /\ outList[i].number = (IF HasUdh THEN i ELSE 0)
      /\ outList[i].total = (IF HasUdh THEN NParts ELSE 0)
  BY <1>4 DEF ThePart
<1>8. PartSize + header = MaxTextLen[Scheme] /\ header \in Nat
  BY <1>2
<1> HIDE DEF size, header
<1>9. outList[i].udl <= MaxTextLen[outList[i].scheme]
  BY <1>2, <1>6, <1>7, <1>8
<1> QED
  BY <1>3, <1>4, <1>5, <1>7, <1>9

LEMMA TextArrives ==
    ASSUME TextInv
    PROVE  ArrivesUnlessCut
<1> SUFFICES ASSUME Arrived, ~EscapeCut PROVE decoded.out = sText
  BY DEF ArrivesUnlessCut
<1>1. TextTypes /\ LaidOut /\ sText # <<>> /\ CutSoFar /\ ReadInv /\ stage = "receive"
  BY DEF TextInv, CutInv, Arrived
<1>2. Len(Units) > 0 /\ Len(Units) \in Nat
  BY <1>1, SomeUnits, Sizes
<1>3. NParts \in Nat \ {0} /\ CutAt(NParts) = Len(Units)
  BY <1>1, <1>2, Cuts
<1>4. Len(outList) = NParts /\ reading = NParts + 1 /\ septet = 0 /\ ~decoded.esc
  BY <1>1, <1>3 DEF CutSoFar, ReadInv, ReadSoFar, Arrived
<1>5. reading - 1 = NParts /\ CutAt(reading - 1) = Len(Units)
  BY <1>3, <1>4
<1>6. sText \in Seq(TextCharacters) /\ decoded.out \in Seq(TextCharacters) /\ outList \in Seq(PartValues)
      /\ Len(sText) \in Nat
  BY <1>1 DEF TextTypes
<1>7. CASE Scheme = "pdu7"
  <2>1. ~CutBefore
    <3>1. DOMAIN outList = 1..(reading - 1)
      BY <1>4, <1>5, <1>6
    <3> QED
      BY <3>1 DEF CutBefore, EscapeCut
  <2>2. PICK at : LaidAt(at, sText, sms7BitText) /\ \E k \in Nat : ReadTo(at, k, CutAt(reading - 1) + septet)
    BY <1>1, <1>7, <2>1 DEF ReadInv, ReadSoFar
  <2>3. PICK k \in Nat : ReadTo(at, k, CutAt(reading - 1) + septet)
    BY <2>2
  <2>4. CutAt(reading - 1) + septet = Len(sms7BitText) /\ Len(sms7BitText) \in Nat
    BY <1>2, <1>4, <1>5, <1>7 DEF Units
  <2>5. /\ k \in 0..Len(sText) /\ Len(decoded.out) = k /\ at[k] = Len(sms7BitText)
        /\ \A j \in 1..k : decoded.out[j] = sText[j]
    BY <1>4, <2>3, <2>4 DEF ReadTo
  <2>6. at[k] + (Len(sText) - k) <= Len(sms7BitText)
    BY <2>2, <2>5 DEF LaidAt
  <2>7. k = Len(sText)
    BY <1>6, <2>4, <2>5, <2>6
  <2> DEFINE x == decoded.out
  <2>8. x \in Seq(TextCharacters) /\ Len(x) = Len(sText) /\ \A j \in 1..Len(sText) : x[j] = sText[j]
    BY <1>6, <2>5, <2>7
  <2> HIDE DEF x
  <2>9. x = sText
    BY <1>6, <2>8
  <2> QED
    BY <2>9 DEF x
<1>8. CASE Scheme # "pdu7"
  <2>1. decoded.out = SubSeq(sText, 1, Len(sText))
    BY <1>1, <1>5, <1>8 DEF ReadInv, ReadSoFar, Units
  <2> QED
    BY <1>6, <2>1
<1> QED
  BY <1>7, <1>8

\* A text of any characters and any length is cut into numbered parts that each fit in one
\* SMS, any number of septets lies there as GSM 03.40 says, behind a header too, and a text
\* whose parts no boundary cuts an escape sequence in arrives as it was sent
\* (src/src/PduSMS.cpp:432, src/src/RecvSMS.cpp:366).
THEOREM TextsArrive == ISpec /\ TextSpec => []TextsArriveUnlessCut
<1>1. InputInv /\ TextInv => TextsArriveUnlessCut
  <2> SUFFICES ASSUME InputInv, TextInv PROVE TextsArriveUnlessCut
    OBVIOUS
  <2>1. Len(input.data) \in Nat
    BY DEF InputInv
  <2>2. PackedAsStandard(Len(input.data))
    BY <2>1, AllPacked
  <2>3. \A header \in {0, 6, 7, 13} : ReadAsStandard(Len(input.data), header)
    BY <2>1, AllRead
  <2> QED
    BY <2>2, <2>3, CutsAreWell, TextArrives DEF TextsArriveUnlessCut
<1> QED
  BY <1>1, TextInvariance, InputTypes, PTL

-----------------------------------------------------------------------------
(* The fields of a code.                                                   *)

LEMMA LeastOf ==
    ASSUME NEW S \in SUBSET Nat, S # {}
    PROVE  \E i \in S : \A j \in S : i <= j
<1> DEFINE R == OpToRel(<, Nat)
<1>1. \A i, j \in Nat : j < i => <<j, i>> \in R
  BY DEF OpToRel
<1>2. \E i \in S : \A j \in S : <<j, i>> \notin R
  BY NatLessThanWellFounded, WFMin
<1> HIDE DEF R
<1>3. PICK i \in S : \A j \in S : <<j, i>> \notin R
  BY <1>2
<1>4. \A j \in S : ~(j < i)
  BY <1>1, <1>3
<1> QED
  BY <1>4

\* How many cuts lie before a cut.
Rank(cuts, c) == Cardinality({d \in cuts : d < c})

LEMMA Ranks ==
    ASSUME NEW cuts \in SUBSET Nat, IsFiniteSet(cuts), NEW c \in cuts
    PROVE  IsFiniteSet({d \in cuts : d < c}) /\ Rank(cuts, c) \in Nat
<1>1. IsFiniteSet({d \in cuts : d < c})
  BY FS_Subset
<1> QED
  BY <1>1, FS_CardinalityType DEF Rank

LEMMA RankNext ==
    ASSUME NEW cuts \in SUBSET Nat, IsFiniteSet(cuts), NEW c \in cuts, NEW d \in cuts, c < d,
           \A x \in cuts : x <= c \/ d <= x
    PROVE  Rank(cuts, d) = Rank(cuts, c) + 1
<1>0. c \in Nat /\ d \in Nat /\ \A x \in cuts : x \in Nat
  OBVIOUS
<1>1. {x \in cuts : x < d} = {x \in cuts : x < c} \cup {c}
  <2>1. ASSUME NEW x \in cuts PROVE x < d <=> (x < c \/ x = c)
    BY <1>0
  <2> QED
    BY <2>1
<1>2. c \notin {x \in cuts : x < c}
  OBVIOUS
<1>3. IsFiniteSet({x \in cuts : x < c})
  BY Ranks
<1> QED
  BY <1>1, <1>2, <1>3, FS_AddElement DEF Rank

LEMMA RankGrows ==
    ASSUME NEW cuts \in SUBSET Nat, IsFiniteSet(cuts), NEW c \in cuts, NEW d \in cuts, c < d
    PROVE  Rank(cuts, c) < Rank(cuts, d)
<1> DEFINE A == {x \in cuts : x < c}
           B == {x \in cuts : x < d}
<1>0. c \in Nat /\ d \in Nat /\ \A x \in cuts : x \in Nat
  OBVIOUS
<1>1. A \cup {c} \subseteq B /\ c \notin A
  <2>1. ASSUME NEW x \in cuts PROVE (x < c => x < d) /\ ~(c < c)
    BY <1>0
  <2> QED
    BY <2>1
<1>2. IsFiniteSet(A) /\ IsFiniteSet(B) /\ Rank(cuts, c) = Cardinality(A) /\ Rank(cuts, d) = Cardinality(B)
  BY Ranks DEF Rank
<1> HIDE DEF A, B
<1>3. IsFiniteSet(A \cup {c}) /\ Cardinality(A \cup {c}) = Cardinality(A) + 1
  BY <1>1, <1>2, FS_AddElement
<1>4. Cardinality(A \cup {c}) <= Cardinality(B)
  BY <1>1, <1>2, FS_Subset
<1>5. Cardinality(A) \in Nat /\ Cardinality(B) \in Nat
  BY <1>2, FS_CardinalityType
<1> QED
  BY <1>2, <1>3, <1>4, <1>5

LEMMA RankIs ==
    ASSUME NEW cuts \in SUBSET Nat, IsFiniteSet(cuts), NEW c \in cuts
    PROVE  (CHOOSE x \in cuts : Cardinality({d \in cuts : d < x}) = Rank(cuts, c)) = c
<1>1. ASSUME NEW x \in cuts, Rank(cuts, x) = Rank(cuts, c) PROVE x = c
  <2>0. Rank(cuts, c) \in Nat /\ x \in Nat /\ c \in Nat
    BY Ranks
  <2>1. CASE x < c
    <3>1. Rank(cuts, x) < Rank(cuts, c)
      BY <2>1, RankGrows
    <3> QED
      BY <1>1, <2>0, <3>1
  <2>2. CASE c < x
    <3>1. Rank(cuts, c) < Rank(cuts, x)
      BY <2>2, RankGrows
    <3> QED
      BY <1>1, <2>0, <3>1
  <2> QED
    BY <2>0, <2>1, <2>2
<1>2. \A x \in cuts : Cardinality({d \in cuts : d < x}) = Rank(cuts, x)
  BY DEF Rank
<1> QED
  BY <1>1, <1>2

Framed(code) == WellFramed(code) /\ \E S : code \in Seq(S)

\* The longest opening that a code begins with is an opening.
LEMMA OpeningOf ==
    ASSUME NEW code, Framed(code)
    PROVE  /\ Prefix(code) \in Openings /\ Len(Prefix(code)) \in 1..2
           /\ Len(code) \in Nat /\ Len(code) >= 3 /\ code[Len(code)] = "#"
<1>1. \A p \in Openings : Len(p) \in 1..2
  BY DEF Openings
<1>2. \E p \in {q \in Openings : IsPrefix(q, code)} : \A q \in Openings : IsPrefix(q, code) => Len(q) <= Len(p)
  <2>1. CASE \E p \in Openings : IsPrefix(p, code) /\ Len(p) = 2
    BY <1>1, <2>1
  <2>2. CASE ~ \E p \in Openings : IsPrefix(p, code) /\ Len(p) = 2
    BY <1>1, <2>2 DEF Framed, WellFramed
  <2> QED
    BY <2>1, <2>2
<1>3. Prefix(code) \in {q \in Openings : IsPrefix(q, code)}
  BY <1>2 DEF Prefix
<1>4. Len(code) \in Nat /\ Len(code) >= 3 /\ code[Len(code)] = "#"
  BY DEF Framed, WellFramed, Last
<1> QED
  BY <1>1, <1>3, <1>4

LEMMA FieldEnds ==
    ASSUME NEW code, Framed(code), NEW from \in Nat \ {0}, from <= Len(code)
    PROVE  /\ FieldEnd(code, from) \in from..Len(code)
           /\ FieldEnd(code, from) \in Stars(code, from) \cup {Len(code)}
           /\ \A i \in Stars(code, from) : FieldEnd(code, from) <= i
           /\ Stars(code, from) = {} <=> FieldEnd(code, from) = Len(code)
<1>1. Len(code) \in Nat /\ code[Len(code)] = "#"
  BY OpeningOf
<1>2. Stars(code, from) \in SUBSET Nat /\ Stars(code, from) \subseteq from..Len(code)
      /\ Len(code) \notin Stars(code, from)
  BY <1>1 DEF Stars
<1>3. CASE Stars(code, from) = {}
  BY <1>1, <1>3 DEF FieldEnd
<1>4. CASE Stars(code, from) # {}
  <2>1. \E i \in Stars(code, from) : \A j \in Stars(code, from) : i <= j
    BY <1>2, <1>4, LeastOf
  <2>2. /\ Min(Stars(code, from)) \in Stars(code, from)
        /\ \A j \in Stars(code, from) : Min(Stars(code, from)) <= j
    BY <2>1 DEF Min
  <2>3. FieldEnd(code, from) = Min(Stars(code, from))
    BY <1>4 DEF FieldEnd
  <2> QED
    BY <1>2, <1>4, <2>2, <2>3
<1> QED
  BY <1>3, <1>4

First(code) == Len(Prefix(code)) + 1

\* Where the fields begin and end.
TheCuts(code) == Stars(code, First(code)) \cup {First(code) - 1, Len(code)}

LEMMA CutSet ==
    ASSUME NEW code, Framed(code)
    PROVE  /\ TheCuts(code) \in SUBSET Nat /\ IsFiniteSet(TheCuts(code))
           /\ \A c \in TheCuts(code) : First(code) - 1 <= c /\ c <= Len(code)
           /\ First(code) \in 2..3 /\ First(code) <= Len(code)
<1>1. First(code) \in 2..3 /\ Len(code) \in Nat /\ Len(code) >= 3 /\ First(code) <= Len(code)
  <2>1. Len(Prefix(code)) \in 1..2 /\ Len(code) \in Nat /\ Len(code) >= 3
    BY OpeningOf
  <2> DEFINE p == Len(Prefix(code))
             z == Len(code)
  <2>2. p \in 1..2 /\ z \in Nat /\ z >= 3 /\ First(code) = p + 1
    BY <2>1 DEF First
  <2> HIDE DEF p, z
  <2>3. First(code) \in 2..3 /\ First(code) <= z
    BY <2>2
  <2> QED
    BY <2>2, <2>3 DEF z
<1>2. TheCuts(code) \subseteq (First(code) - 1)..Len(code)
  BY <1>1 DEF TheCuts, Stars
<1>3. TheCuts(code) \subseteq Nat
  BY <1>1, <1>2
<1>4. IsFiniteSet((First(code) - 1)..Len(code))
  BY <1>1, FS_Interval
<1>5. IsFiniteSet(TheCuts(code))
  BY <1>2, <1>4, FS_Subset
<1> QED
  BY <1>1, <1>2, <1>3, <1>5

LEMMA RankFirst ==
    ASSUME NEW code, Framed(code)
    PROVE  /\ First(code) - 1 \in TheCuts(code) /\ Rank(TheCuts(code), First(code) - 1) = 0
           /\ Len(code) \in TheCuts(code)
           /\ Cardinality(TheCuts(code)) - 1 = Rank(TheCuts(code), Len(code))
<1> DEFINE cuts == TheCuts(code)
           z == Len(code)
           a == First(code) - 1
<1>1. cuts \in SUBSET Nat /\ IsFiniteSet(cuts) /\ \A c \in cuts : a <= c /\ c <= z
  BY CutSet
<1>2. a \in cuts /\ z \in cuts
  BY DEF TheCuts
<1> HIDE DEF cuts, z, a
<1>0. a \in Nat /\ z \in Nat /\ \A c \in cuts : c \in Nat
  BY <1>1, <1>2
<1>3. {d \in cuts : d < a} = {}
  <2>1. ASSUME NEW d \in cuts PROVE ~(d < a)
    BY <1>0, <1>1
  <2> QED
    BY <2>1
<1>4. Rank(cuts, a) = 0
  BY <1>3, FS_EmptySet DEF Rank
<1>5. cuts = {d \in cuts : d < z} \cup {z} /\ z \notin {d \in cuts : d < z}
  <2>1. ASSUME NEW d \in cuts PROVE (d < z \/ d = z) /\ ~(z < z)
    BY <1>0, <1>1
  <2> QED
    BY <1>2, <2>1
<1>6. IsFiniteSet({d \in cuts : d < z}) /\ Rank(cuts, z) \in Nat
  BY <1>1, <1>2, Ranks
<1>7. Cardinality(cuts) = Rank(cuts, z) + 1
  BY <1>5, <1>6, FS_AddElement DEF Rank
<1> QED
  BY <1>2, <1>4, <1>6, <1>7 DEF cuts, z, a

\* The cut behind one that is not the last.
LEMMA NextCut ==
    ASSUME NEW code, Framed(code), NEW c \in TheCuts(code), c < Len(code)
    PROVE  /\ FieldEnd(code, c + 1) \in TheCuts(code) /\ c < FieldEnd(code, c + 1)
           /\ FieldEnd(code, c + 1) <= Len(code)
           /\ Rank(TheCuts(code), FieldEnd(code, c + 1)) = Rank(TheCuts(code), c) + 1
<1>1. /\ TheCuts(code) \in SUBSET Nat /\ IsFiniteSet(TheCuts(code))
      /\ First(code) - 1 <= c /\ First(code) \in 2..3 /\ Len(code) \in Nat
  BY CutSet, OpeningOf
<1>2. c + 1 \in Nat \ {0} /\ c + 1 <= Len(code) /\ c \in Nat
  BY <1>1
<1> DEFINE e == FieldEnd(code, c + 1)
<1>3. /\ e \in (c + 1)..Len(code) /\ e \in Stars(code, c + 1) \cup {Len(code)}
      /\ \A i \in Stars(code, c + 1) : e <= i
  BY <1>2, FieldEnds
<1> HIDE DEF e
<1>4. e \in TheCuts(code)
  BY <1>1, <1>2, <1>3 DEF TheCuts, Stars
<1>5. \A x \in TheCuts(code) : x <= c \/ e <= x
  BY <1>1, <1>2, <1>3 DEF TheCuts, Stars
<1>6. c < e /\ e <= Len(code)
  BY <1>1, <1>2, <1>3
<1>7. Rank(TheCuts(code), e) = Rank(TheCuts(code), c) + 1
  BY <1>1, <1>4, <1>5, <1>6, RankNext
<1> QED
  BY <1>4, <1>6, <1>7 DEF e

\* The field between two cuts that follow each other.
LEMMA FieldOf ==
    ASSUME NEW code, Framed(code)
    PROVE  /\ Len(Fields(code)) = Rank(TheCuts(code), Len(code)) /\ Len(Fields(code)) \in Nat
           /\ \A c, d \in TheCuts(code) : Rank(TheCuts(code), d) = Rank(TheCuts(code), c) + 1 =>
                Fields(code)[Rank(TheCuts(code), d)] = SubSeq(code, c + 1, d - 1)
<1> DEFINE cuts == TheCuts(code)
           cut(k) == CHOOSE c \in cuts : Cardinality({d \in cuts : d < c}) = k
           n == Rank(cuts, Len(code))
<1>1. cuts \in SUBSET Nat /\ IsFiniteSet(cuts) /\ (\A c \in cuts : c <= Len(code)) /\ Len(code) \in cuts
      /\ Cardinality(cuts) - 1 = n
  BY CutSet, RankFirst
<1>2. Fields(code) = [k \in 1..(Cardinality(cuts) - 1) |-> SubSeq(code, cut(k - 1) + 1, cut(k) - 1)]
  BY DEF Fields, TheCuts, First
<1> HIDE DEF cuts
<1>3. n \in Nat
  BY <1>1, Ranks
<1> HIDE DEF n
<1>4. Len(Fields(code)) = n
  BY <1>1, <1>2, <1>3
<1>5. ASSUME NEW c \in cuts, NEW d \in cuts, Rank(cuts, d) = Rank(cuts, c) + 1
      PROVE  Fields(code)[Rank(cuts, d)] = SubSeq(code, c + 1, d - 1)
  <2>1. cut(Rank(cuts, c)) = c /\ cut(Rank(cuts, d)) = d
    BY <1>1, RankIs
  <2> HIDE DEF cut
  <2>2. Rank(cuts, c) \in Nat /\ Rank(cuts, d) \in Nat
    BY <1>1, Ranks
  <2>3. Rank(cuts, d) <= n
    <3>1. CASE d = Len(code)
      BY <2>2, <3>1 DEF n
    <3>2. CASE d # Len(code)
      <4>1. d < Len(code)
        BY <1>1, <3>2
      <4> QED
        BY <1>1, <1>3, <2>2, <4>1, RankGrows DEF n
    <3> QED
      BY <3>1, <3>2
  <2>4. Rank(cuts, d) \in 1..n /\ Rank(cuts, d) - 1 = Rank(cuts, c)
    BY <1>3, <1>5, <2>2, <2>3
  <2> QED
    BY <1>1, <1>2, <2>1, <2>4
<1> QED
  BY <1>3, <1>4, <1>5 DEF cuts, n

-----------------------------------------------------------------------------
(* The two readers.                                                        *)

Rest(code) == SubSeq(code, First(code), Len(code) - 1)

LEMMA Reasons ==
    ASSUME NEW field
    PROVE  /\ CallForwardReason(field) \in -1..5
           /\ CallForwardReason(field) < 0 <=> ~IsCallForwardServiceCode(field)
<1>1. CASE IsCallForwardServiceCode(field)
  <2>1. PICK s \in ServiceCodes : field = <<s>>
    BY <1>1 DEF IsCallForwardServiceCode
  <2>2. field[1] \in {"21", "67", "61", "62", "002", "004"}
    BY <2>1 DEF ServiceCodes
  <2>3. CallForwardReason(field) =
            CASE field[1] = "21" -> 0 [] field[1] = "67" -> 1 [] field[1] = "61" -> 2
              [] field[1] = "62" -> 3 [] field[1] = "002" -> 4 [] field[1] = "004" -> 5
    BY <1>1 DEF CallForwardReason
  <2> DEFINE x == field[1]
             y == CallForwardReason(field)
  <2> HIDE DEF x, y
  <2>4. /\ x \in {"21", "67", "61", "62", "002", "004"}
        /\ y = CASE x = "21" -> 0 [] x = "67" -> 1 [] x = "61" -> 2
                 [] x = "62" -> 3 [] x = "002" -> 4 [] x = "004" -> 5
    BY <2>2, <2>3 DEF x, y
  <2>5. y \in 0..5
    BY <2>4
  <2> QED
    BY <1>1, <2>5 DEF y
<1>2. CASE ~IsCallForwardServiceCode(field)
  BY <1>2 DEF CallForwardReason
<1> QED
  BY <1>1, <1>2

LEMMA CcfcCommands ==
    ASSUME NEW field, NEW mode \in Nat
    PROVE  /\ BuildCcfcCommand(field, mode) # NoCommand <=> IsCallForwardServiceCode(field)
           /\ BuildCcfcCommand(field, mode).mode \in {-1, mode}
<1>1. CASE CallForwardReason(field) < 0
  BY <1>1, Reasons DEF BuildCcfcCommand, NoCommand
<1>2. CASE ~(CallForwardReason(field) < 0)
  <2>1. BuildCcfcCommand(field, mode) = [mode |-> mode, reason |-> CallForwardReason(field)]
    BY <1>2 DEF BuildCcfcCommand
  <2>2. BuildCcfcCommand(field, mode).mode = mode /\ NoCommand.mode = -1
    BY <2>1 DEF NoCommand
  <2> QED
    BY <1>2, <2>2, Reasons
<1> QED
  BY <1>1, <1>2

\* Which command a code becomes, by its opening.
LEMMA CommandOf ==
    ASSUME NEW code, Framed(code)
    PROVE  LET p == Prefix(code)
               command == BuildCallForwardCommand(code)
           IN  /\ p = <<"*", "#">> => command = BuildCcfcCommand(Rest(code), 2)
               /\ p = <<"#", "#">> => command = BuildCcfcCommand(Rest(code), 4)
               /\ p = <<"#">> => command = BuildCcfcCommand(Rest(code), 0)
               /\ p \in {<<"*">>, <<"*", "*">>} =>
                    command = IF Stars(code, First(code)) = {} THEN BuildCcfcCommand(Rest(code), 1)
                              ELSE Register(code, First(code))
<1> DEFINE p == Prefix(code)
           from == First(code)
           rest == Rest(code)
<1>1. BuildCallForwardCommand(code) =
        CASE p = <<"*", "#">> -> BuildCcfcCommand(rest, 2)
          [] p = <<"#", "#">> -> BuildCcfcCommand(rest, 4)
          [] p = <<"#">>      -> BuildCcfcCommand(rest, 0)
          [] OTHER            -> IF Stars(code, from) = {} THEN BuildCcfcCommand(rest, 1)
                                 ELSE Register(code, from)
  BY DEF BuildCallForwardCommand, Framed, First, Rest
<1> HIDE DEF p, from, rest
<1>2. CASE p = <<"*", "#">>
  BY <1>1, <1>2 DEF p, from, rest
<1>3. CASE p = <<"#", "#">>
  BY <1>1, <1>3 DEF p, from, rest
<1>4. CASE p = <<"#">>
  BY <1>1, <1>4 DEF p, from, rest
<1>5. CASE p \in {<<"*">>, <<"*", "*">>}
  <2>1. p # <<"*", "#">> /\ p # <<"#", "#">> /\ p # <<"#">>
    BY <1>5
  <2> QED
    BY <1>1, <1>5, <2>1 DEF p, from, rest
<1>6. CASE p \notin Openings
  BY <1>6 DEF p, Openings
<1> QED
  BY <1>2, <1>3, <1>4, <1>5, <1>6 DEF p, Openings

\* Which codes sms-send takes, by their opening.
LEMMA TakenCodes ==
    ASSUME NEW code, Framed(code)
    PROVE  /\ Prefix(code) \in {<<"*", "#">>, <<"#", "#">>, <<"#">>} =>
                (IsMmiCode(code) <=> IsCallForwardServiceCode(Rest(code)))
           /\ Prefix(code) = <<"*">> =>
                (IsMmiCode(code) <=> IsCallForwardServiceCode(Field(code, First(code))))
           /\ Prefix(code) = <<"*", "*">> =>
                (IsMmiCode(code) <=> /\ Stars(code, First(code)) # {}
                                     /\ IsCallForwardServiceCode(Field(code, First(code))))
<1> DEFINE p == Prefix(code)
           from == First(code)
           rest == Rest(code)
           field == Field(code, from)
<1>1. IsMmiCode(code) <=>
        /\ p = <<"*", "*">> => Stars(code, from) # {}
        /\ IsCallForwardServiceCode(IF p[1] = "#" \/ p[Len(p)] = "#" THEN rest ELSE field)
  BY DEF IsMmiCode, Framed, First, Rest, Last
<1> HIDE DEF p, from, rest, field
<1>2. p \in {<<"*", "#">>, <<"#", "#">>, <<"#">>} => (p[1] = "#" \/ p[Len(p)] = "#") /\ p # <<"*", "*">>
  OBVIOUS
<1>3. p \in {<<"*">>, <<"*", "*">>} => ~(p[1] = "#" \/ p[Len(p)] = "#")
  OBVIOUS
<1>4. <<"*">> # <<"*", "*">>
  OBVIOUS
<1> QED
  BY <1>1, <1>2, <1>3, <1>4 DEF p, from, rest, field

\* The fields of a code with stars: the service code and what is behind it.
LEMMA TwoFields ==
    ASSUME NEW code, Framed(code), Stars(code, First(code)) # {},
           NEW e1, e1 = FieldEnd(code, First(code)), NEW e2, e2 = FieldEnd(code, e1 + 1)
    PROVE  /\ e1 \in Nat /\ e2 \in Nat /\ First(code) <= e1 /\ e1 < e2 /\ e2 <= Len(code)
           /\ e1 \in TheCuts(code) /\ e2 \in TheCuts(code)
           /\ Rank(TheCuts(code), e1) = 1 /\ Rank(TheCuts(code), e2) = 2
           /\ Fields(code)[1] = Field(code, First(code))
           /\ Fields(code)[2] = Field(code, e1 + 1)
           /\ Len(Fields(code)) \in Nat /\ Len(Fields(code)) >= 2
<1> DEFINE cuts == TheCuts(code)
           a == First(code) - 1
           z == Len(code)
<1>1. /\ cuts \in SUBSET Nat /\ IsFiniteSet(cuts) /\ First(code) \in 2..3 /\ First(code) <= z
      /\ a \in cuts /\ Rank(cuts, a) = 0 /\ z \in Nat /\ z \in cuts
  BY CutSet, RankFirst, OpeningOf
<1>2. a < z /\ a + 1 = First(code) /\ a \in Nat
  BY <1>1
<1>3. e1 \in cuts /\ a < e1 /\ e1 <= z /\ Rank(cuts, e1) = 1
  BY <1>1, <1>2, NextCut
<1>4. e1 # z
  BY <1>1, FieldEnds
<1>5. e1 \in Nat /\ e1 < z /\ First(code) <= e1
  BY <1>1, <1>2, <1>3, <1>4
<1>6. e2 \in cuts /\ e1 < e2 /\ e2 <= z /\ Rank(cuts, e2) = 2
  BY <1>3, <1>5, NextCut
<1>7. Fields(code)[1] = SubSeq(code, First(code), e1 - 1)
  <2>1. Rank(cuts, e1) = Rank(cuts, a) + 1
    BY <1>1, <1>3
  <2>2. Fields(code)[Rank(cuts, e1)] = SubSeq(code, a + 1, e1 - 1)
    BY <1>1, <1>3, <2>1, FieldOf
  <2> HIDE DEF a, cuts
  <2> QED
    BY <1>2, <1>3, <2>2
<1>8. Fields(code)[2] = SubSeq(code, e1 + 1, e2 - 1)
  BY <1>3, <1>6, FieldOf
<1>9. Len(Fields(code)) \in Nat /\ Len(Fields(code)) >= 2
  <2>1. Len(Fields(code)) = Rank(cuts, z) /\ Len(Fields(code)) \in Nat
    BY FieldOf
  <2>2. CASE e2 = z
    BY <1>6, <2>1, <2>2
  <2>3. CASE e2 # z
    <3>1. e2 < z
      BY <1>1, <1>6, <2>3
    <3>2. Rank(cuts, e2) < Rank(cuts, z)
      BY <1>1, <1>6, <3>1, RankGrows
    <3> QED
      BY <1>6, <2>1, <3>2
  <2> QED
    BY <2>2, <2>3
<1> QED
  BY <1>1, <1>3, <1>5, <1>6, <1>7, <1>8, <1>9 DEF Field

\* A code whose only field is the service code.
LEMMA OneField ==
    ASSUME NEW code, Framed(code), Stars(code, First(code)) = {}
    PROVE  /\ Len(Fields(code)) = 1
           /\ Field(code, First(code)) = Rest(code)
<1> DEFINE cuts == TheCuts(code)
           a == First(code) - 1
           z == Len(code)
<1>1. /\ cuts \in SUBSET Nat /\ IsFiniteSet(cuts) /\ First(code) \in 2..3 /\ First(code) <= z
      /\ a \in cuts /\ Rank(cuts, a) = 0 /\ z \in Nat /\ z \in cuts
  BY CutSet, RankFirst, OpeningOf
<1>2. a < z /\ a + 1 = First(code) /\ a \in Nat
  BY <1>1
<1>3. FieldEnd(code, First(code)) = z
  BY DEF FieldEnd
<1>4. Rank(cuts, z) = 1
  BY <1>1, <1>2, <1>3, NextCut
<1> QED
  BY <1>3, <1>4, FieldOf DEF Field, Rest

LEMMA Agreement ==
    ASSUME NEW code, Framed(code)
    PROVE  GrammarsAgree(code)
<1> DEFINE p == Prefix(code)
           command == BuildCallForwardCommand(code)
           from == First(code)
<1>1. p \in Openings
  BY OpeningOf
<1> SUFFICES \/ IsMmiCode(code) <=> command # NoCommand
             \/ IsMmiCode(code) /\ Len(Fields(code)) > 1 /\ Number(code) = <<>>
             \/ p = <<"*", "*">> /\ Len(Fields(code)) = 1
  BY DEF GrammarsAgree
<1> HIDE DEF p, command, from
<1>2. CASE p \in {<<"*", "#">>, <<"#", "#">>, <<"#">>}
  <2>1. IsMmiCode(code) <=> IsCallForwardServiceCode(Rest(code))
    BY <1>2, TakenCodes DEF p
  <2>2. PICK mode \in {0, 2, 4} : command = BuildCcfcCommand(Rest(code), mode)
    BY <1>2, CommandOf DEF p, command
  <2> QED
    BY <2>1, <2>2, CcfcCommands
<1>3. CASE p \in {<<"*">>, <<"*", "*">>} /\ Stars(code, from) = {}
  <2>1. command = BuildCcfcCommand(Rest(code), 1)
    BY <1>3, CommandOf DEF p, command, from
  <2>2. Len(Fields(code)) = 1 /\ Field(code, from) = Rest(code)
    BY <1>3, OneField DEF from
  <2>3. CASE p = <<"*", "*">>
    BY <2>2, <2>3
  <2>4. CASE p = <<"*">>
    <3>1. IsMmiCode(code) <=> IsCallForwardServiceCode(Rest(code))
      BY <2>2, <2>4, TakenCodes DEF p, from
    <3> QED
      BY <2>1, <3>1, CcfcCommands
  <2> QED
    BY <1>3, <2>3, <2>4
<1>4. CASE p \in {<<"*">>, <<"*", "*">>} /\ Stars(code, from) # {}
  <2> DEFINE service == Field(code, from)
             e1 == FieldEnd(code, from)
             number == Field(code, e1 + 1)
  <2>1. IsMmiCode(code) <=> IsCallForwardServiceCode(service)
    BY <1>4, TakenCodes DEF p, from
  <2>2. command = Register(code, from)
    BY <1>4, CommandOf DEF p, command, from
  <2>3. Fields(code)[2] = number /\ Len(Fields(code)) \in Nat /\ Len(Fields(code)) >= 2
    BY <1>4, TwoFields DEF from
  <2>4. Number(code) = number /\ Len(Fields(code)) > 1
    BY <2>3 DEF Number
  <2> HIDE DEF service, number
  <2>5. CASE number = <<>>
    <3>1. CASE IsMmiCode(code)
      BY <2>4, <2>5, <3>1
    <3>2. CASE ~IsMmiCode(code)
      BY <2>1, <2>2, <2>5, <3>2 DEF Register, service, number
    <3> QED
      BY <3>1, <3>2
  <2>6. CASE number # <<>>
    <3>1. CASE IsCallForwardServiceCode(service)
      <4>1. ~(CallForwardReason(service) < 0)
        BY <3>1, Reasons
      <4>2. command.mode = 3 /\ NoCommand.mode = -1
        BY <2>2, <2>6, <4>1 DEF Register, service, number, NoCommand
      <4> QED
        BY <2>1, <3>1, <4>2
    <3>2. CASE ~IsCallForwardServiceCode(service)
      <4>1. CallForwardReason(service) < 0
        BY <3>2, Reasons
      <4>2. command = NoCommand
        BY <2>2, <4>1 DEF Register, service
      <4> QED
        BY <2>1, <3>2, <4>2
    <3> QED
      BY <3>1, <3>2
  <2> QED
    BY <2>5, <2>6
<1> QED
  BY <1>1, <1>2, <1>3, <1>4 DEF Openings

LEMMA Registration ==
    ASSUME NEW code, Framed(code)
    PROVE  RegistersWhatWasDialled(code)
<1> DEFINE p == Prefix(code)
           command == BuildCallForwardCommand(code)
           from == First(code)
           fields == Fields(code)
           cuts == TheCuts(code)
           z == Len(code)
<1> SUFFICES ASSUME command.mode = 3
             PROVE  /\ p \in {<<"*">>, <<"*", "*">>}
                    /\ CallForwardReason(fields[1]) = command.reason
                    /\ command.number = fields[2]
                    /\ Len(fields) = 4 /\ fields[1] = <<"61">> /\ fields[3] = <<>> =>
                         command.timeout = fields[4]
                    /\ Len(fields) < 4 => command.timeout = <<>>
  BY DEF RegistersWhatWasDialled
<1>1. p \in Openings
  BY OpeningOf
<1> HIDE DEF p, command, from, fields, cuts, z
<1>2. ASSUME NEW field, NEW mode \in {0, 1, 2, 4} PROVE command # BuildCcfcCommand(field, mode)
  BY CcfcCommands
<1>3. p \in {<<"*">>, <<"*", "*">>} /\ Stars(code, from) # {} /\ command = Register(code, from)
  <2>1. p \notin {<<"*", "#">>, <<"#", "#">>, <<"#">>}
    BY <1>2, CommandOf DEF p, command
  <2>2. p \in {<<"*">>, <<"*", "*">>}
    BY <1>1, <2>1 DEF Openings
  <2>3. command = IF Stars(code, from) = {} THEN BuildCcfcCommand(Rest(code), 1) ELSE Register(code, from)
    BY <2>2, CommandOf DEF p, command, from
  <2> QED
    BY <1>2, <2>2, <2>3
<1> DEFINE service == Field(code, from)
           e1 == FieldEnd(code, from)
           e2 == FieldEnd(code, e1 + 1)
           number == Field(code, e1 + 1)
           timer == IF service = <<"61">> THEN Timeout(code, e2) ELSE <<>>
<1>4. /\ e1 \in Nat /\ e2 \in Nat /\ from <= e1 /\ e1 < e2 /\ e2 <= z
      /\ e1 \in cuts /\ e2 \in cuts /\ Rank(cuts, e1) = 1 /\ Rank(cuts, e2) = 2
      /\ fields[1] = service /\ fields[2] = number
      /\ Len(fields) \in Nat /\ Len(fields) >= 2
  BY <1>3, TwoFields DEF from, cuts, fields, z
<1>5. /\ command.reason = CallForwardReason(service) /\ command.number = number
      /\ command.timeout = timer
  <2>1. command = IF number = <<>> \/ CallForwardReason(service) < 0 THEN NoCommand
                  ELSE [mode |-> 3, reason |-> CallForwardReason(service),
                        number |-> number, timeout |-> timer]
    BY <1>3 DEF Register
  <2> HIDE DEF number, service, timer
  <2>2. command # NoCommand
    BY DEF NoCommand
  <2> QED
    BY <2>1, <2>2
<1>6. /\ cuts \in SUBSET Nat /\ IsFiniteSet(cuts) /\ z \in Nat /\ z \in cuts
      /\ \E S : code \in Seq(S)
  BY CutSet, RankFirst, OpeningOf DEF cuts, z, Framed
<1>7. Len(fields) = Rank(cuts, z)
  BY FieldOf DEF cuts, z, fields
<1>8. \A c, d \in cuts : Rank(cuts, d) = Rank(cuts, c) + 1 =>
        fields[Rank(cuts, d)] = SubSeq(code, c + 1, d - 1)
  BY FieldOf DEF cuts, fields
<1> HIDE DEF service, number, e1, e2
<1>9. ASSUME e2 < z, NEW e3, e3 = FieldEnd(code, e2 + 1)
      PROVE  /\ e3 \in cuts /\ e3 \in Nat /\ e2 < e3 /\ e3 <= z /\ Rank(cuts, e3) = 3
             /\ fields[3] = SubSeq(code, e2 + 1, e3 - 1)
             /\ e3 # z => code[e3] = "*"
             /\ code[e2 + 1] = "*" => e3 = e2 + 1
  <2>1. /\ e3 \in cuts /\ e2 < e3 /\ e3 <= z /\ Rank(cuts, e3) = Rank(cuts, e2) + 1
    BY <1>4, <1>9, NextCut DEF cuts, z
  <2>2. e2 + 1 \in Nat \ {0} /\ e2 + 1 <= z
    BY <1>4, <1>6, <1>9
  <2>3. e3 \in Stars(code, e2 + 1) \cup {z} /\ \A i \in Stars(code, e2 + 1) : e3 <= i
    BY <1>9, <2>2, FieldEnds DEF z
  <2>4. e3 \in Nat /\ Rank(cuts, e3) = 3
    BY <1>4, <1>6, <2>1
  <2>5. fields[3] = SubSeq(code, e2 + 1, e3 - 1)
    BY <1>4, <1>8, <2>1, <2>4
  <2>6. e3 # z => code[e3] = "*"
    BY <2>3 DEF Stars
  <2>7. code[e2 + 1] = "*" => e3 = e2 + 1
    <3>1. code[e2 + 1] = "*" => e2 + 1 \in Stars(code, e2 + 1)
      BY <1>4, <2>2, <1>6 DEF Stars, z
    <3> QED
      BY <1>4, <2>1, <2>3, <2>4, <3>1
  <2> QED
    BY <2>1, <2>4, <2>5, <2>6, <2>7
<1>10. ASSUME Len(fields) = 4, fields[1] = <<"61">>, fields[3] = <<>>
      PROVE  command.timeout = fields[4]
  <2>1. e2 < z
    <3>1. Rank(cuts, e2) = 2
      BY <1>4
    <3>2. Rank(cuts, z) = 4
      BY <1>7, <1>10
    <3>3. e2 # z
      <4> SUFFICES ASSUME e2 = z PROVE FALSE
        OBVIOUS
      <4>1. Rank(cuts, e2) = Rank(cuts, z)
        OBVIOUS
      <4> QED
        BY <3>1, <3>2, <4>1
    <3> QED
      BY <1>4, <1>6, <3>3
  <2> DEFINE e3 == FieldEnd(code, e2 + 1)
  <2>2. /\ e3 \in cuts /\ e3 \in Nat /\ e2 < e3 /\ e3 <= z /\ Rank(cuts, e3) = 3
        /\ fields[3] = SubSeq(code, e2 + 1, e3 - 1)
        /\ e3 # z => code[e3] = "*"
    BY <1>9, <2>1
  <2> HIDE DEF e3
  <2>3. e3 < z
    <3>1. Rank(cuts, e3) = 3
      BY <2>2
    <3>2. Rank(cuts, z) = 4
      BY <1>7, <1>10
    <3>3. e3 # z
      <4> SUFFICES ASSUME e3 = z PROVE FALSE
        OBVIOUS
      <4>1. Rank(cuts, e3) = Rank(cuts, z)
        OBVIOUS
      <4> QED
        BY <3>1, <3>2, <4>1
    <3> QED
      BY <1>6, <2>2, <3>3
  <2>4. e3 = e2 + 1
    <3>1. Len(SubSeq(code, e2 + 1, e3 - 1)) = (e3 - 1) - e2
      <4>1. PICK S : code \in Seq(S)
        BY <1>6
      <4> QED
        BY <1>4, <2>1, <2>2, <2>3, <4>1 DEF z
    <3>2. Len(<<>>) = 0
      OBVIOUS
    <3> QED
      BY <1>4, <1>10, <2>2, <3>1, <3>2
  <2>5. fields[4] = SubSeq(code, e2 + 2, z - 1)
    <3>1. Rank(cuts, z) = Rank(cuts, e3) + 1 /\ Rank(cuts, z) = 4
      BY <1>7, <1>10, <2>2
    <3>2. fields[Rank(cuts, z)] = SubSeq(code, e3 + 1, z - 1)
      BY <1>6, <1>8, <2>2, <3>1
    <3>3. e3 + 1 = e2 + 2
      BY <1>4, <2>4
    <3> QED
      BY <3>1, <3>2, <3>3
  <2>6. code[e2 + 1] = "*"
    BY <2>2, <2>3, <2>4
  <2>7. timer = Timeout(code, e2)
    BY <1>4, <1>10
  <2>8. CASE e2 + 2 < z
    BY <1>5, <2>5, <2>6, <2>7, <2>8 DEF Timeout, z
  <2>9. CASE ~(e2 + 2 < z)
    <3>1. Timeout(code, e2) = <<>>
      BY <2>9 DEF Timeout, z
    <3>2. z = e2 + 2
      BY <1>4, <1>6, <2>3, <2>4, <2>9
    <3>3. SubSeq(code, e2 + 2, z - 1) = <<>>
      <4>1. PICK S : code \in Seq(S)
        BY <1>6
      <4> QED
        BY <1>4, <3>2, <4>1
    <3> QED
      BY <1>5, <2>5, <2>7, <3>1, <3>3
  <2> QED
    BY <2>8, <2>9
<1>11. ASSUME Len(fields) < 4
      PROVE  command.timeout = <<>>
  <2>1. CASE ~(e2 + 2 < z /\ code[e2 + 1] = "*")
    BY <1>5, <2>1 DEF Timeout, z
  <2>2. CASE e2 + 2 < z /\ code[e2 + 1] = "*"
    <3>1. e2 < z
      BY <1>4, <1>6, <2>2
    <3> DEFINE e3 == FieldEnd(code, e2 + 1)
    <3>2. e3 \in cuts /\ Rank(cuts, e3) = 3 /\ e3 = e2 + 1
      BY <1>9, <2>2, <3>1
    <3> HIDE DEF e3
    <3>3. e3 < z
      BY <1>4, <1>6, <2>2, <3>2
    <3>4. Rank(cuts, e3) < Rank(cuts, z)
      BY <1>6, <3>2, <3>3, RankGrows
    <3> QED
      BY <1>4, <1>7, <1>11, <3>2, <3>4
  <2> QED
    BY <2>1, <2>2
<1> QED
  BY <1>3, <1>4, <1>5, <1>10, <1>11

\* However long a code is and whatever stands in it, sms-send and the daemon agree on
\* whether it forwards calls, with the exceptions named, and the registration carries the
\* number and the timer that were dialled (IsMmiCode, BuildCallForwardCommand).
THEOREM CodesTranslated == ISpec => []CodesAreTranslated
<1>1. InputInv => CodesAreTranslated
  <2> SUFFICES ASSUME InputInv, Of("code") PROVE GrammarsAgree(input.data) /\ RegistersWhatWasDialled(input.data)
    BY DEF CodesAreTranslated
  <2>1. input.data \in Seq(AllSymbols)
    BY DEF InputInv
  <2>2. CASE WellFramed(input.data)
    BY <2>1, <2>2, Agreement, Registration DEF Framed
  <2>3. CASE ~WellFramed(input.data)
    BY <2>3 DEF GrammarsAgree, RegistersWhatWasDialled
  <2> QED
    BY <2>2, <2>3
<1> QED
  BY <1>1, InputTypes, PTL

-----------------------------------------------------------------------------
(* Loops over an input.                                                    *)

\* What holds of 0, and of k when it holds of k - 1, holds up to N.
LEMMA UpTo ==
    ASSUME NEW N \in Nat, NEW T, 0 \in T, \A k \in 1..N : k - 1 \in T => k \in T
    PROVE  \A k \in 0..N : k \in T
<1> DEFINE S == {k \in 0..N : k \notin T}
<1>1. SUFFICES ASSUME S # {} PROVE FALSE
  OBVIOUS
<1>0. S \in SUBSET Nat
  OBVIOUS
<1>2. PICK i \in S : \A j \in S : i <= j
  <2> HIDE DEF S
  <2> QED
    BY <1>0, <1>1, LeastOf
<1>3. i \in 1..N /\ i - 1 \in 0..N /\ i - 1 \notin S
  BY <1>2
<1> QED
  BY <1>2, <1>3

\* f lists the states, all in S, of a loop of N steps from a.
IsLoop(f, N, S, a, step) ==
    f \in [0..N -> S] /\ f[0] = a /\ \A k \in 1..N : f[k] = step[k][f[k - 1]]

\* A loop each step of which stays in S has its states.
LEMMA LoopStates ==
    ASSUME NEW N \in Nat, NEW S, NEW a \in S, NEW step,
           \A k \in 1..N : \A s \in S : step[k][s] \in S
    PROVE  \E f : IsLoop(f, N, S, a, step)
<1> DEFINE Reached(n) == \E f \in [0..n -> S] : f[0] = a /\ \A k \in 1..n : f[k] = step[k][f[k - 1]]
           T == {n \in 0..N : Reached(n)}
<1>1. 0 \in T
  <2> DEFINE g == [k \in 0..0 |-> a]
  <2>1. g \in [0..0 -> S] /\ g[0] = a /\ \A k \in 1..0 : FALSE
    OBVIOUS
  <2> HIDE DEF g
  <2>2. Reached(0)
    BY <2>1
  <2> HIDE DEF Reached
  <2> QED
    BY <2>2
<1>2. ASSUME NEW n \in 1..N, n - 1 \in T
      PROVE  n \in T
  <2>1. PICK f \in [0..(n - 1) -> S] :
               f[0] = a /\ \A k \in 1..(n - 1) : f[k] = step[k][f[k - 1]]
    BY <1>2
  <2> DEFINE g == [k \in 0..n |-> IF k = n THEN step[n][f[n - 1]] ELSE f[k]]
  <2>2. f[n - 1] \in S /\ step[n][f[n - 1]] \in S
    OBVIOUS
  <2>3. g \in [0..n -> S] /\ g[0] = a
    BY <2>1, <2>2
  <2>4. ASSUME NEW k \in 1..n
        PROVE  g[k] = step[k][g[k - 1]]
    <3>1. CASE k = n
      BY <3>1
    <3>2. CASE k # n
      <4>1. k \in 1..(n - 1) /\ k - 1 \in 0..(n - 1) /\ k - 1 # n
        BY <3>2
      <4>2. f[k] = step[k][f[k - 1]]
        BY <2>1, <4>1
      <4>3. g[k] = f[k] /\ g[k - 1] = f[k - 1]
        BY <3>2, <4>1
      <4> QED
        BY <4>2, <4>3
    <3> QED
      BY <3>1, <3>2
  <2> HIDE DEF g
  <2>5. Reached(n)
    BY <2>3, <2>4
  <2>6. n \in 0..N
    OBVIOUS
  <2> HIDE DEF Reached
  <2> QED
    BY <2>5, <2>6
<1>3. \A n \in 0..N : n \in T
  <2> HIDE DEF T
  <2> QED
    BY <1>1, <1>2, UpTo
<1>4. Reached(N)
  BY <1>3
<1> QED
  BY <1>4 DEF IsLoop

IsLast(i, S) == i \in S /\ \A j \in S : j <= i

LEMMA GreatestOf ==
    ASSUME NEW N \in Nat, NEW S \in SUBSET (1..N), S # {}
    PROVE  \E i \in S : IsLast(i, S)
<1> DEFINE R == {m \in 1..N : N + 1 - m \in S}
<1>1. \A j \in S : j \in 1..N /\ N + 1 - j \in R
  <2>1. \A j \in 1..N : N + 1 - j \in 1..N /\ N + 1 - (N + 1 - j) = j
    OBVIOUS
  <2> QED
    BY <2>1
<1>2. R \in SUBSET Nat /\ R # {}
  <2>1. PICK j \in S : TRUE
    OBVIOUS
  <2>2. N + 1 - j \in R
    BY <1>1, <2>1
  <2>3. \A m \in R : m \in Nat
    OBVIOUS
  <2> HIDE DEF R
  <2> QED
    BY <2>2, <2>3
<1>3. PICK m \in R : \A r \in R : m <= r
  <2> HIDE DEF R
  <2> QED
    BY <1>2, LeastOf
<1>4. N + 1 - m \in S /\ m \in 1..N
  BY <1>3
<1>5. \A j \in S : j <= N + 1 - m
  <2> TAKE j \in S
  <2>1. j \in 1..N /\ m <= N + 1 - j
    BY <1>1, <1>3
  <2> QED
    BY <1>4, <2>1
<1> QED
  BY <1>4, <1>5 DEF IsLast

LEMMA LastIsMax ==
    ASSUME NEW S \in SUBSET Nat, NEW i, IsLast(i, S)
    PROVE  i \in S /\ Max(S) = i
<1>1. i \in S /\ i \in Nat /\ \A j \in S : j \in Nat /\ j <= i
  BY DEF IsLast
<1>2. \A x \in S : (\A y \in S : x >= y) => x = i
  BY <1>1
<1>3. \A y \in S : i >= y
  BY <1>1
<1> QED
  BY <1>1, <1>2, <1>3 DEF Max

LEMMA LeastIsMin ==
    ASSUME NEW S \in SUBSET Nat, NEW i \in S, \A j \in S : i <= j
    PROVE  Min(S) = i
<1>1. \A x \in S : (\A y \in S : x =< y) => x = i
  OBVIOUS
<1> QED
  BY <1>1 DEF Min

-----------------------------------------------------------------------------
(* The configuration file.                                                 *)

Configs == [ok : BOOLEAN, value : [Plain -> Values \cup {Default}], hooks : Seq(Values), debug : BOOLEAN]

\* What a line may be.
LEMMA LineKinds ==
    ASSUME NEW entry \in Lines
    PROVE  /\ entry.value \in Values
           /\ \/ entry.form \in {"blank", "bare"} /\ entry.key = "none"
              \/ entry.form = "setting" /\ entry.key \in Plain \cup {"sms_hook", "debug", "unknown"}
  BY DEF Lines, Values, Keys

\* What a line does.
LEMMA LineDoes ==
    ASSUME NEW c \in Configs, NEW entry \in Lines
    PROVE  LET d == ReadLine(c, entry)
           IN  /\ ~c.ok => d = c
               /\ c.ok /\ entry.form = "blank" => d = c
               /\ c.ok /\ ~Known(entry) => d = [c EXCEPT !.ok = FALSE]
               /\ c.ok /\ entry.form = "setting" /\ entry.key \in Plain =>
                    d = [c EXCEPT !.value = [@ EXCEPT ![entry.key] = entry.value]]
               /\ c.ok /\ entry.form = "setting" /\ entry.key = "sms_hook" =>
                    d = [c EXCEPT !.hooks = Append(@, entry.value)]
               /\ c.ok /\ entry.form = "setting" /\ entry.key = "debug" /\ Known(entry) =>
                    d = [c EXCEPT !.debug = (entry.value = "on")]
<1> USE DEF ReadLine
<1>0. c.ok \in BOOLEAN
  BY DEF Configs
<1>1. ~c.ok => ReadLine(c, entry) = c
  OBVIOUS
<1>2. ASSUME c.ok, entry.form = "blank" PROVE ReadLine(c, entry) = c
  BY <1>2, LineKinds DEF Plain, Dirs
<1>3. ASSUME c.ok, ~Known(entry) PROVE ReadLine(c, entry) = [c EXCEPT !.ok = FALSE]
  <2>1. CASE entry.form = "bare"
    BY <1>3, <2>1, LineKinds DEF Plain, Dirs, Refused
  <2>2. CASE entry.key = "unknown"
    BY <1>3, <2>2, LineKinds DEF Plain, Dirs, Refused
  <2>3. CASE entry.key = "debug" /\ ~IsBool(entry.value)
    BY <1>3, <2>3, LineKinds DEF Plain, Dirs, Refused
  <2> QED
    BY <1>3, <2>1, <2>2, <2>3 DEF Known
<1>4. ASSUME c.ok, entry.form = "setting", entry.key \in Plain
      PROVE  ReadLine(c, entry) = [c EXCEPT !.value = [@ EXCEPT ![entry.key] = entry.value]]
  BY <1>4 DEF AssignValue, Plain, Dirs
<1>5. ASSUME c.ok, entry.form = "setting", entry.key = "sms_hook"
      PROVE  ReadLine(c, entry) = [c EXCEPT !.hooks = Append(@, entry.value)]
  BY <1>5 DEF Plain, Dirs
<1>6. ASSUME c.ok, entry.form = "setting", entry.key = "debug", Known(entry)
      PROVE  ReadLine(c, entry) = [c EXCEPT !.debug = (entry.value = "on")]
  BY <1>6 DEF Plain, Dirs, Known
<1> HIDE DEF ReadLine
<1> QED
  BY <1>1, <1>2, <1>3, <1>4, <1>5, <1>6

LEMMA ReadLineStays ==
    ASSUME NEW c \in Configs, NEW entry \in Lines
    PROVE  ReadLine(c, entry) \in Configs
<1>1. CASE ~c.ok \/ entry.form = "blank"
  BY <1>1, LineDoes DEF Configs
<1>2. CASE c.ok /\ ~Known(entry)
  <2>1. ReadLine(c, entry) = [c EXCEPT !.ok = FALSE]
    BY <1>2, LineDoes
  <2> QED
    BY <2>1 DEF Configs
<1>3. CASE c.ok /\ entry.form = "setting" /\ entry.key \in Plain
  <2>1. [c.value EXCEPT ![entry.key] = entry.value] \in [Plain -> Values \cup {Default}]
    BY <1>3, LineKinds DEF Configs
  <2> QED
    BY <1>3, <2>1, LineDoes DEF Configs
<1>4. CASE c.ok /\ entry.form = "setting" /\ entry.key = "sms_hook"
  <2>1. Append(c.hooks, entry.value) \in Seq(Values)
    BY LineKinds DEF Configs
  <2>2. ReadLine(c, entry) = [c EXCEPT !.hooks = Append(@, entry.value)]
    BY <1>4, LineDoes
  <2> QED
    BY <2>1, <2>2 DEF Configs
<1>5. CASE c.ok /\ entry.form = "setting" /\ entry.key = "debug" /\ Known(entry)
  <2>1. ReadLine(c, entry) = [c EXCEPT !.debug = (entry.value = "on")]
    BY <1>5, LineDoes
  <2>2. (entry.value = "on") \in BOOLEAN
    OBVIOUS
  <2> QED
    BY <2>1, <2>2 DEF Configs
<1> QED
  BY <1>1, <1>2, <1>3, <1>4, <1>5, LineKinds DEF Configs, Known

LEMMA FileStates ==
    ASSUME NEW file \in Seq(Lines)
    PROVE  /\ ReadLines(file) \in [0..Len(file) -> Configs] /\ ReadLines(file)[0] = Compiled
           /\ \A k \in 1..Len(file) : ReadLines(file)[k] = ReadLine(ReadLines(file)[k - 1], file[k])
<1> DEFINE N == Len(file)
           step == [k \in 1..N |-> [s \in Configs |-> ReadLine(s, file[k])]]
           P(f) == f = [k \in 0..N |-> IF k = 0 THEN Compiled ELSE ReadLine(f[k - 1], file[k])]
           done == ReadLines(file)
<1>1. N \in Nat /\ \A k \in 1..N : file[k] \in Lines
  OBVIOUS
<1>2. Compiled \in Configs
  BY DEF Compiled, Configs
<1>3. \A k \in 1..N : \A s \in Configs : step[k][s] = ReadLine(s, file[k]) /\ step[k][s] \in Configs
  BY <1>1, ReadLineStays
<1> HIDE DEF N, step
<1>4. PICK f : IsLoop(f, N, Configs, Compiled, step)
  BY <1>1, <1>2, <1>3, LoopStates
<1>5. f \in [0..N -> Configs] /\ f[0] = Compiled /\ \A k \in 1..N : f[k] = step[k][f[k - 1]]
  BY <1>4 DEF IsLoop
<1>6. \A k \in 1..N : k - 1 \in 0..N /\ f[k] = ReadLine(f[k - 1], file[k])
  <2> TAKE k \in 1..N
  <2>1. k - 1 \in 0..N
    BY <1>1
  <2>2. f[k - 1] \in Configs
    BY <1>5, <2>1
  <2> QED
    BY <1>3, <1>5, <2>1, <2>2
<1>7. P(f)
  <2>1. f = [k \in 0..N |-> f[k]]
    BY <1>5
  <2>2. \A k \in 0..N : f[k] = IF k = 0 THEN Compiled ELSE ReadLine(f[k - 1], file[k])
    <3> TAKE k \in 0..N
    <3>1. k = 0 \/ k \in 1..N
      BY <1>1
    <3> QED
      BY <1>5, <1>6, <3>1
  <2> QED
    BY <2>1, <2>2
<1>8. done = CHOOSE g : P(g)
  BY DEF ReadLines, N
<1>9. P(done)
  <2> HIDE DEF P, done
  <2> QED
    BY <1>7, <1>8
<1>10. done[0] = Compiled /\ \A k \in 1..N : done[k] = ReadLine(done[k - 1], file[k])
  <2> HIDE DEF done
  <2>1. done = [k \in 0..N |-> IF k = 0 THEN Compiled ELSE ReadLine(done[k - 1], file[k])]
    BY <1>9
  <2> QED
    BY <1>1, <2>1
<1>11. \A k \in 0..N : done[k] \in Configs
  <2> DEFINE T == {k \in 0..N : done[k] \in Configs}
  <2>1. 0 \in T
    BY <1>1, <1>2, <1>10
  <2>2. \A k \in 1..N : k - 1 \in T => k \in T
    <3> TAKE k \in 1..N
    <3> HAVE k - 1 \in T
    <3>1. done[k - 1] \in Configs /\ file[k] \in Lines /\ k \in 0..N
      BY <1>1
    <3>2. done[k] \in Configs
      BY <1>10, <3>1, ReadLineStays
    <3> QED
      BY <3>1, <3>2
  <2> HIDE DEF T
  <2>3. \A k \in 0..N : k \in T
    BY <1>1, <2>1, <2>2, UpTo
  <2> QED
    BY <2>3 DEF T
<1>12. done \in [0..N -> Configs]
  <2>1. done = [k \in 0..N |-> IF k = 0 THEN Compiled ELSE ReadLine(done[k - 1], file[k])]
    BY <1>9
  <2>2. done = [k \in 0..N |-> done[k]]
    BY <2>1
  <2> QED
    BY <1>11, <2>2
<1> QED
  BY <1>10, <1>12 DEF N

\* The lines up to the n-th that give a key, and what the last of them gives.
GivenTo(file, key, n) == {i \in 1..n : file[i].form = "setting" /\ file[i].key = key}

ValueTo(file, key, n, value) ==
    LET S == GivenTo(file, key, n)
    IN  IF S = {} THEN value = Default ELSE \E i \in S : IsLast(i, S) /\ value = file[i].value

HooksTo(file, n, hooks) ==
    LET S == GivenTo(file, "sms_hook", n)
    IN  /\ IsFiniteSet(S) /\ Len(hooks) = Cardinality(S)
        /\ \A i \in S : hooks[Cardinality({j \in S : j <= i})] = file[i].value

DebugTo(file, n, debug) ==
    LET S == GivenTo(file, "debug", n)
    IN  debug = \E i \in S : IsLast(i, S) /\ file[i].value = "on"

\* What is known of a file behind n lines.
FileTo(file, n, c) ==
    /\ c.ok <=> \A i \in 1..n : Known(file[i])
    /\ c.ok => /\ \A k \in Plain : ValueTo(file, k, n, c.value[k])
               /\ HooksTo(file, n, c.hooks)
               /\ DebugTo(file, n, c.debug)

\* A line that does not give a key leaves its lines as they were; one that does is the last.
LEMMA GivenNext ==
    ASSUME NEW file, NEW key, NEW n \in Nat
    PROVE  LET S == GivenTo(file, key, n)
               T == GivenTo(file, key, n + 1)
           IN  /\ S \subseteq 1..n
               /\ ~(file[n + 1].form = "setting" /\ file[n + 1].key = key) => T = S
               /\ file[n + 1].form = "setting" /\ file[n + 1].key = key =>
                    T = S \cup {n + 1} /\ n + 1 \notin S /\ IsLast(n + 1, T)
                    /\ \A i \in T : IsLast(i, T) => i = n + 1
<1> DEFINE S == GivenTo(file, key, n)
           T == GivenTo(file, key, n + 1)
           Gives(i) == file[i].form = "setting" /\ file[i].key = key
<1>1. \A i : i \in S <=> i \in 1..n /\ Gives(i)
  BY DEF GivenTo
<1>2. \A i : i \in T <=> i \in 1..(n + 1) /\ Gives(i)
  BY DEF GivenTo
<1>3. \A i : i \in 1..(n + 1) <=> i \in 1..n \/ i = n + 1
  OBVIOUS
<1>4. n + 1 \notin 1..n /\ \A i \in 1..n : i <= n + 1
  OBVIOUS
<1> HIDE DEF S, T, Gives
<1>5. ~Gives(n + 1) => T = S
  BY <1>1, <1>2, <1>3
<1>6. Gives(n + 1) => T = S \cup {n + 1} /\ n + 1 \notin S
  BY <1>1, <1>2, <1>3, <1>4
<1>7. S \subseteq 1..n
  BY <1>1
<1>8. ASSUME Gives(n + 1) PROVE IsLast(n + 1, T) /\ \A i \in T : IsLast(i, T) => i = n + 1
  <2>1. n + 1 \in T /\ \A i \in T : i \in Nat /\ i <= n + 1
    BY <1>2, <1>8
  <2> QED
    BY <2>1 DEF IsLast
<1> QED
  BY <1>5, <1>6, <1>7, <1>8 DEF S, T, Gives

LEMMA ValueNext ==
    ASSUME NEW file, NEW key, NEW n \in Nat, NEW value
    PROVE  /\ ~(file[n + 1].form = "setting" /\ file[n + 1].key = key) /\ ValueTo(file, key, n, value)
                => ValueTo(file, key, n + 1, value)
           /\ file[n + 1].form = "setting" /\ file[n + 1].key = key
                => ValueTo(file, key, n + 1, file[n + 1].value)
<1>1. ASSUME ~(file[n + 1].form = "setting" /\ file[n + 1].key = key), ValueTo(file, key, n, value)
      PROVE  ValueTo(file, key, n + 1, value)
  <2>1. GivenTo(file, key, n + 1) = GivenTo(file, key, n)
    BY <1>1, GivenNext
  <2> QED
    BY <1>1, <2>1 DEF ValueTo
<1>2. ASSUME file[n + 1].form = "setting", file[n + 1].key = key
      PROVE  ValueTo(file, key, n + 1, file[n + 1].value)
  <2>1. IsLast(n + 1, GivenTo(file, key, n + 1)) /\ n + 1 \in GivenTo(file, key, n + 1)
    BY <1>2, GivenNext DEF IsLast
  <2> QED
    BY <2>1 DEF ValueTo
<1> QED
  BY <1>1, <1>2

LEMMA DebugNext ==
    ASSUME NEW file, NEW n \in Nat, NEW debug
    PROVE  /\ ~(file[n + 1].form = "setting" /\ file[n + 1].key = "debug") /\ DebugTo(file, n, debug)
                => DebugTo(file, n + 1, debug)
           /\ file[n + 1].form = "setting" /\ file[n + 1].key = "debug"
                => DebugTo(file, n + 1, file[n + 1].value = "on")
<1>1. ASSUME ~(file[n + 1].form = "setting" /\ file[n + 1].key = "debug"), DebugTo(file, n, debug)
      PROVE  DebugTo(file, n + 1, debug)
  <2>1. GivenTo(file, "debug", n + 1) = GivenTo(file, "debug", n)
    BY <1>1, GivenNext
  <2> QED
    BY <1>1, <2>1 DEF DebugTo
<1>2. ASSUME file[n + 1].form = "setting", file[n + 1].key = "debug"
      PROVE  DebugTo(file, n + 1, file[n + 1].value = "on")
  <2> DEFINE T == GivenTo(file, "debug", n + 1)
  <2>1. IsLast(n + 1, T) /\ n + 1 \in T /\ \A i \in T : IsLast(i, T) => i = n + 1
    BY <1>2, GivenNext DEF IsLast
  <2>2. (file[n + 1].value = "on") <=> \E i \in T : IsLast(i, T) /\ file[i].value = "on"
    <3> HIDE DEF T
    <3> QED
      BY <2>1
  <2> QED
    BY <2>2 DEF DebugTo
<1> QED
  BY <1>1, <1>2

LEMMA HooksNext ==
    ASSUME NEW file, NEW n \in Nat, NEW hooks \in Seq(Values), HooksTo(file, n, hooks)
    PROVE  /\ ~(file[n + 1].form = "setting" /\ file[n + 1].key = "sms_hook")
                => HooksTo(file, n + 1, hooks)
           /\ file[n + 1].form = "setting" /\ file[n + 1].key = "sms_hook" /\ file[n + 1].value \in Values
                => HooksTo(file, n + 1, Append(hooks, file[n + 1].value))
<1> DEFINE S == GivenTo(file, "sms_hook", n)
           T == GivenTo(file, "sms_hook", n + 1)
           UpToLine(R, i) == {j \in R : j <= i}
<1>0. /\ IsFiniteSet(S) /\ Len(hooks) = Cardinality(S)
      /\ \A i \in S : hooks[Cardinality(UpToLine(S, i))] = file[i].value
  BY DEF HooksTo
<1>1. ASSUME ~(file[n + 1].form = "setting" /\ file[n + 1].key = "sms_hook")
      PROVE  HooksTo(file, n + 1, hooks)
  <2>1. T = S
    BY <1>1, GivenNext
  <2> QED
    BY <2>1 DEF HooksTo
<1>2. ASSUME file[n + 1].form = "setting", file[n + 1].key = "sms_hook", file[n + 1].value \in Values
      PROVE  HooksTo(file, n + 1, Append(hooks, file[n + 1].value))
  <2> DEFINE longer == Append(hooks, file[n + 1].value)
  <2>1. T = S \cup {n + 1} /\ n + 1 \notin S /\ S \subseteq 1..n
    BY <1>2, GivenNext
  <2> HIDE DEF S, T
  <2>2. IsFiniteSet(T) /\ Cardinality(T) = Cardinality(S) + 1 /\ Cardinality(S) \in Nat
    BY <1>0, <2>1, FS_AddElement, FS_CardinalityType
  <2>3. /\ Len(longer) = Len(hooks) + 1 /\ longer[Len(hooks) + 1] = file[n + 1].value
        /\ \A k \in 1..Len(hooks) : longer[k] = hooks[k]
    BY <1>2
  <2>4. ASSUME NEW i \in T PROVE longer[Cardinality(UpToLine(T, i))] = file[i].value
    <3>1. CASE i = n + 1
      <4>1. UpToLine(T, i) = T
        <5>1. \A j \in T : j <= n + 1
          BY <2>1
        <5> QED
          BY <3>1, <5>1
      <4> QED
        BY <1>0, <2>2, <2>3, <3>1, <4>1
    <3>2. CASE i # n + 1
      <4>1. i \in S /\ i \in 1..n
        BY <2>1, <3>2
      <4>2. UpToLine(T, i) = UpToLine(S, i)
        <5>1. ~(n + 1 <= i)
          BY <4>1
        <5> QED
          BY <2>1, <5>1
      <4>3. UpToLine(S, i) \subseteq S /\ i \in UpToLine(S, i)
        BY <4>1
      <4> HIDE DEF UpToLine
      <4>4. /\ IsFiniteSet(UpToLine(S, i)) /\ Cardinality(UpToLine(S, i)) <= Cardinality(S)
        BY <1>0, <4>3, FS_Subset
      <4>5. Cardinality(UpToLine(S, i)) \in Nat /\ Cardinality(UpToLine(S, i)) # 0
        BY <4>3, <4>4, FS_CardinalityType, FS_EmptySet
      <4>6. Cardinality(UpToLine(S, i)) \in 1..Len(hooks)
        BY <1>0, <2>2, <4>4, <4>5
      <4> QED
        BY <1>0, <2>3, <4>1, <4>2, <4>6
    <3> QED
      BY <3>1, <3>2
  <2> HIDE DEF longer
  <2>5. HooksTo(file, n + 1, longer)
    BY <1>0, <2>2, <2>3, <2>4 DEF HooksTo, T
  <2> QED
    BY <2>5 DEF longer
<1> QED
  BY <1>1, <1>2

LEMMA KnownNext ==
    ASSUME NEW file, NEW n \in Nat
    PROVE  (\A i \in 1..(n + 1) : Known(file[i])) <=> (\A i \in 1..n : Known(file[i])) /\ Known(file[n + 1])
<1>1. \A i : i \in 1..(n + 1) <=> i \in 1..n \/ i = n + 1
  OBVIOUS
<1> QED
  BY <1>1

LEMMA ReadNext ==
    ASSUME NEW file, NEW n \in Nat, NEW c \in Configs, file[n + 1] \in Lines, FileTo(file, n, c)
    PROVE  FileTo(file, n + 1, ReadLine(c, file[n + 1]))
<1> DEFINE entry == file[n + 1]
           d == ReadLine(c, entry)
<1>0. entry \in Lines /\ c.hooks \in Seq(Values)
  BY DEF Configs
<1>1. c.ok \in BOOLEAN /\ (c.ok <=> \A i \in 1..n : Known(file[i]))
  BY DEF FileTo, Configs
<1>2. (\A i \in 1..(n + 1) : Known(file[i])) <=> c.ok /\ Known(entry)
  BY <1>1, KnownNext
<1>3. c.ok => /\ \A k \in Plain : ValueTo(file, k, n, c.value[k])
              /\ HooksTo(file, n, c.hooks)
              /\ DebugTo(file, n, c.debug)
  BY DEF FileTo
<1>4. CASE ~c.ok
  <2>1. d = c
    BY <1>0, <1>4, LineDoes
  <2> QED
    BY <1>2, <1>4, <2>1 DEF FileTo
<1>5. CASE c.ok /\ ~Known(entry)
  <2>1. d = [c EXCEPT !.ok = FALSE]
    BY <1>0, <1>5, LineDoes
  <2>2. d.ok = FALSE
    BY <2>1 DEF Configs
  <2> QED
    BY <1>2, <1>5, <2>2 DEF FileTo
<1> DEFINE Gives(key) == entry.form = "setting" /\ entry.key = key
<1>6. ASSUME NEW k \in Plain, c.ok, ~Gives(k)
      PROVE  ValueTo(file, k, n + 1, c.value[k])
  <2>1. ValueTo(file, k, n, c.value[k])
    BY <1>3, <1>6
  <2> QED
    BY <1>6, <2>1, ValueNext
<1>7. ASSUME c.ok, ~Gives("sms_hook") PROVE HooksTo(file, n + 1, c.hooks)
  BY <1>0, <1>3, <1>7, HooksNext
<1>8. ASSUME c.ok, ~Gives("debug") PROVE DebugTo(file, n + 1, c.debug)
  BY <1>3, <1>8, DebugNext
<1>9. CASE c.ok /\ Known(entry) /\ entry.form = "blank"
  <2>1. d = c
    BY <1>0, <1>9, LineDoes
  <2>2. \A k : ~Gives(k)
    BY <1>9
  <2> HIDE DEF Gives, d
  <2>3. /\ \A k \in Plain : ValueTo(file, k, n + 1, c.value[k])
        /\ HooksTo(file, n + 1, c.hooks) /\ DebugTo(file, n + 1, c.debug)
    BY <1>6, <1>7, <1>8, <1>9, <2>2
  <2>4. FileTo(file, n + 1, d)
    BY <1>2, <1>9, <2>1, <2>3 DEF FileTo
  <2> QED
    BY <2>4 DEF d
<1>10. CASE c.ok /\ Known(entry) /\ entry.form = "setting" /\ entry.key \in Plain
  <2>1. d = [c EXCEPT !.value = [@ EXCEPT ![entry.key] = entry.value]]
    BY <1>0, <1>10, LineDoes
  <2>2. /\ d.ok = c.ok /\ d.hooks = c.hooks /\ d.debug = c.debug
        /\ d.value = [c.value EXCEPT ![entry.key] = entry.value] /\ DOMAIN c.value = Plain
    BY <2>1 DEF Configs
  <2>3. ~Gives("sms_hook") /\ ~Gives("debug")
    BY <1>10 DEF Plain, Dirs
  <2>4. \A k \in Plain : ValueTo(file, k, n + 1, d.value[k])
    <3> TAKE k \in Plain
    <3>1. CASE k = entry.key
      <4>1. d.value[k] = entry.value
        BY <2>2, <3>1
      <4> QED
        BY <1>10, <3>1, <4>1, ValueNext
    <3>2. CASE k # entry.key
      <4>1. d.value[k] = c.value[k]
        BY <2>2, <3>2
      <4> QED
        BY <1>6, <1>10, <3>2, <4>1
    <3> QED
      BY <3>1, <3>2
  <2>5. HooksTo(file, n + 1, d.hooks) /\ DebugTo(file, n + 1, d.debug)
    BY <1>7, <1>8, <1>10, <2>2, <2>3
  <2> HIDE DEF d
  <2>6. FileTo(file, n + 1, d)
    BY <1>2, <1>10, <2>2, <2>4, <2>5 DEF FileTo
  <2> QED
    BY <2>6 DEF d
<1>11. CASE c.ok /\ Known(entry) /\ entry.form = "setting" /\ entry.key = "sms_hook"
  <2>1. d = [c EXCEPT !.hooks = Append(@, entry.value)]
    BY <1>0, <1>11, LineDoes
  <2>2. d.ok = c.ok /\ d.value = c.value /\ d.hooks = Append(c.hooks, entry.value) /\ d.debug = c.debug
    BY <2>1 DEF Configs
  <2>3. ~Gives("debug") /\ \A k \in Plain : ~Gives(k)
    BY <1>11 DEF Plain, Dirs
  <2>4. entry.value \in Values
    BY <1>0, LineKinds
  <2>5. HooksTo(file, n + 1, d.hooks)
    BY <1>0, <1>3, <1>11, <2>2, <2>4, HooksNext
  <2>6. DebugTo(file, n + 1, d.debug)
    BY <1>8, <1>11, <2>2, <2>3
  <2>7. \A k \in Plain : ValueTo(file, k, n + 1, d.value[k])
    BY <1>6, <1>11, <2>2, <2>3
  <2> HIDE DEF d
  <2>8. FileTo(file, n + 1, d)
    BY <1>2, <1>11, <2>2, <2>5, <2>6, <2>7 DEF FileTo
  <2> QED
    BY <2>8 DEF d
<1>12. CASE c.ok /\ Known(entry) /\ entry.form = "setting" /\ entry.key = "debug"
  <2>1. d = [c EXCEPT !.debug = (entry.value = "on")]
    BY <1>0, <1>12, LineDoes
  <2>2. d.ok = c.ok /\ d.value = c.value /\ d.hooks = c.hooks /\ d.debug = (entry.value = "on")
    BY <2>1 DEF Configs
  <2>3. ~Gives("sms_hook") /\ \A k \in Plain : ~Gives(k)
    BY <1>12 DEF Plain, Dirs
  <2>4. DebugTo(file, n + 1, entry.value = "on")
    BY <1>12, DebugNext
  <2>5. HooksTo(file, n + 1, d.hooks)
    BY <1>7, <1>12, <2>2, <2>3
  <2>6. \A k \in Plain : ValueTo(file, k, n + 1, d.value[k])
    BY <1>6, <1>12, <2>2, <2>3
  <2>7. DebugTo(file, n + 1, d.debug)
    BY <2>2, <2>4
  <2> HIDE DEF d
  <2>8. FileTo(file, n + 1, d)
    BY <1>2, <1>12, <2>2, <2>5, <2>6, <2>7 DEF FileTo
  <2> QED
    BY <2>8 DEF d
<1>13. Known(entry) => entry.form # "bare" /\ entry.key # "unknown"
  BY DEF Known
<1> QED
  BY <1>0, <1>1, <1>4, <1>5, <1>9, <1>10, <1>11, <1>12, <1>13, LineKinds

LEMMA FileIsRead ==
    ASSUME NEW file \in Seq(Lines)
    PROVE  \A n \in 0..Len(file) : FileTo(file, n, ReadLines(file)[n])
<1> DEFINE N == Len(file)
           done == ReadLines(file)
           T == {n \in 0..N : FileTo(file, n, done[n])}
<1>0. N \in Nat /\ \A n \in 1..N : file[n] \in Lines
  OBVIOUS
<1>1. /\ done \in [0..N -> Configs] /\ done[0] = Compiled
      /\ \A k \in 1..N : done[k] = ReadLine(done[k - 1], file[k])
  BY FileStates
<1> HIDE DEF done, N
<1>2. FileTo(file, 0, Compiled)
  <2>1. \A key : GivenTo(file, key, 0) = {}
    BY DEF GivenTo
  <2>2. \A k \in Plain : ValueTo(file, k, 0, Compiled.value[k])
    BY <2>1 DEF ValueTo, Compiled
  <2>3. HooksTo(file, 0, Compiled.hooks)
    BY <2>1, FS_EmptySet DEF HooksTo, Compiled
  <2>4. DebugTo(file, 0, Compiled.debug)
    BY <2>1 DEF DebugTo, Compiled
  <2>5. Compiled.ok <=> \A i \in 1..0 : Known(file[i])
    BY DEF Compiled
  <2> QED
    BY <2>2, <2>3, <2>4, <2>5 DEF FileTo
<1>3. 0 \in T
  BY <1>0, <1>1, <1>2
<1>4. ASSUME NEW k \in 1..N, k - 1 \in T PROVE k \in T
  <2>1. k - 1 \in Nat /\ (k - 1) + 1 = k /\ k - 1 \in 0..N /\ k \in 0..N
    BY <1>0
  <2>2. done[k - 1] \in Configs /\ file[k] \in Lines /\ FileTo(file, k - 1, done[k - 1])
    BY <1>0, <1>1, <1>4, <2>1
  <2>3. FileTo(file, (k - 1) + 1, ReadLine(done[k - 1], file[(k - 1) + 1]))
    BY <2>1, <2>2, ReadNext
  <2>4. FileTo(file, k, done[k])
    BY <1>1, <2>1, <2>3
  <2> QED
    BY <2>1, <2>4
<1> HIDE DEF T
<1>5. \A k \in 0..N : k \in T
  BY <1>0, <1>3, <1>4, UpTo
<1> QED
  BY <1>5 DEF T, N, done

\* The elements of a finite set of numbers are counted from 1 on, each place once.
LEMMA PlacesAreTaken ==
    ASSUME NEW S \in SUBSET Nat, IsFiniteSet(S)
    PROVE  /\ \A i \in S : Cardinality({j \in S : j <= i}) \in 1..Cardinality(S)
           /\ \A m \in 1..Cardinality(S) : \E i \in S : Cardinality({j \in S : j <= i}) = m
<1> DEFINE below(i) == {j \in S : j <= i}
<1>0. Cardinality(S) \in Nat
  BY FS_CardinalityType
<1>1. ASSUME NEW i \in S PROVE Cardinality(below(i)) \in 1..Cardinality(S)
  <2>1. below(i) \subseteq S /\ i \in below(i)
    OBVIOUS
  <2> HIDE DEF below
  <2>2. IsFiniteSet(below(i)) /\ Cardinality(below(i)) <= Cardinality(S)
    BY <2>1, FS_Subset
  <2>3. Cardinality(below(i)) \in Nat /\ Cardinality(below(i)) # 0
    BY <2>1, <2>2, FS_CardinalityType, FS_EmptySet
  <2> QED
    BY <1>0, <2>2, <2>3
<1>2. ASSUME NEW i \in S, NEW k \in S, i # k PROVE Cardinality(below(i)) # Cardinality(below(k))
  <2>1. ASSUME NEW a \in S, NEW b \in S, a < b PROVE Cardinality(below(a)) < Cardinality(below(b))
    <3>1. below(a) \subseteq below(b) /\ b \in below(b) /\ b \notin below(a) /\ below(b) \subseteq S
      <4>1. a \in Nat /\ b \in Nat /\ \A x \in S : x \in Nat
        OBVIOUS
      <4>2. ~(b <= a) /\ b <= b /\ \A x \in S : x <= a => x <= b
        BY <2>1, <4>1
      <4> QED
        BY <4>2
    <3> HIDE DEF below
    <3>2. IsFiniteSet(below(b)) /\ IsFiniteSet(below(a))
      BY <3>1, FS_Subset
    <3>3. Cardinality(below(a) \cup {b}) = Cardinality(below(a)) + 1
      BY <3>1, <3>2, FS_AddElement
    <3>4. Cardinality(below(a) \cup {b}) <= Cardinality(below(b))
      BY <3>1, <3>2, FS_Subset
    <3>5. Cardinality(below(a)) \in Nat /\ Cardinality(below(b)) \in Nat
      BY <3>2, FS_CardinalityType
    <3> QED
      BY <3>3, <3>4, <3>5
  <2>2. i < k \/ k < i
    BY <1>2
  <2>3. Cardinality(below(i)) \in Nat /\ Cardinality(below(k)) \in Nat
    BY <1>0, <1>1
  <2> HIDE DEF below
  <2> QED
    BY <2>1, <2>2, <2>3
<1> DEFINE C == Cardinality(S)
           f == [i \in S |-> Cardinality(below(i))]
<1>3. f \in Injection(S, 1..C)
  BY <1>1, <1>2 DEF Injection, IsInjective
<1>4. IsFiniteSet(1..C) /\ Cardinality(1..C) = C
  BY <1>0, FS_Interval
<1>5. f \in Surjection(S, 1..C)
  <2> HIDE DEF f, C
  <2> QED
    BY <1>3, <1>4, FS_Injection DEF C
<1>6. ASSUME NEW m \in 1..C PROVE \E i \in S : Cardinality(below(i)) = m
  BY <1>5 DEF Surjection
<1> QED
  BY <1>1, <1>6

LEMMA ConfigLoaded ==
    ASSUME NEW file \in Seq(Lines)
    PROVE  LoadedAsWritten(file)
<1> DEFINE N == Len(file)
           c == ReadLines(file)[N]
           config == Load(file)
<1>1. N \in Nat /\ DOMAIN file = 1..N /\ N \in 0..N
  OBVIOUS
<1>2. c \in Configs
  BY <1>1, FileStates
<1>3. FileTo(file, N, c)
  BY <1>1, FileIsRead
<1>4. config = IF c.ok /\ Usable(c) THEN c ELSE Refused(c)
  BY DEF Load
<1> HIDE DEF N, c, config
<1>5. c.ok \in BOOLEAN /\ c.value \in [Plain -> Values \cup {Default}] /\ c.hooks \in Seq(Values)
      /\ c.debug \in BOOLEAN /\ Refused(c).ok = FALSE
  BY <1>2 DEF Configs, Refused
<1>6. \A key : Given(file, key) = GivenTo(file, key, N) /\ Given(file, key) \in SUBSET Nat
  BY <1>1 DEF Given, GivenTo
<1>7. c.ok <=> \A i \in DOMAIN file : Known(file[i])
  BY <1>1, <1>3 DEF FileTo
<1>8. ASSUME c.ok, NEW k \in Plain
      PROVE  c.value[k] = IF Given(file, k) = {} THEN Default ELSE LastGiven(file, k)
  <2>1. ValueTo(file, k, N, c.value[k])
    BY <1>3, <1>8 DEF FileTo
  <2>2. CASE Given(file, k) = {}
    BY <1>6, <2>1, <2>2 DEF ValueTo
  <2>3. CASE Given(file, k) # {}
    <3>1. PICK i \in Given(file, k) : IsLast(i, Given(file, k)) /\ c.value[k] = file[i].value
      BY <1>6, <2>1, <2>3 DEF ValueTo
    <3>2. Max(Given(file, k)) = i
      BY <1>6, <3>1, LastIsMax
    <3> QED
      BY <2>3, <3>1, <3>2 DEF LastGiven
  <2> QED
    BY <2>2, <2>3
<1>9. ASSUME c.ok PROVE HooksInOrder(file, c.hooks) /\ IsFiniteSet(Given(file, "sms_hook"))
  BY <1>3, <1>6, <1>9 DEF FileTo, HooksTo, HooksInOrder
<1>10. ASSUME c.ok
       PROVE  c.debug = (Given(file, "debug") # {} /\ LastGiven(file, "debug") = "on")
  <2> DEFINE S == Given(file, "debug")
  <2>1. c.debug = \E i \in S : IsLast(i, S) /\ file[i].value = "on"
    <3>1. DebugTo(file, N, c.debug)
      BY <1>3, <1>10 DEF FileTo
    <3>2. GivenTo(file, "debug", N) = S
      BY <1>6
    <3> HIDE DEF S
    <3> QED
      BY <3>1, <3>2 DEF DebugTo
  <2>2. ASSUME NEW i \in S, IsLast(i, S) PROVE LastGiven(file, "debug") = file[i].value
    BY <1>6, <2>2, LastIsMax DEF LastGiven
  <2>3. S # {} => \E i \in S : IsLast(i, S)
    <3>1. CASE S = {}
      BY <3>1
    <3>2. CASE S # {}
      <4>1. S \subseteq 1..N
        BY <1>6 DEF GivenTo
      <4> QED
        BY <1>1, <3>2, <4>1, GreatestOf
    <3> QED
      BY <3>1, <3>2
  <2> HIDE DEF S
  <2>4. (\E i \in S : IsLast(i, S) /\ file[i].value = "on") <=> (S # {} /\ LastGiven(file, "debug") = "on")
    BY <2>2, <2>3
  <2>5. c.debug = (S # {} /\ LastGiven(file, "debug") = "on")
    BY <2>1, <2>4
  <2> QED
    BY <2>5 DEF S
<1>11. ASSUME c.ok
       PROVE  Usable(c) <=> /\ \A k \in Plain : Given(file, k) # {} => LastGiven(file, k) # Empty
                            /\ \A i \in Given(file, "sms_hook") : file[i].value # Empty
  <2> DEFINE S == Given(file, "sms_hook")
             place(i) == Cardinality({j \in S : j <= i})
  <2>1. Default # Empty
    BY WordsAssumption
  <2>2. ASSUME NEW k \in Plain
        PROVE  c.value[k] # Empty <=> (Given(file, k) # {} => LastGiven(file, k) # Empty)
    BY <1>8, <1>11, <2>1
  <2>3. Len(c.hooks) = Cardinality(S) /\ \A i \in S : c.hooks[place(i)] = file[i].value
    BY <1>9, <1>11 DEF HooksInOrder
  <2>4. \A i \in S : place(i) \in 1..Cardinality(S)
    BY <1>6, <1>9, <1>11, PlacesAreTaken
  <2>5. \A m \in 1..Cardinality(S) : \E i \in S : place(i) = m
    BY <1>6, <1>9, <1>11, PlacesAreTaken
  <2>6. DOMAIN c.hooks = 1..Cardinality(S)
    BY <1>5, <2>3
  <2> HIDE DEF S, place
  <2>7. (\A m \in DOMAIN c.hooks : c.hooks[m] # Empty) <=> \A i \in S : file[i].value # Empty
    BY <2>3, <2>4, <2>5, <2>6
  <2> QED
    BY <2>2, <2>7 DEF Usable, S
<1>12. c.ok /\ Usable(c) <=> Acceptable(file)
  BY <1>7, <1>11 DEF Acceptable
<1>13. config.ok <=> Acceptable(file)
  BY <1>4, <1>5, <1>12
<1>14. ASSUME config.ok PROVE c.ok /\ Usable(c) /\ config = c
  BY <1>4, <1>5, <1>14
<1>15. ASSUME config.ok PROVE XmlEnabled(config) = {d \in Dirs : Given(file, d) # {}}
  <2>1. ASSUME NEW d \in Dirs PROVE c.value[d] # Default <=> Given(file, d) # {}
    <3>1. d \in Plain
      BY DEF Plain
    <3>2. c.value[d] = IF Given(file, d) = {} THEN Default ELSE LastGiven(file, d)
      BY <1>8, <1>14, <1>15, <3>1
    <3>3. CASE Given(file, d) # {}
      <4>1. ValueTo(file, d, N, c.value[d])
        BY <1>3, <1>14, <1>15, <3>1 DEF FileTo
      <4>2. PICK i \in Given(file, d) : c.value[d] = file[i].value
        BY <1>6, <3>3, <4>1 DEF ValueTo
      <4>3. file[i] \in Lines
        BY <1>1, <1>6 DEF GivenTo
      <4>4. file[i].value \in Values
        BY <4>3, LineKinds
      <4>5. Default \notin Values
        BY WordsAssumption DEF Values
      <4> QED
        BY <3>3, <4>2, <4>4, <4>5
    <3> QED
      BY <3>2, <3>3
  <2> QED
    BY <1>14, <1>15, <2>1 DEF XmlEnabled
<1>16. config.ok =>
            /\ \A k \in Plain :
                config.value[k] = IF Given(file, k) = {} THEN Default ELSE LastGiven(file, k)
            /\ HooksInOrder(file, config.hooks)
            /\ config.debug = (Given(file, "debug") # {} /\ LastGiven(file, "debug") = "on")
  BY <1>8, <1>9, <1>10, <1>14
<1> QED
  BY <1>13, <1>15, <1>16 DEF LoadedAsWritten, config

-----------------------------------------------------------------------------
(* The arguments.                                                          *)

LEMMA OptionStates ==
    ASSUME NEW V, NEW argv \in Seq(V)
    PROVE  LET option == Options(argv)
           IN  /\ option \in [0..Len(argv) -> BOOLEAN] /\ option[0] = FALSE
               /\ \A k \in 1..Len(argv) : option[k] = (argv[k] = "-c" /\ ~option[k - 1])
<1> DEFINE N == Len(argv)
           next(k, s) == argv[k] = "-c" /\ ~s
           step == [k \in 1..N |-> [s \in BOOLEAN |-> next(k, s)]]
           P(f) == f = [k \in 0..N |-> IF k = 0 THEN FALSE ELSE next(k, f[k - 1])]
           done == Options(argv)
<1>1. N \in Nat
  OBVIOUS
<1>2. \A k, s : next(k, s) \in BOOLEAN
  OBVIOUS
<1>3. \A k \in 1..N : \A s \in BOOLEAN : step[k][s] = next(k, s)
  OBVIOUS
<1> HIDE DEF N, next, step
<1>4. PICK f : IsLoop(f, N, BOOLEAN, FALSE, step)
  <2>1. \A k \in 1..N : \A s \in BOOLEAN : step[k][s] \in BOOLEAN
    BY <1>2, <1>3
  <2>2. FALSE \in BOOLEAN
    OBVIOUS
  <2> QED
    BY <1>1, <2>1, <2>2, LoopStates
<1>5. f \in [0..N -> BOOLEAN] /\ f[0] = FALSE /\ \A k \in 1..N : f[k] = step[k][f[k - 1]]
  BY <1>4 DEF IsLoop
<1>6. \A k \in 1..N : f[k] = next(k, f[k - 1])
  <2> TAKE k \in 1..N
  <2>1. k - 1 \in 0..N
    BY <1>1
  <2>2. f[k - 1] \in BOOLEAN
    BY <1>5, <2>1
  <2> QED
    BY <1>3, <1>5, <2>2
<1>7. P(f)
  <2>1. f = [k \in 0..N |-> f[k]]
    BY <1>5
  <2>2. \A k \in 0..N : f[k] = IF k = 0 THEN FALSE ELSE next(k, f[k - 1])
    <3> TAKE k \in 0..N
    <3>1. k = 0 \/ k \in 1..N
      BY <1>1
    <3> QED
      BY <1>5, <1>6, <3>1
  <2> QED
    BY <2>1, <2>2
<1>8. done = CHOOSE g : P(g)
  BY DEF Options, N, next
<1>9. P(done)
  <2> HIDE DEF P, done
  <2> QED
    BY <1>7, <1>8
<1>10. done[0] = FALSE /\ \A k \in 1..N : done[k] = next(k, done[k - 1])
  <2> HIDE DEF done
  <2>1. done = [k \in 0..N |-> IF k = 0 THEN FALSE ELSE next(k, done[k - 1])]
    BY <1>9
  <2>2. 0 \in 0..N /\ \A k \in 1..N : k \in 0..N /\ k # 0
    BY <1>1
  <2> QED
    BY <2>1, <2>2
<1>11. done \in [0..N -> BOOLEAN]
  <2> HIDE DEF done
  <2>1. done = [k \in 0..N |-> IF k = 0 THEN FALSE ELSE next(k, done[k - 1])]
    BY <1>9
  <2> QED
    BY <1>2, <2>1
<1> QED
  BY <1>10, <1>11 DEF N, next

\* The values of sms-send's variables.
Sends(V) ==
    LET W == V \cup {"", SmsConfigPath}
    IN  [awaits : BOOLEAN, usage : BOOLEAN, phoneNo : W, outDir : Seq(W), configPath : W]

LEMMA ArgumentStays ==
    ASSUME NEW V, NEW st \in Sends(V), NEW arg \in V
    PROVE  SendArgument(st, arg) \in Sends(V)
<1> DEFINE d == SendArgument(st, arg)
           W == V \cup {"", SmsConfigPath}
<1>0. st.awaits \in BOOLEAN
  BY DEF Sends
<1>1. CASE st.awaits
  <2>1. d = [st EXCEPT !.awaits = FALSE, !.configPath = arg]
    BY <1>0, <1>1 DEF SendArgument
  <2> QED
    BY <2>1 DEF Sends
<1>2. CASE ~st.awaits /\ arg = "-c"
  <2>1. d = [st EXCEPT !.awaits = TRUE]
    BY <1>0, <1>2 DEF SendArgument
  <2> QED
    BY <2>1 DEF Sends
<1>3. CASE ~st.awaits /\ arg # "-c" /\ st.phoneNo = ""
  <2>1. d = [st EXCEPT !.phoneNo = arg]
    BY <1>0, <1>3 DEF SendArgument
  <2> QED
    BY <2>1 DEF Sends
<1>4. CASE ~st.awaits /\ arg # "-c" /\ st.phoneNo # "" /\ st.outDir = <<>>
  <2>1. d = [st EXCEPT !.outDir = <<arg>>]
    BY <1>0, <1>4 DEF SendArgument
  <2>2. <<arg>> \in Seq(W)
    <3>1. arg \in W
      OBVIOUS
    <3> HIDE DEF W
    <3> QED
      BY <3>1
  <2> QED
    BY <2>1, <2>2 DEF Sends
<1>5. CASE ~st.awaits /\ arg # "-c" /\ st.phoneNo # "" /\ st.outDir # <<>>
  <2>1. d = [st EXCEPT !.usage = TRUE]
    BY <1>0, <1>5 DEF SendArgument
  <2> QED
    BY <2>1 DEF Sends
<1> QED
  BY <1>0, <1>1, <1>2, <1>3, <1>4, <1>5

LEMMA SendStates ==
    ASSUME NEW V, NEW argv \in Seq(V)
    PROVE  /\ SendArguments(argv) \in [0..Len(argv) -> Sends(V)] /\ SendArguments(argv)[0] = SendStart
           /\ \A k \in 1..Len(argv) : SendArguments(argv)[k] = SendArgument(SendArguments(argv)[k - 1], argv[k])
<1> DEFINE N == Len(argv)
           step == [k \in 1..N |-> [s \in Sends(V) |-> SendArgument(s, argv[k])]]
           P(f) == f = [k \in 0..N |-> IF k = 0 THEN SendStart ELSE SendArgument(f[k - 1], argv[k])]
           done == SendArguments(argv)
<1>1. N \in Nat /\ \A k \in 1..N : argv[k] \in V
  OBVIOUS
<1>2. SendStart \in Sends(V)
  BY DEF SendStart, Sends
<1>3. \A k \in 1..N : \A s \in Sends(V) : step[k][s] = SendArgument(s, argv[k]) /\ step[k][s] \in Sends(V)
  BY <1>1, ArgumentStays
<1> HIDE DEF N, step
<1>4. PICK f : IsLoop(f, N, Sends(V), SendStart, step)
  BY <1>1, <1>2, <1>3, LoopStates
<1>5. f \in [0..N -> Sends(V)] /\ f[0] = SendStart /\ \A k \in 1..N : f[k] = step[k][f[k - 1]]
  BY <1>4 DEF IsLoop
<1>6. \A k \in 1..N : k - 1 \in 0..N /\ f[k] = SendArgument(f[k - 1], argv[k])
  <2> TAKE k \in 1..N
  <2>1. k - 1 \in 0..N
    BY <1>1
  <2>2. f[k - 1] \in Sends(V)
    BY <1>5, <2>1
  <2> QED
    BY <1>3, <1>5, <2>1, <2>2
<1>7. P(f)
  <2>1. f = [k \in 0..N |-> f[k]]
    BY <1>5
  <2>2. \A k \in 0..N : f[k] = IF k = 0 THEN SendStart ELSE SendArgument(f[k - 1], argv[k])
    <3> TAKE k \in 0..N
    <3>1. k = 0 \/ k \in 1..N
      BY <1>1
    <3> QED
      BY <1>5, <1>6, <3>1
  <2> QED
    BY <2>1, <2>2
<1>8. done = CHOOSE g : P(g)
  BY DEF SendArguments, N
<1>9. P(done)
  <2> HIDE DEF P, done
  <2> QED
    BY <1>7, <1>8
<1>10. done[0] = SendStart /\ \A k \in 1..N : done[k] = SendArgument(done[k - 1], argv[k])
  <2> HIDE DEF done
  <2>1. done = [k \in 0..N |-> IF k = 0 THEN SendStart ELSE SendArgument(done[k - 1], argv[k])]
    BY <1>9
  <2> QED
    BY <1>1, <2>1
<1>11. \A k \in 0..N : done[k] \in Sends(V)
  <2> DEFINE T == {k \in 0..N : done[k] \in Sends(V)}
  <2>1. 0 \in T
    BY <1>1, <1>2, <1>10
  <2>2. \A k \in 1..N : k - 1 \in T => k \in T
    <3> TAKE k \in 1..N
    <3> HAVE k - 1 \in T
    <3>1. done[k - 1] \in Sends(V) /\ argv[k] \in V /\ k \in 0..N
      BY <1>1
    <3>2. done[k] \in Sends(V)
      BY <1>10, <3>1, ArgumentStays
    <3> QED
      BY <3>1, <3>2
  <2> HIDE DEF T
  <2>3. \A k \in 0..N : k \in T
    BY <1>1, <2>1, <2>2, UpTo
  <2> QED
    BY <2>3 DEF T
<1>12. done \in [0..N -> Sends(V)]
  <2>1. done = [k \in 0..N |-> IF k = 0 THEN SendStart ELSE SendArgument(done[k - 1], argv[k])]
    BY <1>9
  <2>2. done = [k \in 0..N |-> done[k]]
    BY <2>1
  <2> QED
    BY <1>11, <2>2
<1> QED
  BY <1>10, <1>12 DEF N

\* The files, the words and the words from the first one that is not empty, among n
\* arguments.
FilesTo(argv, n) == {i \in 1..n : Options(argv)[i - 1]}
WordsTo(argv, n) == {i \in 1..n : ~Options(argv)[i] /\ ~Options(argv)[i - 1]}
NamedTo(argv, n) == {i \in WordsTo(argv, n) : \E j \in WordsTo(argv, n) : j <= i /\ argv[j] # ""}

LEMMA PlacesNext ==
    ASSUME NEW V, NEW argv \in Seq(V), NEW n \in 0..(Len(argv) - 1)
    PROVE  LET arg == argv[n + 1]
               awaits == Options(argv)[n]
               after == Options(argv)[n + 1]
               files == FilesTo(argv, n)
               words == WordsTo(argv, n)
           IN  /\ awaits \in BOOLEAN /\ after \in BOOLEAN
               /\ n + 1 \notin files /\ n + 1 \notin words
               /\ awaits =>
                    ~after /\ FilesTo(argv, n + 1) = files \cup {n + 1} /\ WordsTo(argv, n + 1) = words
               /\ ~awaits /\ arg = "-c" =>
                    after /\ FilesTo(argv, n + 1) = files /\ WordsTo(argv, n + 1) = words
               /\ ~awaits /\ arg # "-c" =>
                    ~after /\ FilesTo(argv, n + 1) = files /\ WordsTo(argv, n + 1) = words \cup {n + 1}
<1> DEFINE option == Options(argv)
           awaits == option[n]
           after == option[n + 1]
           N == Len(argv)
<1>1. N \in Nat /\ n \in Nat /\ n + 1 \in 1..N /\ n \in 0..N /\ n + 1 \in 0..N /\ (n + 1) - 1 = n
  OBVIOUS
<1>2. /\ option \in [0..N -> BOOLEAN]
      /\ \A k \in 1..N : option[k] = (argv[k] = "-c" /\ ~option[k - 1])
  BY OptionStates
<1> HIDE DEF option, N
<1>3. awaits \in BOOLEAN /\ after \in BOOLEAN
  BY <1>1, <1>2
<1>4. after <=> argv[n + 1] = "-c" /\ ~awaits
  BY <1>1, <1>2
<1>5. \A i : i \in 1..(n + 1) <=> i \in 1..n \/ i = n + 1
  BY <1>1
<1>6. n + 1 \notin 1..n
  BY <1>1
<1>7. \A i : i \in FilesTo(argv, n + 1) <=> i \in FilesTo(argv, n) \/ (i = n + 1 /\ awaits)
  BY <1>1, <1>5 DEF FilesTo, option
<1>8. \A i : i \in WordsTo(argv, n + 1) <=> i \in WordsTo(argv, n) \/ (i = n + 1 /\ ~awaits /\ ~after)
  BY <1>1, <1>5 DEF WordsTo, option
<1>9. n + 1 \notin FilesTo(argv, n) /\ n + 1 \notin WordsTo(argv, n)
  BY <1>6 DEF FilesTo, WordsTo
<1> HIDE DEF awaits, after
<1>10. ASSUME awaits
       PROVE  ~after /\ FilesTo(argv, n + 1) = FilesTo(argv, n) \cup {n + 1}
              /\ WordsTo(argv, n + 1) = WordsTo(argv, n)
  BY <1>4, <1>7, <1>8, <1>10
<1>11. ASSUME ~awaits, argv[n + 1] = "-c"
       PROVE  after /\ FilesTo(argv, n + 1) = FilesTo(argv, n) /\ WordsTo(argv, n + 1) = WordsTo(argv, n)
  BY <1>4, <1>7, <1>8, <1>11
<1>12. ASSUME ~awaits, argv[n + 1] # "-c"
       PROVE  ~after /\ FilesTo(argv, n + 1) = FilesTo(argv, n)
              /\ WordsTo(argv, n + 1) = WordsTo(argv, n) \cup {n + 1}
  BY <1>4, <1>7, <1>8, <1>12
<1> QED
  BY <1>3, <1>9, <1>10, <1>11, <1>12 DEF awaits, after, option

LEMMA NamedNext ==
    ASSUME NEW argv, NEW n \in Nat
    PROVE  LET named == NamedTo(argv, n)
           IN  /\ named \in SUBSET (1..n)
               /\ WordsTo(argv, n + 1) = WordsTo(argv, n) => NamedTo(argv, n + 1) = named
               /\ WordsTo(argv, n + 1) = WordsTo(argv, n) \cup {n + 1} =>
                    NamedTo(argv, n + 1) = IF named # {} \/ argv[n + 1] # "" THEN named \cup {n + 1} ELSE {}
<1> DEFINE words == WordsTo(argv, n)
           named == NamedTo(argv, n)
<1>1. words \in SUBSET (1..n)
  BY DEF WordsTo
<1>2. \A i : i \in named <=> i \in words /\ \E j \in words : j <= i /\ argv[j] # ""
  BY DEF NamedTo
<1>3. named \in SUBSET (1..n)
  BY <1>1, <1>2
<1>4. ASSUME WordsTo(argv, n + 1) = words PROVE NamedTo(argv, n + 1) = named
  BY <1>4 DEF NamedTo
<1>5. ASSUME WordsTo(argv, n + 1) = words \cup {n + 1}
      PROVE  NamedTo(argv, n + 1) = IF named # {} \/ argv[n + 1] # "" THEN named \cup {n + 1} ELSE {}
  <2> DEFINE more == WordsTo(argv, n + 1)
  <2>1. \A i : i \in NamedTo(argv, n + 1) <=> i \in more /\ \E j \in more : j <= i /\ argv[j] # ""
    BY DEF NamedTo
  <2>2. n + 1 <= n + 1 /\ \A i \in words : i <= i /\ i <= n + 1 /\ ~(n + 1 <= i)
    BY <1>1
  <2>3. more = words \cup {n + 1}
    BY <1>5
  <2> HIDE DEF words, named, more
  <2>4. \A i \in words : i \in NamedTo(argv, n + 1) <=> i \in named
    BY <1>2, <2>1, <2>2, <2>3
  <2>5. n + 1 \in NamedTo(argv, n + 1) <=> argv[n + 1] # "" \/ \E j \in words : argv[j] # ""
    BY <2>1, <2>2, <2>3
  <2>6. named # {} <=> \E j \in words : argv[j] # ""
    BY <1>2, <2>2
  <2>7. \A i : i \in NamedTo(argv, n + 1) => i \in words \/ i = n + 1
    BY <2>1, <2>3
  <2>8. \A i : i \in named => i \in words
    BY <1>2
  <2> QED
    BY <2>4, <2>5, <2>6, <2>7, <2>8
<1> QED
  BY <1>3, <1>4, <1>5

\* The file of the last option among n arguments.
ConfigTo(argv, n, configPath) ==
    LET files == FilesTo(argv, n)
    IN  IF files = {} THEN configPath = SmsConfigPath
        ELSE \E i \in files : IsLast(i, files) /\ configPath = argv[i]

LEMMA ConfigNext ==
    ASSUME NEW argv, NEW n \in Nat, NEW configPath
    PROVE  /\ FilesTo(argv, n + 1) = FilesTo(argv, n) /\ ConfigTo(argv, n, configPath) =>
                ConfigTo(argv, n + 1, configPath)
           /\ FilesTo(argv, n + 1) = FilesTo(argv, n) \cup {n + 1} => ConfigTo(argv, n + 1, argv[n + 1])
<1>1. ASSUME FilesTo(argv, n + 1) = FilesTo(argv, n), ConfigTo(argv, n, configPath)
      PROVE  ConfigTo(argv, n + 1, configPath)
  BY <1>1 DEF ConfigTo
<1>2. ASSUME FilesTo(argv, n + 1) = FilesTo(argv, n) \cup {n + 1}
      PROVE  ConfigTo(argv, n + 1, argv[n + 1])
  <2> DEFINE more == FilesTo(argv, n + 1)
  <2>1. \A i \in more : i <= n + 1
    BY DEF FilesTo
  <2>2. n + 1 \in more
    BY <1>2
  <2> HIDE DEF more
  <2>3. IsLast(n + 1, more)
    BY <2>1, <2>2 DEF IsLast
  <2> QED
    BY <2>2, <2>3 DEF ConfigTo, more
<1> QED
  BY <1>1, <1>2

\* What sms-send knows behind n arguments.
PhoneTo(argv, n, phoneNo) ==
    LET named == NamedTo(argv, n)
    IN  IF named = {} THEN phoneNo = ""
        ELSE phoneNo # "" /\ \E i \in named : (\A j \in named : i <= j) /\ phoneNo = argv[i]

OutDirTo(argv, n, outDir) ==
    LET named == NamedTo(argv, n)
    IN  /\ outDir = <<>> <=> Cardinality(named) <= 1
        /\ Cardinality(named) = 2 => \E i \in named : IsLast(i, named) /\ outDir = <<argv[i]>>

SentTo(argv, n, st) ==
    /\ st.awaits = Options(argv)[n]
    /\ st.usage <=> Cardinality(NamedTo(argv, n)) > 2
    /\ PhoneTo(argv, n, st.phoneNo)
    /\ OutDirTo(argv, n, st.outDir)
    /\ ConfigTo(argv, n, st.configPath)

\* A word more.
LEMMA WordNext ==
    ASSUME NEW V, NEW st \in Sends(V), NEW argv, NEW n \in Nat, NEW d,
           WordsTo(argv, n + 1) = WordsTo(argv, n) \cup {n + 1}, argv[n + 1] # "-c", ~st.awaits,
           d = SendArgument(st, argv[n + 1]), SentTo(argv, n, st)
    PROVE  /\ d.awaits = st.awaits /\ d.configPath = st.configPath
           /\ d.usage <=> Cardinality(NamedTo(argv, n + 1)) > 2
           /\ PhoneTo(argv, n + 1, d.phoneNo) /\ OutDirTo(argv, n + 1, d.outDir)
<1> DEFINE arg == argv[n + 1]
           named == NamedTo(argv, n)
           more == NamedTo(argv, n + 1)
           count == Cardinality(named)
<1>0. arg # "-c" /\ ~st.awaits /\ d = SendArgument(st, arg) /\ SentTo(argv, n, st)
  OBVIOUS
<1>1. named \in SUBSET (1..n) /\ more = IF named # {} \/ arg # "" THEN named \cup {n + 1} ELSE {}
  BY NamedNext
<1>10. /\ st.phoneNo = "" => d = [st EXCEPT !.phoneNo = arg]
       /\ st.phoneNo # "" /\ st.outDir = <<>> => d = [st EXCEPT !.outDir = <<arg>>]
       /\ st.phoneNo # "" /\ st.outDir # <<>> => d = [st EXCEPT !.usage = TRUE]
  <2> HIDE DEF arg
  <2>1. st.awaits \in BOOLEAN
    BY DEF Sends
  <2> QED
    BY <1>0, <2>1 DEF SendArgument
<1> HIDE DEF arg, named, more
<1>2. n + 1 \notin named /\ \A i \in named : i <= n + 1 /\ i \in Nat
  <2>1. named \in SUBSET (1..n)
    BY <1>1
  <2> QED
    BY <2>1
<1>3. IsFiniteSet(named) /\ count \in Nat /\ (count = 0 <=> named = {})
  <2>1. IsFiniteSet(1..n)
    BY FS_Interval
  <2>2. IsFiniteSet(named)
    BY <1>1, <2>1, FS_Subset
  <2> QED
    BY <2>2, FS_CardinalityType, FS_EmptySet
<1>4. more = named \cup {n + 1} => Cardinality(more) = count + 1 /\ n + 1 \in more /\ IsLast(n + 1, more)
  <2>1. IsFiniteSet(named) /\ n + 1 \notin named
    BY <1>2, <1>3
  <2>2. ASSUME more = named \cup {n + 1} PROVE \A i \in more : i <= n + 1
    BY <1>2, <2>2
  <2>3. Cardinality(named \cup {n + 1}) = Cardinality(named) + 1
    BY <2>1, FS_AddElement
  <2> QED
    BY <2>2, <2>3 DEF IsLast
<1>5. /\ st.usage <=> count > 2
      /\ st.outDir = <<>> <=> count <= 1
      /\ named = {} => st.phoneNo = ""
      /\ named # {} => /\ st.phoneNo # ""
                       /\ \E i \in named : (\A j \in named : i <= j) /\ st.phoneNo = argv[i]
  <2>1. (st.usage <=> count > 2) /\ PhoneTo(argv, n, st.phoneNo) /\ OutDirTo(argv, n, st.outDir)
    BY <1>0 DEF SentTo, named
  <2>2. (st.outDir = <<>> <=> count <= 1)
    BY <2>1 DEF OutDirTo, named
  <2> QED
    BY <2>1, <2>2 DEF PhoneTo, named
<1>6. CASE st.phoneNo = ""
  <2>1. d = [st EXCEPT !.phoneNo = arg]
    BY <1>6, <1>10
  <2>2. /\ d.awaits = st.awaits /\ d.usage = st.usage /\ d.phoneNo = arg /\ d.outDir = st.outDir
        /\ d.configPath = st.configPath
    BY <2>1 DEF Sends
  <2>3. named = {} /\ count = 0
    BY <1>3, <1>5, <1>6
  <2>4. CASE arg = ""
    <3>1. more = {} /\ Cardinality(more) = 0
      BY <1>1, <2>3, <2>4, FS_EmptySet
    <3>2. st.outDir = <<>> /\ ~st.usage
      <4>1. count <= 1 /\ ~(count > 2)
        BY <2>3
      <4> QED
        BY <1>5, <4>1
    <3>3. PhoneTo(argv, n + 1, d.phoneNo)
      BY <2>2, <2>4, <3>1 DEF PhoneTo, more
    <3>4. OutDirTo(argv, n + 1, d.outDir)
      BY <2>2, <3>1, <3>2 DEF OutDirTo, more
    <3> QED
      BY <2>2, <3>1, <3>2, <3>3, <3>4 DEF more
  <2>5. CASE arg # ""
    <3>1. more = {n + 1} /\ Cardinality(more) = 1
      <4>1. more = named \cup {n + 1}
        BY <1>1, <2>5
      <4>2. Cardinality(more) = count + 1
        BY <1>4, <4>1
      <4> QED
        BY <2>3, <4>1, <4>2
    <3>2. st.outDir = <<>> /\ ~st.usage
      <4>1. count <= 1 /\ ~(count > 2)
        BY <2>3
      <4> QED
        BY <1>5, <4>1
    <3>3. PhoneTo(argv, n + 1, d.phoneNo)
      <4>1. n + 1 \in more /\ \A j \in more : n + 1 <= j
        BY <3>1
      <4>2. d.phoneNo = argv[n + 1] /\ d.phoneNo # "" /\ more # {}
        BY <2>2, <2>5, <3>1 DEF arg
      <4> QED
        BY <4>1, <4>2 DEF PhoneTo, more
    <3>4. OutDirTo(argv, n + 1, d.outDir)
      BY <2>2, <3>1, <3>2 DEF OutDirTo, more
    <3> QED
      BY <2>2, <3>1, <3>2, <3>3, <3>4 DEF more
  <2> QED
    BY <2>4, <2>5
<1>7. ASSUME st.phoneNo # ""
      PROVE  /\ named # {} /\ count >= 1 /\ Cardinality(more) = count + 1
             /\ n + 1 \in more /\ IsLast(n + 1, more) /\ PhoneTo(argv, n + 1, st.phoneNo)
  <2>1. named # {} /\ more = named \cup {n + 1}
    BY <1>1, <1>5, <1>7
  <2>2. PICK i \in named : (\A j \in named : i <= j) /\ st.phoneNo = argv[i]
    BY <1>5, <2>1
  <2>3. i \in more /\ \A j \in more : i <= j
    BY <1>2, <2>1, <2>2
  <2>4. PhoneTo(argv, n + 1, st.phoneNo)
    BY <1>7, <2>2, <2>3 DEF PhoneTo, more
  <2> QED
    BY <1>3, <1>4, <2>1, <2>4
<1>8. CASE st.phoneNo # "" /\ st.outDir = <<>>
  <2>1. d = [st EXCEPT !.outDir = <<arg>>]
    BY <1>8, <1>10
  <2>2. /\ d.awaits = st.awaits /\ d.usage = st.usage /\ d.phoneNo = st.phoneNo /\ d.outDir = <<arg>>
        /\ d.configPath = st.configPath
    BY <2>1 DEF Sends
  <2>3. count = 1 /\ Cardinality(more) = 2 /\ ~st.usage
    <3>1. count \in Nat /\ count >= 1 /\ count <= 1 /\ Cardinality(more) = count + 1
      BY <1>3, <1>5, <1>7, <1>8
    <3>2. count = 1
      BY <3>1
    <3>3. ~(count > 2)
      BY <3>2
    <3>4. ~st.usage
      BY <1>5, <3>3
    <3> QED
      BY <3>1, <3>2, <3>4
  <2>4. <<arg>> # <<>>
    OBVIOUS
  <2>5. n + 1 \in more /\ IsLast(n + 1, more)
    BY <1>7, <1>8
  <2>6. OutDirTo(argv, n + 1, d.outDir)
    BY <2>2, <2>3, <2>4, <2>5 DEF OutDirTo, more, arg
  <2>7. d.usage <=> Cardinality(more) > 2
    BY <2>2, <2>3
  <2>8. PhoneTo(argv, n + 1, d.phoneNo)
    BY <1>7, <1>8, <2>2
  <2> QED
    BY <2>2, <2>6, <2>7, <2>8 DEF more
<1>9. CASE st.phoneNo # "" /\ st.outDir # <<>>
  <2>1. d = [st EXCEPT !.usage = TRUE]
    BY <1>9, <1>10
  <2>2. /\ d.awaits = st.awaits /\ d.usage = TRUE /\ d.phoneNo = st.phoneNo /\ d.outDir = st.outDir
        /\ d.configPath = st.configPath
    BY <2>1 DEF Sends
  <2>3. Cardinality(more) > 2 /\ ~(Cardinality(more) <= 1) /\ Cardinality(more) # 2
    <3>1. count \in Nat /\ ~(count <= 1) /\ Cardinality(more) = count + 1
      BY <1>3, <1>5, <1>7, <1>9
    <3> QED
      BY <3>1
  <2>4. OutDirTo(argv, n + 1, d.outDir)
    BY <1>9, <2>2, <2>3 DEF OutDirTo, more
  <2> QED
    BY <1>7, <1>9, <2>2, <2>3, <2>4 DEF more
<1> QED
  BY <1>6, <1>8, <1>9

LEMMA SentNext ==
    ASSUME NEW V, NEW argv \in Seq(V), NEW n \in 0..(Len(argv) - 1), NEW st \in Sends(V), SentTo(argv, n, st)
    PROVE  SentTo(argv, n + 1, SendArgument(st, argv[n + 1]))
<1> DEFINE arg == argv[n + 1]
           d == SendArgument(st, arg)
<1>1. n \in Nat /\ st.awaits = Options(argv)[n] /\ st.awaits \in BOOLEAN
  <2>1. st.awaits \in BOOLEAN
    BY DEF Sends
  <2>2. Len(argv) \in Nat
    OBVIOUS
  <2>3. n \in Nat
    BY <2>2
  <2> QED
    BY <2>1, <2>3 DEF SentTo
<1>2. /\ st.awaits =>
           /\ ~Options(argv)[n + 1] /\ FilesTo(argv, n + 1) = FilesTo(argv, n) \cup {n + 1}
           /\ WordsTo(argv, n + 1) = WordsTo(argv, n)
      /\ ~st.awaits /\ arg = "-c" =>
           /\ Options(argv)[n + 1] /\ FilesTo(argv, n + 1) = FilesTo(argv, n)
           /\ WordsTo(argv, n + 1) = WordsTo(argv, n)
      /\ ~st.awaits /\ arg # "-c" =>
           /\ ~Options(argv)[n + 1] /\ FilesTo(argv, n + 1) = FilesTo(argv, n)
           /\ WordsTo(argv, n + 1) = WordsTo(argv, n) \cup {n + 1}
      /\ Options(argv)[n + 1] \in BOOLEAN
  BY <1>1, PlacesNext
<1>3. ASSUME WordsTo(argv, n + 1) = WordsTo(argv, n), NEW e,
             e.usage = st.usage, e.phoneNo = st.phoneNo, e.outDir = st.outDir
      PROVE  /\ e.usage <=> Cardinality(NamedTo(argv, n + 1)) > 2
             /\ PhoneTo(argv, n + 1, e.phoneNo) /\ OutDirTo(argv, n + 1, e.outDir)
  <2>1. NamedTo(argv, n + 1) = NamedTo(argv, n)
    BY <1>1, <1>3, NamedNext
  <2> QED
    BY <1>3, <2>1 DEF SentTo, PhoneTo, OutDirTo
<1>4. ConfigTo(argv, n, st.configPath)
  BY DEF SentTo
<1>5. CASE st.awaits
  <2>1. d = [st EXCEPT !.awaits = FALSE, !.configPath = arg]
    BY <1>1, <1>5 DEF SendArgument
  <2>2. /\ d.awaits = FALSE /\ d.usage = st.usage /\ d.phoneNo = st.phoneNo /\ d.outDir = st.outDir
        /\ d.configPath = arg
    BY <2>1 DEF Sends
  <2>3. ConfigTo(argv, n + 1, d.configPath)
    BY <1>1, <1>2, <1>5, <2>2, ConfigNext
  <2> HIDE DEF d
  <2>4. SentTo(argv, n + 1, d)
    BY <1>2, <1>3, <1>5, <2>2, <2>3 DEF SentTo
  <2> QED
    BY <2>4 DEF d
<1>6. CASE ~st.awaits /\ arg = "-c"
  <2>1. d = [st EXCEPT !.awaits = TRUE]
    BY <1>1, <1>6 DEF SendArgument
  <2>2. /\ d.awaits = TRUE /\ d.usage = st.usage /\ d.phoneNo = st.phoneNo /\ d.outDir = st.outDir
        /\ d.configPath = st.configPath
    BY <2>1 DEF Sends
  <2>3. ConfigTo(argv, n + 1, d.configPath)
    BY <1>1, <1>2, <1>4, <1>6, <2>2, ConfigNext
  <2> HIDE DEF d
  <2>4. SentTo(argv, n + 1, d)
    BY <1>2, <1>3, <1>6, <2>2, <2>3 DEF SentTo
  <2> QED
    BY <2>4 DEF d
<1>7. CASE ~st.awaits /\ arg # "-c"
  <2> HIDE DEF d
  <2>1. /\ d.awaits = st.awaits /\ d.configPath = st.configPath
        /\ d.usage <=> Cardinality(NamedTo(argv, n + 1)) > 2
        /\ PhoneTo(argv, n + 1, d.phoneNo) /\ OutDirTo(argv, n + 1, d.outDir)
    BY <1>1, <1>2, <1>7, WordNext DEF d
  <2>2. ConfigTo(argv, n + 1, d.configPath)
    BY <1>1, <1>2, <1>4, <1>7, <2>1, ConfigNext
  <2>3. SentTo(argv, n + 1, d)
    BY <1>1, <1>2, <1>7, <2>1, <2>2 DEF SentTo
  <2> QED
    BY <2>3 DEF d
<1> QED
  BY <1>1, <1>5, <1>6, <1>7

LEMMA ArgumentsSent ==
    ASSUME NEW V, NEW argv \in Seq(V)
    PROVE  SentTo(argv, Len(argv), SendArguments(argv)[Len(argv)])
<1> DEFINE N == Len(argv)
           done == SendArguments(argv)
           T == {n \in 0..N : SentTo(argv, n, done[n])}
<1>0. N \in Nat /\ \A n \in 1..N : n - 1 \in 0..(N - 1) /\ n - 1 \in 0..N /\ n \in 0..N /\ (n - 1) + 1 = n
  OBVIOUS
<1>1. /\ done \in [0..N -> Sends(V)] /\ done[0] = SendStart
      /\ \A k \in 1..N : done[k] = SendArgument(done[k - 1], argv[k])
  BY SendStates
<1> HIDE DEF done
<1>2. SentTo(argv, 0, SendStart)
  <2>1. FilesTo(argv, 0) = {} /\ WordsTo(argv, 0) = {}
    BY DEF FilesTo, WordsTo
  <2>2. NamedTo(argv, 0) = {} /\ Cardinality(NamedTo(argv, 0)) = 0
    BY <2>1, FS_EmptySet DEF NamedTo
  <2>3. Options(argv)[0] = FALSE
    BY OptionStates
  <2>4. ConfigTo(argv, 0, SendStart.configPath)
    BY <2>1 DEF ConfigTo, SendStart
  <2>5. PhoneTo(argv, 0, SendStart.phoneNo) /\ OutDirTo(argv, 0, SendStart.outDir)
    BY <2>2 DEF PhoneTo, OutDirTo, SendStart
  <2>6. SendStart.awaits = FALSE /\ SendStart.usage = FALSE
    BY DEF SendStart
  <2>7. ~(Cardinality(NamedTo(argv, 0)) > 2)
    BY <2>2
  <2> QED
    BY <2>3, <2>4, <2>5, <2>6, <2>7 DEF SentTo
<1>3. 0 \in T
  BY <1>0, <1>1, <1>2
<1>4. ASSUME NEW k \in 1..N, k - 1 \in T PROVE k \in T
  <2>1. k - 1 \in 0..(N - 1) /\ k - 1 \in 0..N /\ k \in 0..N /\ (k - 1) + 1 = k
    BY <1>0
  <2>2. done[k - 1] \in Sends(V) /\ SentTo(argv, k - 1, done[k - 1])
    BY <1>1, <1>4, <2>1
  <2>3. SentTo(argv, (k - 1) + 1, SendArgument(done[k - 1], argv[(k - 1) + 1]))
    BY <2>1, <2>2, SentNext
  <2>4. SentTo(argv, k, done[k])
    BY <1>1, <2>1, <2>3
  <2> QED
    BY <2>1, <2>4
<1> HIDE DEF T
<1>5. \A k \in 0..N : k \in T
  BY <1>0, <1>3, <1>4, UpTo
<1>6. N \in T
  BY <1>0, <1>5
<1> QED
  BY <1>6 DEF T, done

\* The same for the daemon.
Daemons(V) == [awaits : BOOLEAN, unknown : BOOLEAN, isdaemon : BOOLEAN, configPath : V \cup {SmsConfigPath}]

LEMMA DaemonStays ==
    ASSUME NEW V, NEW st \in Daemons(V), NEW arg \in V
    PROVE  DaemonArgument(st, arg) \in Daemons(V)
<1> DEFINE d == DaemonArgument(st, arg)
<1>0. st.awaits \in BOOLEAN /\ st.unknown \in BOOLEAN
  BY DEF Daemons
<1>1. CASE st.unknown
  <2>1. d = st
    BY <1>0, <1>1 DEF DaemonArgument
  <2> QED
    BY <2>1
<1>2. CASE ~st.unknown /\ st.awaits
  <2>1. d = [st EXCEPT !.awaits = FALSE, !.configPath = arg]
    BY <1>0, <1>2 DEF DaemonArgument
  <2> QED
    BY <2>1 DEF Daemons
<1>3. CASE ~st.unknown /\ ~st.awaits /\ arg = "-c"
  <2>1. d = [st EXCEPT !.awaits = TRUE]
    BY <1>0, <1>3 DEF DaemonArgument
  <2> QED
    BY <2>1 DEF Daemons
<1>4. CASE ~st.unknown /\ ~st.awaits /\ arg = "--daemon"
  <2>1. d = [st EXCEPT !.isdaemon = TRUE]
    BY <1>0, <1>4 DEF DaemonArgument
  <2> QED
    BY <2>1 DEF Daemons
<1>5. CASE ~st.unknown /\ ~st.awaits /\ arg # "-c" /\ arg # "--daemon"
  <2>1. d = [st EXCEPT !.unknown = TRUE]
    BY <1>0, <1>5 DEF DaemonArgument
  <2> QED
    BY <2>1 DEF Daemons
<1> QED
  BY <1>0, <1>1, <1>2, <1>3, <1>4, <1>5

LEMMA DaemonStates ==
    ASSUME NEW V, NEW argv \in Seq(V)
    PROVE  /\ DaemonArguments(argv) \in [0..Len(argv) -> Daemons(V)] /\ DaemonArguments(argv)[0] = DaemonStart
           /\ \A k \in 1..Len(argv) : DaemonArguments(argv)[k] = DaemonArgument(DaemonArguments(argv)[k - 1], argv[k])
<1> DEFINE N == Len(argv)
           step == [k \in 1..N |-> [s \in Daemons(V) |-> DaemonArgument(s, argv[k])]]
           P(f) == f = [k \in 0..N |-> IF k = 0 THEN DaemonStart ELSE DaemonArgument(f[k - 1], argv[k])]
           done == DaemonArguments(argv)
<1>1. N \in Nat /\ \A k \in 1..N : argv[k] \in V
  OBVIOUS
<1>2. DaemonStart \in Daemons(V)
  BY DEF DaemonStart, Daemons
<1>3. \A k \in 1..N : \A s \in Daemons(V) : step[k][s] = DaemonArgument(s, argv[k]) /\ step[k][s] \in Daemons(V)
  BY <1>1, DaemonStays
<1> HIDE DEF N, step
<1>4. PICK f : IsLoop(f, N, Daemons(V), DaemonStart, step)
  BY <1>1, <1>2, <1>3, LoopStates
<1>5. f \in [0..N -> Daemons(V)] /\ f[0] = DaemonStart /\ \A k \in 1..N : f[k] = step[k][f[k - 1]]
  BY <1>4 DEF IsLoop
<1>6. \A k \in 1..N : k - 1 \in 0..N /\ f[k] = DaemonArgument(f[k - 1], argv[k])
  <2> TAKE k \in 1..N
  <2>1. k - 1 \in 0..N
    BY <1>1
  <2>2. f[k - 1] \in Daemons(V)
    BY <1>5, <2>1
  <2> QED
    BY <1>3, <1>5, <2>1, <2>2
<1>7. P(f)
  <2>1. f = [k \in 0..N |-> f[k]]
    BY <1>5
  <2>2. \A k \in 0..N : f[k] = IF k = 0 THEN DaemonStart ELSE DaemonArgument(f[k - 1], argv[k])
    <3> TAKE k \in 0..N
    <3>1. k = 0 \/ k \in 1..N
      BY <1>1
    <3> QED
      BY <1>5, <1>6, <3>1
  <2> QED
    BY <2>1, <2>2
<1>8. done = CHOOSE g : P(g)
  BY DEF DaemonArguments, N
<1>9. P(done)
  <2> HIDE DEF P, done
  <2> QED
    BY <1>7, <1>8
<1>10. done[0] = DaemonStart /\ \A k \in 1..N : done[k] = DaemonArgument(done[k - 1], argv[k])
  <2> HIDE DEF done
  <2>1. done = [k \in 0..N |-> IF k = 0 THEN DaemonStart ELSE DaemonArgument(done[k - 1], argv[k])]
    BY <1>9
  <2> QED
    BY <1>1, <2>1
<1>11. \A k \in 0..N : done[k] \in Daemons(V)
  <2> DEFINE T == {k \in 0..N : done[k] \in Daemons(V)}
  <2>1. 0 \in T
    BY <1>1, <1>2, <1>10
  <2>2. \A k \in 1..N : k - 1 \in T => k \in T
    <3> TAKE k \in 1..N
    <3> HAVE k - 1 \in T
    <3>1. done[k - 1] \in Daemons(V) /\ argv[k] \in V /\ k \in 0..N
      BY <1>1
    <3>2. done[k] \in Daemons(V)
      BY <1>10, <3>1, DaemonStays
    <3> QED
      BY <3>1, <3>2
  <2> HIDE DEF T
  <2>3. \A k \in 0..N : k \in T
    BY <1>1, <2>1, <2>2, UpTo
  <2> QED
    BY <2>3 DEF T
<1>12. done \in [0..N -> Daemons(V)]
  <2>1. done = [k \in 0..N |-> IF k = 0 THEN DaemonStart ELSE DaemonArgument(done[k - 1], argv[k])]
    BY <1>9
  <2>2. done = [k \in 0..N |-> done[k]]
    BY <2>1
  <2> QED
    BY <1>11, <2>2
<1> QED
  BY <1>10, <1>12 DEF N

DaemonTo(argv, n, st) ==
    /\ st.unknown <=> \E i \in WordsTo(argv, n) : argv[i] # "--daemon"
    /\ ~st.unknown => /\ st.awaits = Options(argv)[n]
                      /\ st.isdaemon <=> WordsTo(argv, n) # {}
                      /\ ConfigTo(argv, n, st.configPath)

LEMMA DaemonNext ==
    ASSUME NEW V, NEW argv \in Seq(V), NEW n \in 0..(Len(argv) - 1), NEW st \in Daemons(V),
           DaemonTo(argv, n, st)
    PROVE  DaemonTo(argv, n + 1, DaemonArgument(st, argv[n + 1]))
<1> DEFINE arg == argv[n + 1]
           d == DaemonArgument(st, arg)
           words == WordsTo(argv, n)
           more == WordsTo(argv, n + 1)
           after == Options(argv)[n + 1]
<1>0. st.awaits \in BOOLEAN /\ st.unknown \in BOOLEAN /\ st.isdaemon \in BOOLEAN /\ n \in Nat
  <2>1. Len(argv) \in Nat
    OBVIOUS
  <2>2. n \in Nat
    BY <2>1
  <2> QED
    BY <2>2 DEF Daemons
<1>1. /\ st.unknown <=> \E i \in words : argv[i] # "--daemon"
      /\ ~st.unknown => /\ st.awaits = Options(argv)[n]
                        /\ st.isdaemon <=> words # {}
                        /\ ConfigTo(argv, n, st.configPath)
  BY DEF DaemonTo
<1>2. \/ more = words
      \/ more = words \cup {n + 1}
  BY PlacesNext
<1>3. ASSUME ~st.unknown
      PROVE  /\ st.awaits =>
                  ~after /\ FilesTo(argv, n + 1) = FilesTo(argv, n) \cup {n + 1} /\ more = words
             /\ ~st.awaits /\ arg = "-c" =>
                  after /\ FilesTo(argv, n + 1) = FilesTo(argv, n) /\ more = words
             /\ ~st.awaits /\ arg # "-c" =>
                  ~after /\ FilesTo(argv, n + 1) = FilesTo(argv, n) /\ more = words \cup {n + 1}
             /\ after \in BOOLEAN
  <2>1. st.awaits = Options(argv)[n]
    BY <1>1, <1>3
  <2> QED
    BY <2>1, PlacesNext
<1> HIDE DEF words, more, after, arg
<1>4. CASE st.unknown
  <2>1. d = st
    BY <1>0, <1>4 DEF DaemonArgument
  <2>2. \E i \in more : argv[i] # "--daemon"
    BY <1>1, <1>2, <1>4
  <2>3. DaemonTo(argv, n + 1, st)
    BY <1>4, <2>2 DEF DaemonTo, more
  <2> QED
    BY <2>1, <2>3 DEF arg
<1>5. CASE ~st.unknown /\ st.awaits
  <2>1. d = [st EXCEPT !.awaits = FALSE, !.configPath = arg]
    BY <1>0, <1>5 DEF DaemonArgument
  <2>2. d.awaits = FALSE /\ d.unknown = st.unknown /\ d.isdaemon = st.isdaemon /\ d.configPath = arg
    BY <2>1 DEF Daemons
  <2>3. more = words /\ after = FALSE /\ FilesTo(argv, n + 1) = FilesTo(argv, n) \cup {n + 1}
    BY <1>3, <1>5
  <2>4. ConfigTo(argv, n + 1, d.configPath)
    BY <1>0, <2>2, <2>3, ConfigNext DEF arg
  <2> HIDE DEF d
  <2>5. DaemonTo(argv, n + 1, d)
    BY <1>1, <1>5, <2>2, <2>3, <2>4 DEF DaemonTo, more, after
  <2> QED
    BY <2>5 DEF d, arg
<1>6. CASE ~st.unknown /\ ~st.awaits /\ arg = "-c"
  <2>1. d = [st EXCEPT !.awaits = TRUE]
    BY <1>0, <1>6 DEF DaemonArgument
  <2>2. d.awaits = TRUE /\ d.unknown = st.unknown /\ d.isdaemon = st.isdaemon /\ d.configPath = st.configPath
    BY <2>1 DEF Daemons
  <2>3. more = words /\ after = TRUE /\ FilesTo(argv, n + 1) = FilesTo(argv, n)
    BY <1>3, <1>6
  <2>4. ConfigTo(argv, n + 1, d.configPath)
    BY <1>0, <1>1, <1>6, <2>2, <2>3, ConfigNext
  <2> HIDE DEF d
  <2>5. DaemonTo(argv, n + 1, d)
    BY <1>1, <1>6, <2>2, <2>3, <2>4 DEF DaemonTo, more, after
  <2> QED
    BY <2>5 DEF d, arg
<1>7. CASE ~st.unknown /\ ~st.awaits /\ arg = "--daemon"
  <2>1. d = [st EXCEPT !.isdaemon = TRUE]
    BY <1>0, <1>7 DEF DaemonArgument
  <2>2. d.awaits = FALSE /\ d.unknown = st.unknown /\ d.isdaemon = TRUE /\ d.configPath = st.configPath
    BY <1>0, <1>7, <2>1 DEF Daemons
  <2>3. more = words \cup {n + 1} /\ after = FALSE /\ FilesTo(argv, n + 1) = FilesTo(argv, n)
    <3>1. arg # "-c"
      BY <1>7
    <3> QED
      BY <1>3, <1>7, <3>1
  <2>4. ConfigTo(argv, n + 1, d.configPath)
    BY <1>0, <1>1, <1>7, <2>2, <2>3, ConfigNext
  <2>5. ~ \E i \in more : argv[i] # "--daemon"
    BY <1>1, <1>7, <2>3 DEF arg
  <2>6. more # {}
    BY <2>3
  <2> HIDE DEF d
  <2>7. DaemonTo(argv, n + 1, d)
    BY <1>7, <2>2, <2>3, <2>4, <2>5, <2>6 DEF DaemonTo, more, after
  <2> QED
    BY <2>7 DEF d, arg
<1>8. CASE ~st.unknown /\ ~st.awaits /\ arg # "-c" /\ arg # "--daemon"
  <2>1. d = [st EXCEPT !.unknown = TRUE]
    BY <1>0, <1>8 DEF DaemonArgument
  <2>2. d.unknown = TRUE
    BY <2>1 DEF Daemons
  <2>3. more = words \cup {n + 1}
    BY <1>3, <1>8
  <2>4. \E i \in more : argv[i] # "--daemon"
    BY <1>8, <2>3 DEF arg
  <2> HIDE DEF d
  <2>5. DaemonTo(argv, n + 1, d)
    BY <2>2, <2>4 DEF DaemonTo, more
  <2> QED
    BY <2>5 DEF d, arg
<1> QED
  BY <1>0, <1>4, <1>5, <1>6, <1>7, <1>8

LEMMA DaemonSent ==
    ASSUME NEW V, NEW argv \in Seq(V)
    PROVE  DaemonTo(argv, Len(argv), DaemonArguments(argv)[Len(argv)])
<1> DEFINE N == Len(argv)
           done == DaemonArguments(argv)
           T == {n \in 0..N : DaemonTo(argv, n, done[n])}
<1>0. N \in Nat /\ \A n \in 1..N : n - 1 \in 0..(N - 1) /\ n - 1 \in 0..N /\ n \in 0..N /\ (n - 1) + 1 = n
  OBVIOUS
<1>1. /\ done \in [0..N -> Daemons(V)] /\ done[0] = DaemonStart
      /\ \A k \in 1..N : done[k] = DaemonArgument(done[k - 1], argv[k])
  BY DaemonStates
<1> HIDE DEF done
<1>2. DaemonTo(argv, 0, DaemonStart)
  <2>1. FilesTo(argv, 0) = {} /\ WordsTo(argv, 0) = {}
    BY DEF FilesTo, WordsTo
  <2>2. Options(argv)[0] = FALSE
    BY OptionStates
  <2>3. ConfigTo(argv, 0, DaemonStart.configPath)
    BY <2>1 DEF ConfigTo, DaemonStart
  <2>4. DaemonStart.awaits = FALSE /\ DaemonStart.unknown = FALSE /\ DaemonStart.isdaemon = FALSE
    BY DEF DaemonStart
  <2> QED
    BY <2>1, <2>2, <2>3, <2>4 DEF DaemonTo
<1>3. 0 \in T
  BY <1>0, <1>1, <1>2
<1>4. ASSUME NEW k \in 1..N, k - 1 \in T PROVE k \in T
  <2>1. k - 1 \in 0..(N - 1) /\ k - 1 \in 0..N /\ k \in 0..N /\ (k - 1) + 1 = k
    BY <1>0
  <2>2. done[k - 1] \in Daemons(V) /\ DaemonTo(argv, k - 1, done[k - 1])
    BY <1>1, <1>4, <2>1
  <2>3. DaemonTo(argv, (k - 1) + 1, DaemonArgument(done[k - 1], argv[(k - 1) + 1]))
    BY <2>1, <2>2, DaemonNext
  <2>4. DaemonTo(argv, k, done[k])
    BY <1>1, <2>1, <2>3
  <2> QED
    BY <2>1, <2>4
<1> HIDE DEF T
<1>5. \A k \in 0..N : k \in T
  BY <1>0, <1>3, <1>4, UpTo
<1>6. N \in T
  BY <1>0, <1>5
<1> QED
  BY <1>6 DEF T, done

LEMMA ConfigIs ==
    ASSUME NEW argv, NEW n \in Nat, NEW configPath, ConfigTo(argv, n, configPath)
    PROVE  configPath = IF FilesTo(argv, n) = {} THEN SmsConfigPath ELSE argv[Max(FilesTo(argv, n))]
<1>1. FilesTo(argv, n) \in SUBSET Nat
  BY DEF FilesTo
<1>2. CASE FilesTo(argv, n) = {}
  BY <1>2 DEF ConfigTo
<1>3. CASE FilesTo(argv, n) # {}
  <2>1. PICK i \in FilesTo(argv, n) : IsLast(i, FilesTo(argv, n)) /\ configPath = argv[i]
    BY <1>3 DEF ConfigTo
  <2>2. Max(FilesTo(argv, n)) = i
    BY <1>1, <2>1, LastIsMax
  <2> QED
    BY <1>3, <2>1, <2>2
<1> QED
  BY <1>2, <1>3

LEMMA ArgumentsUnderstood ==
    ASSUME NEW V, NEW argv \in Seq(V)
    PROVE  ArgumentsAreUnderstood(argv)
<1> DEFINE N == Len(argv)
           option == Options(argv)
           files == FilesTo(argv, N)
           words == WordsTo(argv, N)
           named == NamedTo(argv, N)
           config == IF files = {} THEN SmsConfigPath ELSE argv[Max(files)]
           cut == option[N]
           asked == SendArguments(argv)[N]
           started == DaemonArguments(argv)[N]
           send == SmsSend(argv)
           daemon == SmsDaemon(argv)
<1>0. N \in Nat /\ DOMAIN argv = 1..N /\ N \in 0..N
  OBVIOUS
<1>1. /\ files = {i \in DOMAIN argv : option[i - 1]}
      /\ words = {i \in DOMAIN argv : ~option[i] /\ ~option[i - 1]}
      /\ named = {i \in words : \E j \in words : j <= i /\ argv[j] # ""}
  BY <1>0 DEF FilesTo, WordsTo, NamedTo
<1>2. cut \in BOOLEAN /\ asked \in Sends(V) /\ started \in Daemons(V)
  <2>1. cut \in BOOLEAN
    BY <1>0, OptionStates
  <2>2. asked \in Sends(V)
    BY <1>0, SendStates
  <2>3. started \in Daemons(V)
    BY <1>0, DaemonStates
  <2> QED
    BY <2>1, <2>2, <2>3
<1>3. SentTo(argv, N, asked) /\ DaemonTo(argv, N, started)
  BY ArgumentsSent, DaemonSent
<1>4. /\ asked.awaits \in BOOLEAN /\ asked.usage \in BOOLEAN
      /\ started.awaits \in BOOLEAN /\ started.unknown \in BOOLEAN /\ started.isdaemon \in BOOLEAN
  BY <1>2 DEF Sends, Daemons
<1>5. named \in SUBSET (1..N) /\ IsFiniteSet(named) /\ Cardinality(named) \in Nat
      /\ (Cardinality(named) = 0 <=> named = {})
  <2>1. named \in SUBSET (1..N)
    BY <1>0, NamedNext
  <2>2. IsFiniteSet(1..N)
    BY <1>0, FS_Interval
  <2> HIDE DEF named
  <2>3. IsFiniteSet(named)
    BY <2>1, <2>2, FS_Subset
  <2> QED
    BY <2>1, <2>3, FS_CardinalityType, FS_EmptySet
<1>6. /\ asked.awaits = cut /\ (asked.usage <=> Cardinality(named) > 2)
      /\ PhoneTo(argv, N, asked.phoneNo) /\ OutDirTo(argv, N, asked.outDir)
      /\ ConfigTo(argv, N, asked.configPath)
  BY <1>3 DEF SentTo
<1>7. send = IF asked.awaits \/ asked.usage \/ asked.phoneNo = "" THEN Failed
             ELSE [exit |-> FALSE, job |-> JobOf(asked.phoneNo), phoneNo |-> asked.phoneNo,
                   outDir |-> asked.outDir, configPath |-> asked.configPath]
  BY DEF SmsSend
<1>8. daemon = IF started.awaits \/ started.unknown THEN Failed
               ELSE [exit |-> FALSE, isdaemon |-> started.isdaemon, configPath |-> started.configPath]
  BY DEF SmsDaemon
<1>9. Failed.exit = TRUE
  BY DEF Failed
<1> HIDE DEF N, option, cut, asked, started, send, daemon
<1>10. asked.phoneNo = "" <=> named = {}
  BY <1>6 DEF PhoneTo
<1>11. send.exit = (cut \/ Cardinality(named) \notin 1..2)
  <2>1. send.exit = (asked.awaits \/ asked.usage \/ asked.phoneNo = "")
    BY <1>4, <1>7, <1>9
  <2> HIDE DEF named
  <2>2. (Cardinality(named) > 2 \/ named = {}) <=> Cardinality(named) \notin 1..2
    BY <1>5
  <2>3. (asked.awaits \/ asked.usage \/ asked.phoneNo = "") <=> (cut \/ Cardinality(named) \notin 1..2)
    BY <1>2, <1>4, <1>6, <1>10, <2>2
  <2> QED
    BY <2>1, <2>3
<1>12. ASSUME ~send.exit
       PROVE  /\ send.phoneNo = argv[Min(named)] /\ send.configPath = config
              /\ send.outDir = IF Cardinality(named) = 1 THEN <<>> ELSE <<argv[Max(named)]>>
  <2>1. send.phoneNo = asked.phoneNo /\ send.outDir = asked.outDir /\ send.configPath = asked.configPath
    BY <1>7, <1>9, <1>12
  <2>2. ~(cut \/ Cardinality(named) \notin 1..2)
    BY <1>11, <1>12
  <2>3. Cardinality(named) = 1 \/ Cardinality(named) = 2
    BY <2>2
  <2>4. named # {} /\ named \in SUBSET Nat
    <3>1. named # {}
      BY <1>5, <2>3
    <3> QED
      BY <1>5, <3>1
  <2>5. asked.phoneNo = argv[Min(named)]
    <3>1. PICK i \in named : (\A j \in named : i <= j) /\ asked.phoneNo = argv[i]
      BY <1>6, <2>4 DEF PhoneTo
    <3> HIDE DEF named
    <3>2. Min(named) = i
      BY <2>4, <3>1, LeastIsMin
    <3> QED
      BY <3>1, <3>2
  <2>6. asked.outDir = IF Cardinality(named) = 1 THEN <<>> ELSE <<argv[Max(named)]>>
    <3>1. CASE Cardinality(named) = 1
      <4>1. Cardinality(named) <= 1
        BY <3>1
      <4>2. asked.outDir = <<>>
        BY <1>6, <4>1 DEF OutDirTo
      <4> QED
        BY <3>1, <4>2
    <3>2. CASE Cardinality(named) = 2
      <4>1. PICK i \in named : IsLast(i, named) /\ asked.outDir = <<argv[i]>>
        BY <1>6, <3>2 DEF OutDirTo
      <4>2. Cardinality(named) # 1
        BY <3>2
      <4> HIDE DEF named
      <4>3. Max(named) = i
        BY <2>4, <4>1, LastIsMax
      <4> QED
        BY <4>1, <4>2, <4>3
    <3> QED
      BY <2>3, <3>1, <3>2
  <2>7. asked.configPath = config
    BY <1>0, <1>6, ConfigIs
  <2> QED
    BY <2>1, <2>5, <2>6, <2>7
<1>13. /\ started.unknown <=> \E i \in words : argv[i] # "--daemon"
       /\ ~started.unknown => /\ started.awaits = cut
                              /\ started.isdaemon <=> words # {}
                              /\ ConfigTo(argv, N, started.configPath)
  BY <1>3 DEF DaemonTo, cut, option
<1>14. daemon.exit = (started.awaits \/ started.unknown)
  BY <1>4, <1>8, <1>9
<1>15. daemon.exit = (cut \/ \E i \in words : argv[i] # "--daemon")
  <2> HIDE DEF words
  <2>1. (started.awaits \/ started.unknown) <=> (cut \/ \E i \in words : argv[i] # "--daemon")
    BY <1>2, <1>4, <1>13
  <2> QED
    BY <1>14, <2>1
<1>16. ASSUME ~daemon.exit PROVE daemon.configPath = config /\ daemon.isdaemon = (words # {})
  <2>1. ~started.awaits /\ ~started.unknown
    BY <1>14, <1>16
  <2>2. daemon.isdaemon = started.isdaemon /\ daemon.configPath = started.configPath
    BY <1>8, <2>1
  <2>3. started.configPath = config
    BY <1>0, <1>13, <2>1, ConfigIs
  <2>4. started.isdaemon = (words # {})
    BY <1>4, <1>13, <2>1
  <2> QED
    BY <2>2, <2>3, <2>4
<1> QED
  BY <1>1, <1>11, <1>12, <1>15, <1>16 DEF ArgumentsAreUnderstood, N, option, cut, send, daemon

-----------------------------------------------------------------------------
(* The answers of the modem.                                               *)

Readings == [best : Seq(Nat), current : Seq(Nat)]

LEMMA BetterStays ==
    ASSUME NEW st \in Readings
    PROVE  Better(st) \in Seq(Nat)
  BY DEF Better, Readings

LEMMA SymbolStays ==
    ASSUME NEW st \in Readings, NEW symbol, NEW k \in Nat
    PROVE  LogSymbol(st, symbol, k) \in Readings
<1>1. CASE symbol = "digit"
  <2>1. LogSymbol(st, symbol, k) = [st EXCEPT !.current = Append(@, k)]
    BY <1>1 DEF LogSymbol
  <2>2. Append(st.current, k) \in Seq(Nat)
    BY DEF Readings
  <2> QED
    BY <2>1, <2>2 DEF Readings
<1>2. CASE symbol # "digit"
  <2>1. LogSymbol(st, symbol, k) = [best |-> Better(st), current |-> <<>>]
    BY <1>2 DEF LogSymbol
  <2> QED
    BY <2>1, BetterStays DEF Readings
<1> QED
  BY <1>1, <1>2

LEMMA LogStates ==
    ASSUME NEW V, NEW log \in Seq(V)
    PROVE  LET done == ReadLog(log)
           IN  /\ done \in [0..Len(log) -> Readings] /\ done[0] = [best |-> <<>>, current |-> <<>>]
               /\ \A k \in 1..Len(log) : done[k] = LogSymbol(done[k - 1], log[k], k)
<1> DEFINE N == Len(log)
           start == [best |-> <<>>, current |-> <<>>]
           step == [k \in 1..N |-> [s \in Readings |-> LogSymbol(s, log[k], k)]]
           P(f) == f = [k \in 0..N |-> IF k = 0 THEN start ELSE LogSymbol(f[k - 1], log[k], k)]
           done == ReadLog(log)
<1>1. N \in Nat
  OBVIOUS
<1>2. start \in Readings
  BY DEF Readings
<1>3. \A k \in 1..N : \A s \in Readings : step[k][s] = LogSymbol(s, log[k], k) /\ step[k][s] \in Readings
  BY SymbolStays
<1> HIDE DEF N, step, start
<1>4. PICK f : IsLoop(f, N, Readings, start, step)
  BY <1>1, <1>2, <1>3, LoopStates
<1>5. f \in [0..N -> Readings] /\ f[0] = start /\ \A k \in 1..N : f[k] = step[k][f[k - 1]]
  BY <1>4 DEF IsLoop
<1>6. \A k \in 1..N : k - 1 \in 0..N /\ f[k] = LogSymbol(f[k - 1], log[k], k)
  <2> TAKE k \in 1..N
  <2>1. k - 1 \in 0..N
    BY <1>1
  <2>2. f[k - 1] \in Readings
    BY <1>5, <2>1
  <2> QED
    BY <1>3, <1>5, <2>1, <2>2
<1>7. P(f)
  <2>1. f = [k \in 0..N |-> f[k]]
    BY <1>5
  <2>2. \A k \in 0..N : f[k] = IF k = 0 THEN start ELSE LogSymbol(f[k - 1], log[k], k)
    <3> TAKE k \in 0..N
    <3>1. k = 0 \/ k \in 1..N
      BY <1>1
    <3> QED
      BY <1>5, <1>6, <3>1
  <2> QED
    BY <2>1, <2>2
<1>8. done = CHOOSE g : P(g)
  BY DEF ReadLog, N, start
<1>9. P(done)
  <2> HIDE DEF P, done
  <2> QED
    BY <1>7, <1>8
<1>10. done[0] = start /\ \A k \in 1..N : done[k] = LogSymbol(done[k - 1], log[k], k)
  <2> HIDE DEF done
  <2>1. done = [k \in 0..N |-> IF k = 0 THEN start ELSE LogSymbol(done[k - 1], log[k], k)]
    BY <1>9
  <2> QED
    BY <1>1, <2>1
<1>11. \A k \in 0..N : done[k] \in Readings
  <2> DEFINE T == {k \in 0..N : done[k] \in Readings}
  <2>1. 0 \in T
    BY <1>1, <1>2, <1>10
  <2>2. \A k \in 1..N : k - 1 \in T => k \in T
    <3> TAKE k \in 1..N
    <3> HAVE k - 1 \in T
    <3>1. done[k - 1] \in Readings /\ k \in Nat /\ k \in 0..N
      BY <1>1
    <3>2. done[k] \in Readings
      BY <1>10, <3>1, SymbolStays
    <3> QED
      BY <3>1, <3>2
  <2> HIDE DEF T
  <2>3. \A k \in 0..N : k \in T
    BY <1>1, <2>1, <2>2, UpTo
  <2> QED
    BY <2>3 DEF T
<1>12. done \in [0..N -> Readings]
  <2>1. done = [k \in 0..N |-> IF k = 0 THEN start ELSE LogSymbol(done[k - 1], log[k], k)]
    BY <1>9
  <2>2. done = [k \in 0..N |-> done[k]]
    BY <2>1
  <2> QED
    BY <1>11, <2>2
<1> QED
  BY <1>10, <1>12 DEF N, start

\* The runs that end at place m or before.
RunsTo(log, m) == {run \in Runs(log) : run[2] <= m}

\* The places from a to b.
PlacesFrom(a, b) == [i \in 1..(b - a + 1) |-> a + i - 1]

\* best is the first of the longest among these runs.
BestOf(best, runs) ==
    IF runs = {} THEN best = <<>>
    ELSE \E r \in runs : BestRun(r, runs) /\ best = PlacesFrom(r[1], r[2])

\* Behind n symbols, of which the last c are digits, and the one before them is none.
LogTo(log, n, c, st) ==
    /\ c \in 0..n /\ st.current = PlacesFrom(n - c + 1, n)
    /\ \A i \in (n - c + 1)..n : log[i] = "digit"
    /\ n - c > 0 => log[n - c] # "digit"
    /\ BestOf(st.best, RunsTo(log, n - c))

\* The only run that can end behind place a, and up to b, is the one from a + 1 to b.
LEMMA RunsGrow ==
    ASSUME NEW V, NEW log \in Seq(V), NEW b \in 0..Len(log), NEW c \in 0..b,
           \A i \in (b - c + 1)..b : log[i] = "digit",
           b - c > 0 => log[b - c] # "digit",
           b < Len(log) => log[b + 1] # "digit"
    PROVE  RunsTo(log, b) = IF c = 0 THEN RunsTo(log, b - c) ELSE RunsTo(log, b - c) \cup {<<b - c + 1, b>>}
<1> DEFINE N == Len(log)
           a == b - c
<1>0. N \in Nat /\ b \in Nat /\ c \in Nat /\ a \in Nat /\ b <= N /\ c <= b
  OBVIOUS
<1>1. \A run : run \in Runs(log) <=>
         run \in (1..N) \X (1..N) /\ run[1] <= run[2] /\ (\A i \in run[1]..run[2] : log[i] = "digit")
         /\ (run[1] > 1 => log[run[1] - 1] # "digit") /\ (run[2] < N => log[run[2] + 1] # "digit")
  BY DEF Runs, IsRun
<1> DEFINE Z == {i \in 1..N : log[i] = "digit"}
<1>2. /\ \A i \in (a + 1)..b : i \in Z
      /\ a \notin Z
      /\ b + 1 \notin Z
  BY <1>0
<1>3. \A run : run \in Runs(log) <=>
         run \in (1..N) \X (1..N) /\ run[1] <= run[2] /\ (\A i \in run[1]..run[2] : i \in Z)
         /\ run[1] - 1 \notin Z /\ run[2] + 1 \notin Z
  <2> TAKE run
  <2>1. ASSUME run \in (1..N) \X (1..N)
        PROVE  /\ (\A i \in run[1]..run[2] : log[i] = "digit") <=> (\A i \in run[1]..run[2] : i \in Z)
               /\ (run[1] > 1 => log[run[1] - 1] # "digit") <=> run[1] - 1 \notin Z
               /\ (run[2] < N => log[run[2] + 1] # "digit") <=> run[2] + 1 \notin Z
    <3>1. run[1] \in 1..N /\ run[2] \in 1..N
      BY <2>1
    <3>2. (\A i \in run[1]..run[2] : log[i] = "digit") <=> (\A i \in run[1]..run[2] : i \in Z)
      <4>1. \A i \in run[1]..run[2] : i \in 1..N
        BY <1>0, <3>1
      <4> QED
        BY <4>1
    <3>3. (run[1] > 1 => log[run[1] - 1] # "digit") <=> run[1] - 1 \notin Z
      BY <1>0, <3>1
    <3>4. (run[2] < N => log[run[2] + 1] # "digit") <=> run[2] + 1 \notin Z
      BY <1>0, <3>1
    <3> QED
      BY <3>2, <3>3, <3>4
  <2> HIDE DEF Z
  <2> QED
    BY <1>1, <2>1
<1> HIDE DEF Z, N
<1>4. ASSUME c # 0 PROVE <<a + 1, b>> \in Runs(log)
  <2> DEFINE run == <<a + 1, b>>
  <2>1. run[1] = a + 1 /\ run[2] = b
    OBVIOUS
  <2>2. a + 1 \in 1..N /\ b \in 1..N /\ a + 1 <= b /\ (a + 1) - 1 = a
    BY <1>0, <1>4
  <2>3. run \in (1..N) \X (1..N)
    BY <2>2
  <2> HIDE DEF run
  <2>4. run \in Runs(log)
    BY <1>2, <1>3, <2>1, <2>2, <2>3
  <2> QED
    BY <2>4 DEF run
<1>5. ASSUME NEW run \in Runs(log), run[2] <= b, ~(run[2] <= a)
      PROVE  c # 0 /\ run = <<a + 1, b>>
  <2>1. /\ run \in (1..N) \X (1..N) /\ run[1] <= run[2] /\ (\A i \in run[1]..run[2] : i \in Z)
        /\ run[1] - 1 \notin Z /\ run[2] + 1 \notin Z
    BY <1>3, <1>5
  <2>2. run[1] \in 1..N /\ run[2] \in 1..N /\ run = <<run[1], run[2]>>
    BY <2>1
  <2>3. run[2] = b
    <3>1. CASE run[2] < b
      <4>1. run[2] + 1 \in (a + 1)..b
        BY <1>0, <1>5, <2>2, <3>1
      <4> QED
        BY <1>2, <2>1, <4>1
    <3> QED
      BY <1>0, <1>5, <2>2, <3>1
  <2>4. ~(run[1] <= a)
    <3>1. CASE run[1] <= a
      <4>1. a \in run[1]..run[2]
        BY <1>0, <1>5, <2>2, <3>1
      <4> QED
        BY <1>2, <2>1, <4>1
    <3> QED
      BY <3>1
  <2>5. ~(run[1] > a + 1)
    <3>1. CASE run[1] > a + 1
      <4>1. run[1] - 1 \in (a + 1)..b
        BY <1>0, <1>5, <2>1, <2>2, <3>1
      <4> QED
        BY <1>2, <2>1, <4>1
    <3> QED
      BY <3>1
  <2>6. run[1] = a + 1 /\ c # 0
    BY <1>0, <1>5, <2>2, <2>4, <2>5
  <2> QED
    BY <2>2, <2>3, <2>6
<1>6. \A run : run \in Runs(log) => run[1] \in Nat /\ run[2] \in Nat
  BY <1>3, <1>0
<1>7. a <= b /\ \A x \in Nat : x <= a => x <= b
  BY <1>0
<1>8. CASE c = 0
  <2>1. a = b
    BY <1>0, <1>8
  <2> QED
    BY <1>8, <2>1
<1>9. CASE c # 0
  <2>1. <<a + 1, b>> \in RunsTo(log, b)
    <3>1. <<a + 1, b>>[2] <= b
      BY <1>0
    <3> QED
      BY <1>4, <1>9, <3>1 DEF RunsTo
  <2>2. ASSUME NEW run \in RunsTo(log, a) PROVE run \in RunsTo(log, b)
    BY <1>6, <1>7 DEF RunsTo
  <2>3. ASSUME NEW run \in RunsTo(log, b) PROVE run \in RunsTo(log, a) \/ run = <<a + 1, b>>
    BY <1>5 DEF RunsTo
  <2>4. RunsTo(log, b) = RunsTo(log, a) \cup {<<a + 1, b>>}
    BY <2>1, <2>2, <2>3
  <2> QED
    BY <1>9, <2>4
<1> QED
  BY <1>8, <1>9

LEMMA RunNumbers ==
    ASSUME NEW V, NEW log \in Seq(V), NEW run \in Runs(log)
    PROVE  /\ run \in Nat \X Nat /\ run[1] \in 1..Len(log) /\ run[2] \in 1..Len(log) /\ run[1] <= run[2]
           /\ run = <<run[1], run[2]>>
<1>1. run \in (1..Len(log)) \X (1..Len(log)) /\ run[1] <= run[2]
  BY DEF Runs, IsRun
<1> QED
  BY <1>1

LEMMA PlacesLength ==
    ASSUME NEW a \in Nat, NEW b \in Nat, a <= b + 1
    PROVE  PlacesFrom(a, b) \in Seq(Int) /\ Len(PlacesFrom(a, b)) = b - a + 1
<1> DEFINE n == b - a + 1
<1>1. n \in Nat
  OBVIOUS
<1>2. PlacesFrom(a, b) = [i \in 1..n |-> a + i - 1]
  BY DEF PlacesFrom
<1> HIDE DEF n
<1>3. \A i \in 1..n : a + i - 1 \in Int
  BY <1>1
<1>4. PlacesFrom(a, b) \in Seq(Int) /\ Len(PlacesFrom(a, b)) = n
  BY <1>1, <1>2, <1>3
<1> QED
  BY <1>4 DEF n

\* When the digits that stand behind place a end at b, the better of the two is the best.
LEMMA BestGrows ==
    ASSUME NEW V, NEW log \in Seq(V), NEW b \in 0..Len(log), NEW c \in 0..b,
           NEW st \in Readings, LogTo(log, b, c, st), b < Len(log) => log[b + 1] # "digit"
    PROVE  BestOf(Better(st), RunsTo(log, b))
<1> DEFINE a == b - c
           old == RunsTo(log, a)
           new == RunsTo(log, b)
           last == <<a + 1, b>>
<1>0. b \in Nat /\ c \in Nat /\ a \in Nat /\ c <= b /\ a + c = b /\ b - (a + 1) + 1 = c
  OBVIOUS
<1>1. new = IF c = 0 THEN old ELSE old \cup {last}
  BY RunsGrow DEF LogTo
<1>2. st.current = PlacesFrom(a + 1, b) /\ BestOf(st.best, old)
  BY DEF LogTo
<1>3. Len(st.current) = c
  <2>1. a + 1 \in Nat /\ a + 1 <= b + 1
    BY <1>0
  <2>2. Len(PlacesFrom(a + 1, b)) = b - (a + 1) + 1
    BY <1>0, <2>1, PlacesLength
  <2> QED
    BY <1>0, <1>2, <2>2
<1>4. st.best \in Seq(Nat) /\ Len(st.best) \in Nat
  BY DEF Readings
<1>5. Better(st) = IF c > Len(st.best) THEN st.current ELSE st.best
  BY <1>3 DEF Better, Longer
<1>6. \A r \in old : r[1] \in Nat /\ r[2] \in Nat /\ r[1] <= r[2] /\ r[2] <= a
  BY RunNumbers DEF RunsTo
<1>7. last[1] = a + 1 /\ last[2] = b
  OBVIOUS
<1> SUFFICES BestOf(Better(st), new)
  OBVIOUS
<1> HIDE DEF a, old, new, last
<1>8. CASE c = 0
  <2>1. new = old
    BY <1>1, <1>8
  <2>2. Better(st) = st.best
    BY <1>4, <1>5, <1>8
  <2> QED
    BY <1>2, <2>1, <2>2
<1>9. CASE c # 0 /\ old = {}
  <2>1. st.best = <<>>
    BY <1>2, <1>9 DEF BestOf
  <2>2. Len(st.best) = 0 /\ c > 0
    BY <1>0, <1>9, <2>1
  <2>3. Better(st) = PlacesFrom(last[1], last[2])
    BY <1>2, <1>5, <1>7, <2>2
  <2>4. new = {last}
    BY <1>1, <1>9
  <2>5. BestRun(last, new)
    BY <1>0, <1>7, <2>4 DEF BestRun
  <2>6. last \in new /\ new # {}
    BY <2>4
  <2> QED
    BY <2>3, <2>5, <2>6 DEF BestOf
<1>10. CASE c # 0 /\ old # {}
  <2>1. PICK r \in old : BestRun(r, old) /\ st.best = PlacesFrom(r[1], r[2])
    BY <1>2, <1>10 DEF BestOf
  <2>2. r[1] \in Nat /\ r[2] \in Nat /\ r[1] <= r[2] /\ r[2] <= a
    BY <1>6
  <2>3. Len(st.best) = r[2] - r[1] + 1
    <3>1. r[1] <= r[2] + 1
      BY <2>2
    <3>2. Len(PlacesFrom(r[1], r[2])) = r[2] - r[1] + 1
      BY <2>2, <3>1, PlacesLength
    <3> QED
      BY <2>1, <3>2
  <2>4. new = old \cup {last}
    BY <1>1, <1>10
  <2>5. \A other \in old : other[2] - other[1] < r[2] - r[1]
                           \/ (other[2] - other[1] = r[2] - r[1] /\ r[1] <= other[1])
    BY <2>1 DEF BestRun
  <2>6. CASE c > Len(st.best)
    <3>1. Better(st) = PlacesFrom(last[1], last[2])
      BY <1>2, <1>5, <1>7, <2>6
    <3>2. r[2] - r[1] < last[2] - last[1]
      BY <1>0, <1>7, <2>2, <2>3, <2>6
    <3>3. last[2] - last[1] \in Int /\ r[2] - r[1] \in Int /\ last[1] <= last[1]
      BY <1>0, <1>7, <2>2
    <3>4. ASSUME NEW other \in new
          PROVE  other[2] - other[1] < last[2] - last[1]
                 \/ (other[2] - other[1] = last[2] - last[1] /\ last[1] <= other[1])
      <4>1. CASE other = last
        BY <3>3, <4>1
      <4>2. CASE other \in old
        BY <1>6, <2>5, <3>2, <3>3, <4>2
      <4> QED
        BY <2>4, <4>1, <4>2
    <3>5. BestRun(last, new)
      BY <3>4 DEF BestRun
    <3>6. last \in new /\ r \in new /\ new # {}
      BY <2>4
    <3> QED
      BY <3>1, <3>5, <3>6 DEF BestOf
  <2>7. CASE ~(c > Len(st.best))
    <3>1. Better(st) = PlacesFrom(r[1], r[2])
      BY <1>5, <2>1, <2>7
    <3>2. last[2] - last[1] <= r[2] - r[1] /\ r[1] <= last[1]
      BY <1>0, <1>4, <1>7, <2>2, <2>3, <2>7
    <3>3. last[2] - last[1] \in Int /\ r[2] - r[1] \in Int
      BY <1>0, <1>7, <2>2
    <3>4. ASSUME NEW other \in new
          PROVE  other[2] - other[1] < r[2] - r[1]
                 \/ (other[2] - other[1] = r[2] - r[1] /\ r[1] <= other[1])
      <4>1. CASE other = last
        BY <3>2, <3>3, <4>1
      <4>2. CASE other \in old
        BY <2>5, <4>2
      <4> QED
        BY <2>4, <4>1, <4>2
    <3>5. BestRun(r, new)
      BY <3>4 DEF BestRun
    <3>6. last \in new /\ r \in new /\ new # {}
      BY <2>4
    <3> QED
      BY <3>1, <3>5, <3>6 DEF BestOf
  <2> QED
    BY <2>6, <2>7
<1> QED
  BY <1>8, <1>9, <1>10

LEMMA LogNext ==
    ASSUME NEW V, NEW log \in Seq(V), NEW n \in 1..Len(log), NEW c \in 0..(n - 1),
           NEW st \in Readings, LogTo(log, n - 1, c, st)
    PROVE  \E d \in 0..n : LogTo(log, n, d, LogSymbol(st, log[n], n))
<1> DEFINE p == n - 1
           new == LogSymbol(st, log[n], n)
<1>1. n \in Nat /\ p \in Nat /\ c \in Nat /\ c <= p /\ p + 1 = n /\ n <= Len(log) /\ p \in 0..Len(log)
  OBVIOUS
<1>2. /\ st.current = PlacesFrom(p - c + 1, p)
      /\ \A i \in (p - c + 1)..p : log[i] = "digit"
      /\ p - c > 0 => log[p - c] # "digit"
      /\ BestOf(st.best, RunsTo(log, p - c))
  BY DEF LogTo
<1>3. CASE log[n] = "digit"
  <2> DEFINE d == c + 1
  <2>1. d \in 0..n /\ n - d = p - c
    BY <1>1
  <2>2. new = [st EXCEPT !.current = Append(@, n)]
    BY <1>3 DEF LogSymbol
  <2>3. new.current = Append(st.current, n) /\ new.best = st.best
    BY <2>2 DEF Readings
  <2>4. Append(PlacesFrom(p - c + 1, p), n) = PlacesFrom(n - d + 1, n)
    <3> DEFINE q == p - c + 1
               f == [i \in 1..c |-> q + i - 1]
               g == [i \in 1..(c + 1) |-> q + i - 1]
    <3>1. q \in Nat /\ p - q + 1 = c /\ n - q + 1 = c + 1 /\ q + (c + 1) - 1 = n /\ n - d + 1 = q
      BY <1>1
    <3>2. PlacesFrom(q, p) = f /\ PlacesFrom(q, n) = g
      BY <3>1 DEF PlacesFrom
    <3>3. f \in Seq(Int) /\ Len(f) = c
      <4> HIDE DEF q
      <4>1. \A i \in 1..c : q + i - 1 \in Int
        BY <3>1
      <4> QED
        BY <1>1, <4>1
    <3>4. Append(f, n) = g
      <4> HIDE DEF q
      <4>1. Append(f, n) \in Seq(Int) /\ Len(Append(f, n)) = c + 1
            /\ \A i \in 1..(c + 1) : Append(f, n)[i] = IF i <= c THEN f[i] ELSE n
        <5> HIDE DEF f
        <5> QED
          BY <1>1, <3>3
      <4>2. g \in Seq(Int) /\ Len(g) = c + 1 /\ \A i \in 1..(c + 1) : g[i] = q + i - 1
        <5>1. \A i \in 1..(c + 1) : q + i - 1 \in Int
          BY <3>1
        <5>2. c + 1 \in Nat
          BY <1>1
        <5> QED
          BY <5>1, <5>2
      <4>3. \A i \in 1..(c + 1) : Append(f, n)[i] = g[i]
        <5> TAKE i \in 1..(c + 1)
        <5>1. CASE i <= c
          <6>1. i \in 1..c /\ f[i] = q + i - 1
            BY <1>1, <5>1
          <6> QED
            BY <4>1, <4>2, <5>1, <6>1
        <5>2. CASE ~(i <= c)
          <6>1. i = c + 1
            BY <1>1, <5>2
          <6> QED
            BY <3>1, <4>1, <4>2, <5>2, <6>1
        <5> QED
          BY <5>1, <5>2
      <4> HIDE DEF f, g
      <4> QED
        BY <4>1, <4>2, <4>3
    <3> QED
      BY <3>1, <3>2, <3>4
  <2>5. \A i \in (n - d + 1)..n : log[i] = "digit"
    <3> TAKE i \in (n - d + 1)..n
    <3>1. i = n \/ i \in (p - c + 1)..p
      BY <1>1
    <3> QED
      BY <1>2, <1>3, <3>1
  <2> HIDE DEF d, new
  <2>6. LogTo(log, n, d, new)
    BY <1>2, <2>1, <2>3, <2>4, <2>5 DEF LogTo
  <2> QED
    BY <2>1, <2>6 DEF new
<1>4. CASE log[n] # "digit"
  <2>1. new = [best |-> Better(st), current |-> <<>>]
    BY <1>4 DEF LogSymbol
  <2>2. new.best = Better(st) /\ new.current = <<>>
    BY <2>1
  <2>3. BestOf(Better(st), RunsTo(log, p))
    <3>1. c \in 0..p /\ (p < Len(log) => log[p + 1] # "digit")
      BY <1>1, <1>4
    <3> HIDE DEF p
    <3> QED
      BY <1>1, <3>1, BestGrows DEF p
  <2>4. RunsTo(log, n) = RunsTo(log, p)
    <3>1. ASSUME NEW run \in Runs(log) PROVE run[2] <= n <=> run[2] <= p
      <4>1. run[1] \in 1..Len(log) /\ run[2] \in 1..Len(log) /\ run[1] <= run[2]
        BY RunNumbers
      <4>2. \A i \in run[1]..run[2] : log[i] = "digit"
        BY DEF Runs, IsRun
      <4>3. run[2] # n
        <5>1. CASE run[2] = n
          <6>1. n \in run[1]..run[2]
            BY <1>1, <4>1, <5>1
          <6> QED
            BY <1>4, <4>2, <6>1
        <5> QED
          BY <5>1
      <4> QED
        BY <1>1, <4>1, <4>3
    <3> QED
      BY <3>1 DEF RunsTo
  <2>5. n - 0 = n /\ n - 0 + 1 = n + 1 /\ 0 \in 0..n
    BY <1>1
  <2>6. PlacesFrom(n + 1, n) = <<>>
    <3>1. n - (n + 1) + 1 = 0
      BY <1>1
    <3> QED
      BY <3>1 DEF PlacesFrom
  <2>7. \A i \in (n + 1)..n : log[i] = "digit"
    BY <1>1
  <2> HIDE DEF new
  <2>8. LogTo(log, n, 0, new)
    BY <1>4, <2>2, <2>3, <2>4, <2>5, <2>6, <2>7 DEF LogTo
  <2> QED
    BY <2>5, <2>8 DEF new
<1> QED
  BY <1>3, <1>4

\* The identifier is the first of the longest runs.
LEMMA IdentifierRead ==
    ASSUME NEW V, NEW log \in Seq(V)
    PROVE  BestOf(ExtractNumericIdentifier(log), Runs(log))
<1> DEFINE N == Len(log)
           done == ReadLog(log)
           T == {n \in 0..N : \E c \in 0..n : LogTo(log, n, c, done[n])}
<1>1. N \in Nat
  OBVIOUS
<1>2. /\ done \in [0..N -> Readings] /\ done[0] = [best |-> <<>>, current |-> <<>>]
      /\ \A k \in 1..N : done[k] = LogSymbol(done[k - 1], log[k], k)
  BY LogStates
<1> HIDE DEF done
<1>3. 0 \in T
  <2>1. done[0].best = <<>> /\ done[0].current = <<>>
    BY <1>2
  <2>2. RunsTo(log, 0) = {}
    <3>1. \A run \in Runs(log) : ~(run[2] <= 0)
      BY RunNumbers
    <3> QED
      BY <3>1 DEF RunsTo
  <2>3. PlacesFrom(1, 0) = <<>> /\ 0 - 0 = 0 /\ 0 - 0 + 1 = 1 /\ ~(0 > 0) /\ (\A i \in 1..0 : log[i] = "digit")
    BY DEF PlacesFrom
  <2>4. LogTo(log, 0, 0, done[0])
    BY <2>1, <2>2, <2>3 DEF LogTo, BestOf
  <2> QED
    BY <1>1, <2>4
<1>4. \A n \in 1..N : n - 1 \in T => n \in T
  <2> TAKE n \in 1..N
  <2> HAVE n - 1 \in T
  <2>1. n - 1 \in 0..N /\ n \in 0..N
    BY <1>1
  <2>2. PICK c \in 0..(n - 1) : LogTo(log, n - 1, c, done[n - 1])
    OBVIOUS
  <2>3. done[n - 1] \in Readings /\ done[n] = LogSymbol(done[n - 1], log[n], n)
    BY <1>2, <2>1
  <2>4. \E d \in 0..n : LogTo(log, n, d, done[n])
    BY <2>2, <2>3, LogNext
  <2> QED
    BY <2>1, <2>4
<1> HIDE DEF T
<1>5. \A n \in 0..N : n \in T
  BY <1>1, <1>3, <1>4, UpTo
<1>6. N \in 0..N
  BY <1>1
<1>7. PICK c \in 0..N : LogTo(log, N, c, done[N])
  BY <1>5, <1>6 DEF T
<1>8. RunsTo(log, N) = Runs(log)
  <2>1. \A run \in Runs(log) : run[2] <= N
    BY RunNumbers
  <2> QED
    BY <2>1 DEF RunsTo
<1>9. done[N] \in Readings
  BY <1>2, <1>6
<1>10. BestOf(Better(done[N]), RunsTo(log, N))
  <2>1. N < Len(log) => log[N + 1] # "digit"
    OBVIOUS
  <2> HIDE DEF N
  <2> QED
    BY <1>6, <1>7, <1>9, <2>1, BestGrows DEF N
<1> QED
  BY <1>8, <1>10 DEF ExtractNumericIdentifier, done

\* The answer is what stands between the first and the last character that is shown.
LEMMA AnswerShown ==
    ASSUME NEW V, NEW log \in Seq(V)
    PROVE  LET answer == CleanModemResponse(log)
           IN  /\ ShowsAll(answer, log)
               /\ answer # <<>> => IsShown(answer[1]) /\ IsShown(answer[Len(answer)])
<1> DEFINE N == Len(log)
           clean == [i \in DOMAIN log |-> IF log[i] \in {"cr", "lf"} THEN "blank" ELSE log[i]]
           shown == {i \in DOMAIN clean : clean[i] # "blank"}
           answer == CleanModemResponse(log)
<1>1. N \in Nat /\ DOMAIN log = 1..N /\ 0 \in 0..N
  OBVIOUS
<1>2. clean \in Seq(V \cup {"blank"}) /\ Len(clean) = N /\ DOMAIN clean = 1..N
  <2> DEFINE W == V \cup {"blank"}
             f == [i \in 1..N |-> IF log[i] \in {"cr", "lf"} THEN "blank" ELSE log[i]]
  <2>1. \A i \in 1..N : (IF log[i] \in {"cr", "lf"} THEN "blank" ELSE log[i]) \in W
    <3> TAKE i \in 1..N
    <3>1. log[i] \in V
      OBVIOUS
    <3> QED
      BY <3>1
  <2>2. f \in [1..N -> W]
    BY <2>1
  <2>3. clean = f
    BY <1>1
  <2> HIDE DEF f, W
  <2>4. f \in Seq(W) /\ Len(f) = N /\ DOMAIN f = 1..N
    BY <1>1, <2>2
  <2> QED
    BY <2>3, <2>4 DEF W
<1>3. \A i \in 1..N : /\ IsShown(log[i]) <=> clean[i] # "blank"
                      /\ clean[i] = IF IsShown(log[i]) THEN log[i] ELSE "blank"
  BY <1>1 DEF IsShown
<1>4. \A i : i \in shown <=> i \in 1..N /\ IsShown(log[i])
  <2> HIDE DEF clean
  <2> QED
    BY <1>2, <1>3
<1>5. answer = IF shown = {} THEN <<>> ELSE SubSeq(clean, Min(shown), Max(shown))
  BY DEF CleanModemResponse
<1> SUFFICES ShowsAll(answer, log) /\ (answer # <<>> => IsShown(answer[1]) /\ IsShown(answer[Len(answer)]))
  OBVIOUS
<1> HIDE DEF N, clean, shown, answer
<1>6. CASE shown = {}
  <2>1. answer = <<>> /\ Len(answer) = 0 /\ DOMAIN answer = {}
    BY <1>5, <1>6
  <2>2. \A i \in DOMAIN log : ~IsShown(log[i])
    BY <1>1, <1>4, <1>6
  <2>3. 0 + Len(answer) <= Len(log) /\ 0 \in 0..Len(log)
    BY <1>1, <2>1 DEF N
  <2>4. ShowsAll(answer, log)
    BY <2>1, <2>2, <2>3 DEF ShowsAll
  <2> QED
    BY <2>1, <2>4
<1>7. CASE shown # {}
  <2>1. shown \in SUBSET (1..N) /\ shown \in SUBSET Nat
    BY <1>1, <1>4
  <2>2. PICK a \in shown : \A j \in shown : a <= j
    BY <1>7, <2>1, LeastOf
  <2>3. Min(shown) = a
    BY <2>1, <2>2, LeastIsMin
  <2>4. PICK b \in shown : IsLast(b, shown)
    BY <1>1, <1>7, <2>1, GreatestOf
  <2>5. Max(shown) = b
    BY <2>1, <2>4, LastIsMax
  <2>6. a \in 1..N /\ b \in 1..N /\ a <= b /\ IsShown(log[a]) /\ IsShown(log[b])
    BY <1>4, <2>2
  <2> DEFINE n == b - a + 1
             d == a - 1
  <2>7. n \in Nat /\ n >= 1 /\ d \in 0..N /\ d + n = b /\ d + 1 = a /\ d \in Nat
    BY <1>1, <2>6
  <2>8. answer = SubSeq(clean, a, b)
    BY <1>5, <1>7, <2>3, <2>5
  <2>9. Len(answer) = n /\ DOMAIN answer = 1..n /\ \A i \in 1..n : answer[i] = clean[a + i - 1]
    <3> DEFINE W == V \cup {"blank"}
               piece == SubSeq(clean, a, b)
    <3>1. a \in Int /\ b \in Int
      BY <1>1, <2>6
    <3>2. \A i \in a..b : clean[i] \in W
      <4>1. \A i \in a..b : i \in 1..N
        BY <1>1, <2>6
      <4> QED
        BY <1>1, <1>2, <4>1
    <3>3. /\ piece \in Seq(W) /\ Len(piece) = IF a <= b THEN b - a + 1 ELSE 0
          /\ \A i \in 1..(b - a + 1) : piece[i] = clean[a + i - 1]
      <4> HIDE DEF W
      <4> QED
        BY <3>1, <3>2, SubSeqProperties
    <3> HIDE DEF piece, W
    <3>4. Len(piece) = n /\ DOMAIN piece = 1..Len(piece)
      BY <2>6, <3>3
    <3>5. answer = piece
      BY <2>8 DEF piece
    <3> QED
      BY <3>3, <3>4, <3>5
  <2> HIDE DEF n, d
  <2>10. \A i \in 1..n : a + i - 1 = d + i /\ d + i \in 1..N
    BY <1>1, <2>6, <2>7
  <2>11. \A i \in 1..n : answer[i] = IF IsShown(log[d + i]) THEN log[d + i] ELSE "blank"
    <3> TAKE i \in 1..n
    <3>1. answer[i] = clean[d + i] /\ d + i \in 1..N
      BY <2>9, <2>10
    <3> QED
      BY <1>3, <3>1
  <2>12. \A i \in DOMAIN log : IsShown(log[i]) => i \in (d + 1)..(d + Len(answer))
    <3> TAKE i \in DOMAIN log
    <3> HAVE IsShown(log[i])
    <3>1. i \in shown /\ i \in 1..N
      BY <1>1, <1>4
    <3>2. a <= i /\ i <= b
      BY <2>2, <2>4, <3>1 DEF IsLast
    <3> QED
      BY <2>6, <2>7, <2>9, <3>1, <3>2
  <2>13. d + Len(answer) <= Len(log) /\ d \in 0..Len(log)
    BY <1>1, <2>6, <2>7, <2>9 DEF N
  <2>14. ShowsAll(answer, log)
    BY <2>9, <2>11, <2>12, <2>13 DEF ShowsAll
  <2>15. 1 \in 1..n /\ n \in 1..n
    BY <2>7
  <2>16. answer[1] = log[a] /\ answer[Len(answer)] = log[b]
    BY <2>6, <2>7, <2>9, <2>11, <2>15
  <2> QED
    BY <2>6, <2>14, <2>16
<1> QED
  BY <1>6, <1>7

LEMMA LogsRead ==
    ASSUME NEW V, NEW log \in Seq(V)
    PROVE  LogsAreRead(log)
<1> DEFINE id == ExtractNumericIdentifier(log)
           answer == CleanModemResponse(log)
<1>1. IF Runs(log) = {} THEN id = <<>>
      ELSE \E r \in Runs(log) : BestRun(r, Runs(log)) /\ id = [i \in 1..(r[2] - r[1] + 1) |-> r[1] + i - 1]
  BY IdentifierRead DEF BestOf, PlacesFrom
<1>2. ShowsAll(answer, log) /\ (answer # <<>> => IsShown(answer[1]) /\ IsShown(answer[Len(answer)]))
  BY AnswerShown
<1> HIDE DEF id, answer
<1> QED
  BY <1>1, <1>2 DEF LogsAreRead, id, answer

\* Whatever the files, the arguments and the modem's answers are, and however long: the
\* programs accept what is documented, and take it for what it says.
THEOREM StartsAsked == ISpec => []StartsAsAsked
<1>1. InputInv => StartsAsAsked
  <2> SUFFICES ASSUME InputInv PROVE StartsAsAsked
    OBVIOUS
  <2>1. input.kind \in DOMAIN Most /\ input.data \in Seq(AllSymbols)
    BY DEF InputInv
  <2>2. ASSUME Of("config") PROVE LoadedAsWritten(input.data)
    <3>1. input.kind = "config" /\ "config" \in DOMAIN Most
      BY <2>1, <2>2 DEF Of
    <3>2. Most["config"] \in Nat /\ Len(input.data) \in Nat /\ Len(input.data) <= Most["config"]
      BY <2>1, <3>1, InputsAssumption DEF InputInv
    <3>3. \A i \in 1..Len(input.data) : input.data[i] \in Lines
      <4> TAKE i \in 1..Len(input.data)
      <4>1. input.data[i] \in Symbols("config", i)
        BY <3>1 DEF InputInv
      <4>2. i \in 1..Most["config"]
        BY <3>2
      <4>3. Symbols("config", i) \subseteq Lines
        BY <3>1, <4>2, StartUpAssumption
      <4> QED
        BY <4>1, <4>3
    <3>4. input.data \in Seq(Lines)
      BY <2>1, <3>3
    <3> QED
      BY <3>4, ConfigLoaded
  <2>3. ArgumentsAreUnderstood(input.data)
    BY <2>1, ArgumentsUnderstood
  <2>4. LogsAreRead(input.data)
    BY <2>1, LogsRead
  <2> QED
    BY <2>2, <2>3, <2>4 DEF StartsAsAsked
<1> QED
  BY <1>1, InputTypes, PTL

-----------------------------------------------------------------------------
(* The clock.                                                              *)

\* Quotient and remainder are the only numbers that are what they are.
LEMMA Division ==
    ASSUME NEW n \in Nat \ {0}, NEW q \in Int, NEW r \in 0..(n - 1)
    PROVE  (n * q + r) % n = r /\ (n * q + r) \div n = q
  OBVIOUS

LEMMA Divided ==
    ASSUME NEW a \in Int, NEW n \in Nat \ {0}
    PROVE  /\ a % n \in 0..(n - 1) /\ a \div n \in Int
           /\ a = n * (a \div n) + (a % n)
  OBVIOUS

\* The clock stands e behind the beginning of a call with deadline d.
Stands(time, d, e) == \E z \in Int : time = d + e - Patience + ClockWord * z

\* The word of the clock is a multiple of the word below the tested bit.
LEMMA Word == \E m \in Nat \ {0} : ClockWord = 2 * (TestBit * m)
<1> DEFINE n == 2 * TestBit
           m == ClockWord \div n
<1>1. n \in Nat \ {0} /\ ClockWord \in Nat \ {0} /\ TestBit \in Nat \ {0}
  BY SerialLineAssumption
<1>2. m \in Int /\ ClockWord = n * m
  <2>1. ClockWord % n = 0
    BY SerialLineAssumption
  <2> HIDE DEF n
  <2>2. ClockWord = n * (ClockWord \div n) + (ClockWord % n) /\ ClockWord \div n \in Int
    BY <1>1, Divided
  <2>3. ClockWord = n * m + 0 /\ m \in Int
    BY <2>1, <2>2
  <2>4. n * m \in Int
    BY <1>1, <2>3
  <2> QED
    BY <2>3, <2>4
<1> HIDE DEF m
<1>3. n * m = 2 * (TestBit * m)
  BY <1>1, <1>2
<1>4. m <= 0 => n * m <= 0
  <2> HIDE DEF n
  <2> QED
    BY <1>1, <1>2
<1> QED
  BY <1>1, <1>2, <1>3, <1>4

\* CheckTimeout before the deadline, and in the time before the difference changes its sign.
LEMMA PastTells ==
    ASSUME NEW time \in 0..(ClockWord - 1), due \in 0..(ClockWord - 1), NEW e \in Nat,
           Stands(time, due, e)
    PROVE  /\ e < Patience => ~Past(time)
           /\ e \in Patience..(Patience + TestBit - 1) => Past(time)
<1> DEFINE diff == time + ClockWord - due
           mod == diff % ClockWord
           x == diff \div ClockWord
<1>1. /\ ClockWord \in Nat \ {0} /\ TestBit \in Nat \ {0} /\ Patience \in Nat /\ Patience < TestBit
      /\ diff \in Int
  BY SerialLineAssumption
<1>2. PICK m \in Nat \ {0} : ClockWord = 2 * (TestBit * m)
  BY Word
<1>3. PICK z \in Int : time = due + e - Patience + ClockWord * z
  BY DEF Stands
<1>4. mod \in 0..(ClockWord - 1) /\ x \in Int /\ diff = ClockWord * x + mod
  <2> HIDE DEF diff
  <2> QED
    BY <1>1, Divided
<1>5. ClockWord * z \in Int /\ ClockWord * x \in Int
  BY <1>1, <1>3, <1>4
<1>6. mod = e - Patience + ClockWord + ClockWord * z - ClockWord * x
  BY <1>1, <1>3, <1>4, <1>5
<1> DEFINE u == z - x + 1
<1>7. u \in Int /\ ClockWord * u = ClockWord + ClockWord * z - ClockWord * x
  <2> HIDE DEF x, mod, diff
  <2> QED
    BY <1>1, <1>3, <1>4
<1>8. mod = e - Patience + ClockWord * u
  BY <1>1, <1>3, <1>4, <1>5, <1>6, <1>7
<1>9. Past(time) <=> (mod \div TestBit) % 2 = 0
  BY DEF Past
<1>10. TestBit * m \in Nat /\ TestBit <= TestBit * m /\ TestBit < ClockWord
  BY <1>1, <1>2
<1> HIDE DEF u, mod, x, diff
<1>11. u <= 0 => ClockWord * u <= 0
  BY <1>1, <1>7
<1>12. u >= 1 => ClockWord * u >= ClockWord
  BY <1>1, <1>7
<1>13. u >= 2 => ClockWord * u >= 2 * ClockWord
  BY <1>1, <1>7
<1>14. u < 0 => ClockWord * u <= 0 - ClockWord
  BY <1>1, <1>7
<1>15. ClockWord * u \in Int
  BY <1>1, <1>7
<1>16. ASSUME e < Patience
       PROVE  ~Past(time)
  <2>1. u = 1
    BY <1>1, <1>4, <1>7, <1>8, <1>10, <1>11, <1>13, <1>15, <1>16
  <2>2. mod = e - Patience + ClockWord
    BY <1>1, <1>8, <2>1
  <2> DEFINE r == TestBit + e - Patience
             q == 2 * m - 1
  <2>3. r \in 0..(TestBit - 1) /\ q \in Int
    BY <1>1, <1>2, <1>16
  <2>4. TestBit * q = 2 * (TestBit * m) - TestBit
    BY <1>1, <1>2
  <2>5. mod = TestBit * q + r
    BY <1>1, <1>2, <1>10, <2>2, <2>4
  <2>6. mod \div TestBit = q
    <3> HIDE DEF q, r
    <3> QED
      BY <1>1, <2>3, <2>5, Division
  <2>7. q % 2 = 1
    BY <1>2
  <2> QED
    BY <1>9, <2>6, <2>7
<1>17. ASSUME e \in Patience..(Patience + TestBit - 1)
       PROVE  Past(time)
  <2>1. u = 0
    BY <1>1, <1>4, <1>7, <1>8, <1>10, <1>12, <1>14, <1>15, <1>17
  <2>2. mod = e - Patience
    BY <1>1, <1>8, <2>1
  <2>3. mod \in 0..(TestBit - 1)
    BY <1>1, <1>17, <2>2
  <2>4. mod = TestBit * 0 + mod
    BY <1>1, <2>3
  <2>5. mod \div TestBit = 0
    BY <1>1, <2>3, <2>4, Division
  <2> QED
    BY <1>9, <2>5
<1> QED
  BY <1>16, <1>17

-----------------------------------------------------------------------------
(* The inductive invariant of SendExpect's calls.                          *)

Octets == Nat \X (1..CommandSize)

LineTypes ==
    /\ phase \in {"idle", "write", "read"} /\ event \in Events /\ returned \in {"rtn"} \cup Results
    /\ now \in 0..(ClockWord - 1) /\ due \in 0..(ClockWord - 1) /\ elapsed \in Nat
    /\ sent \in 0..CommandSize /\ (phase = "write" => sent < CommandSize)
    /\ line \in Seq(Octets) /\ results \in Seq(Results)

ClockStands == phase # "idle" => Stands(now, due, elapsed)

\* The octets of the commands lie one behind the other, each command's from its first on.
InOrder(s) ==
    \A p, q \in DOMAIN s : p < q =>
        \/ s[p][1] < s[q][1]
        \/ s[p][1] = s[q][1] /\ s[q][2] - s[p][2] = q - p
FromTheFirst(s) ==
    \A p \in DOMAIN s : \A i \in 1..s[p][2] :
        p - s[p][2] + i \in DOMAIN s /\ s[p - s[p][2] + i] = <<s[p][1], i>>

\* s has the first n octets of command k, which is the last one.
Has(s, k, n) ==
    /\ \A p \in DOMAIN s : s[p][1] \in 1..k
    /\ \A p \in DOMAIN s : s[p][1] = k => s[p][2] <= n
    /\ n > 0 => s # <<>> /\ s[Len(s)] = <<k, n>>

IsLine(s, k, n) == s \in Seq(Octets) /\ InOrder(s) /\ FromTheFirst(s) /\ Has(s, k, n)

\* Of the command under way, the line has what PutBlock has written.
UnderWay ==
    /\ phase = "write" => Has(line, Len(results) + 1, sent)
    /\ \A p \in DOMAIN line : phase # "write" => line[p][1] \in 1..Len(results)

IsWhole(s, k) == \E p \in DOMAIN s : s[p] = <<k, CommandSize>>
WholeIsWritten ==
    \A k \in DOMAIN results : results[k] = "SERIAL_ERR_OK" <=> IsWhole(line, k)

LineInv ==
    /\ LineTypes /\ ClockStands /\ TimeoutsAreKept
    /\ InOrder(line) /\ FromTheFirst(line) /\ UnderWay /\ WholeIsWritten

-----------------------------------------------------------------------------
(* What the parts of a step do.                                            *)

LEMMA TimeMoves ==
    ASSUME LineTypes, ClockStands, phase # "idle", TimePasses
    PROVE  /\ now' \in 0..(ClockWord - 1) /\ elapsed' \in Nat
           /\ Stands(now', due, elapsed')
<1>1. /\ ClockWord \in Nat \ {0} /\ Patience \in Nat /\ MaxElapsed \in Nat
      /\ now \in Nat /\ due \in Nat /\ elapsed \in Nat
  BY SerialLineAssumption DEF LineTypes
<1>2. PICK t \in 0..(MaxElapsed - elapsed) :
        now' = (now + t) % ClockWord /\ elapsed' = elapsed + t
  BY DEF TimePasses
<1>3. PICK z \in Int : now = due + elapsed - Patience + ClockWord * z
  BY DEF ClockStands, Stands
<1> DEFINE y == (now + t) \div ClockWord
<1>4. now' \in 0..(ClockWord - 1) /\ y \in Int /\ now + t = ClockWord * y + now'
  <2>1. now + t \in Int
    BY <1>1, <1>2
  <2> QED
    BY <1>1, <1>2, <2>1, Divided
<1> HIDE DEF y
<1>5. z - y \in Int /\ ClockWord * (z - y) = ClockWord * z - ClockWord * y
  BY <1>1, <1>3, <1>4
<1>6. ClockWord * z \in Int /\ ClockWord * y \in Int
  BY <1>1, <1>3, <1>4
<1>7. now' = due + elapsed' - Patience + ClockWord * (z - y)
  BY <1>1, <1>2, <1>3, <1>4, <1>5, <1>6
<1>8. Stands(now', due, elapsed')
  BY <1>5, <1>7 DEF Stands
<1>9. elapsed' \in Nat
  BY <1>1, <1>2
<1> QED
  BY <1>4, <1>8, <1>9

LEMMA CallBegins ==
    ASSUME NEW time \in 0..(ClockWord - 1)
    PROVE  Due(time) \in 0..(ClockWord - 1) /\ Stands(time, Due(time), 0)
<1> DEFINE y == (time + Patience) \div ClockWord
           d == Due(time)
<1>1. /\ ClockWord \in Nat \ {0} /\ Patience \in Nat /\ time \in Nat /\ time + Patience \in Int
  BY SerialLineAssumption
<1>2. /\ d \in 0..(ClockWord - 1) /\ y \in Int
      /\ time + Patience = ClockWord * y + d
  BY <1>1, Divided DEF Due
<1> HIDE DEF y, d
<1>3. ClockWord * y \in Int
  BY <1>1, <1>2
<1>5. time = d + 0 - Patience + ClockWord * y
  BY <1>1, <1>2, <1>3
<1>6. Stands(time, d, 0)
  BY <1>2, <1>5 DEF Stands
<1> QED
  BY <1>2, <1>6 DEF d

\* u is s with the next n octets of command k behind, of which s has b.
Extends(s, u, m, k, b, n) ==
    /\ DOMAIN s = 1..m /\ DOMAIN u = 1..(m + n)
    /\ \A p \in 1..m : s[p][1] \in Nat /\ s[p][2] \in 1..CommandSize
    /\ \A p \in 1..m : u[p] = s[p]
    /\ \A p \in (m + 1)..(m + n) : u[p] = <<k, b + (p - m)>>

\* s has the first n octets of command k, which is the last one.
HasAt(s, m, k, n) ==
    /\ \A p \in 1..m : s[p][1] \in 1..k /\ (s[p][1] = k => s[p][2] <= n)
    /\ n > 0 => m > 0 /\ s[m] = <<k, n>>

\* Octets that come behind the others.
LEMMA LineGrows ==
    ASSUME NEW m \in Nat, NEW k \in Nat \ {0}, NEW b \in 0..(CommandSize - 1),
           NEW n \in 0..(CommandSize - b),
           NEW s, NEW u, Extends(s, u, m, k, b, n), HasAt(s, m, k, b), InOrder(s), FromTheFirst(s)
    PROVE  /\ InOrder(u) /\ FromTheFirst(u) /\ HasAt(u, m + n, k, b + n)
           /\ \A j \in 1..(k - 1) : IsWhole(u, j) <=> IsWhole(s, j)
<1>1. /\ CommandSize \in Nat \ {0} /\ b \in Nat /\ b < CommandSize /\ n \in Nat
      /\ b + n <= CommandSize /\ m \in Nat /\ k \in Nat
  BY SerialLineAssumption
<1>2. /\ DOMAIN s = 1..m
      /\ \A p \in 1..m : s[p][1] \in Nat /\ s[p][2] \in 1..CommandSize
  BY DEF Extends
<1>4. /\ DOMAIN u = 1..(m + n)
      /\ \A p \in 1..m : u[p] = s[p]
      /\ \A p \in (m + 1)..(m + n) : u[p] = <<k, b + (p - m)>>
  BY DEF Extends
<1>5. \A p \in 1..m : s[p][1] \in 1..k /\ (s[p][1] = k => s[p][2] <= b)
  BY DEF HasAt
<1>6. b > 0 => m \in 1..m /\ s[m] = <<k, b>> /\ s[m][1] = k /\ s[m][2] = b
  BY <1>1 DEF HasAt
<1>7. \A p \in 1..m : s[p][1] = k => b - s[p][2] = m - p
  <2> SUFFICES ASSUME NEW p \in 1..m, s[p][1] = k PROVE b - s[p][2] = m - p
    OBVIOUS
  <2>0. s[p][2] \in 1..CommandSize /\ s[p][2] <= b
    BY <1>2, <1>5
  <2>1. b > 0 /\ m \in 1..m /\ s[m][1] = k /\ s[m][2] = b
    BY <1>1, <1>6, <2>0
  <2>3. CASE p = m
    BY <1>1, <2>1, <2>3
  <2>4. CASE p < m
    <3>1. s[p][1] < s[m][1] \/ (s[p][1] = s[m][1] /\ s[m][2] - s[p][2] = m - p)
      BY <1>2, <2>1, <2>4 DEF InOrder
    <3> QED
      BY <1>1, <2>1, <3>1
  <2> QED
    BY <1>1, <2>3, <2>4
<1>10. \A p \in (m + 1)..(m + n) :
         u[p][1] = k /\ u[p][2] = b + (p - m) /\ u[p][2] \in (b + 1)..(b + n)
  <2> SUFFICES ASSUME NEW p \in (m + 1)..(m + n)
               PROVE  u[p][1] = k /\ u[p][2] = b + (p - m) /\ u[p][2] \in (b + 1)..(b + n)
    OBVIOUS
  <2>1. u[p] = <<k, b + (p - m)>>
    BY <1>4
  <2>2. u[p][1] = k /\ u[p][2] = b + (p - m)
    BY <2>1
  <2> QED
    BY <1>1, <2>2
<1>11. \A p \in 1..(m + n) : p \in 1..m \/ p \in (m + 1)..(m + n)
  BY <1>1
<1>8. InOrder(u)
  <2> SUFFICES ASSUME NEW p \in 1..(m + n), NEW q \in 1..(m + n), p < q
               PROVE  u[p][1] < u[q][1] \/ (u[p][1] = u[q][1] /\ u[q][2] - u[p][2] = q - p)
    BY <1>4 DEF InOrder
  <2>1. CASE q \in 1..m
    <3>1. p \in 1..m
      BY <1>1, <2>1
    <3>2. s[p][1] < s[q][1] \/ (s[p][1] = s[q][1] /\ s[q][2] - s[p][2] = q - p)
      BY <1>2, <2>1, <3>1 DEF InOrder
    <3> QED
      BY <1>4, <2>1, <3>1, <3>2
  <2>2. CASE q \in (m + 1)..(m + n) /\ p \in 1..m
    <3>1. u[q][1] = k /\ u[q][2] = b + (q - m)
      BY <1>10, <2>2
    <3>2. u[p] = s[p] /\ s[p][1] \in 1..k /\ s[p][2] \in 1..CommandSize
      BY <1>2, <1>4, <1>5, <2>2
    <3>3. CASE s[p][1] = k
      <4>1. b - s[p][2] = m - p
        BY <1>7, <2>2, <3>3
      <4> DEFINE c == s[p][2]
      <4>0. c \in Int /\ b - c = m - p /\ p \in Int /\ q \in Int
        BY <1>1, <3>2, <4>1
      <4> HIDE DEF c
      <4>2. b + (q - m) - c = q - p
        BY <1>1, <4>0
      <4> QED
        BY <3>1, <3>2, <3>3, <4>2 DEF c
    <3>4. CASE s[p][1] # k
      <4>1. s[p][1] < k
        BY <1>1, <3>2, <3>4
      <4> QED
        BY <3>1, <3>2, <4>1
    <3> QED
      BY <3>3, <3>4
  <2>3. CASE q \in (m + 1)..(m + n) /\ p \in (m + 1)..(m + n)
    <3>1. u[q][1] = k /\ u[q][2] = b + (q - m) /\ u[p][1] = k /\ u[p][2] = b + (p - m)
      BY <1>10, <2>3
    <3>2. b + (q - m) - (b + (p - m)) = q - p
      BY <1>1
    <3> QED
      BY <3>1, <3>2
  <2>4. p \in (m + 1)..(m + n) => q \notin 1..m
    BY <1>1
  <2> QED
    BY <1>11, <2>1, <2>2, <2>3, <2>4
<1>9. FromTheFirst(u)
  <2> SUFFICES ASSUME NEW p \in 1..(m + n), NEW i \in 1..u[p][2]
               PROVE  p - u[p][2] + i \in 1..(m + n) /\ u[p - u[p][2] + i] = <<u[p][1], i>>
    BY <1>4 DEF FromTheFirst
  <2>1. CASE p \in 1..m
    <3>1. u[p] = s[p] /\ s[p][2] \in 1..CommandSize
      BY <1>2, <1>4, <2>1
    <3>2. p - s[p][2] + i \in 1..m /\ s[p - s[p][2] + i] = <<s[p][1], i>>
      BY <1>2, <2>1, <3>1 DEF FromTheFirst
    <3>3. p - s[p][2] + i \in 1..(m + n)
      BY <1>1, <3>2
    <3> QED
      BY <1>4, <3>1, <3>2, <3>3
  <2>2. CASE p \in (m + 1)..(m + n)
    <3>1. u[p][1] = k /\ u[p][2] = b + (p - m)
      BY <1>10, <2>2
    <3>2. i \in 1..(b + (p - m)) /\ p - u[p][2] + i = m - b + i
      BY <1>1, <2>2, <3>1
    <3>3. CASE i <= b
      <4>1. b > 0 /\ i \in 1..b
        BY <1>1, <3>2, <3>3
      <4>2. m \in 1..m /\ s[m][1] = k /\ s[m][2] = b
        BY <1>6, <4>1
      <4>3. m - b + i \in 1..m /\ s[m - b + i] = <<k, i>>
        BY <1>2, <4>1, <4>2 DEF FromTheFirst
      <4>4. m - b + i \in 1..(m + n) /\ u[m - b + i] = <<k, i>>
        BY <1>1, <1>4, <4>3
      <4> QED
        BY <3>1, <3>2, <4>4
    <3>4. CASE i > b
      <4>0. i \in Int /\ p \in Int /\ p <= m + n /\ i <= b + (p - m) /\ i > b
        BY <1>1, <2>2, <3>2, <3>4
      <4>1. m - b + i \in (m + 1)..(m + n) /\ b + ((m - b + i) - m) = i
        BY <1>1, <4>0
      <4>2. u[m - b + i] = <<k, b + ((m - b + i) - m)>>
        BY <1>4, <4>1
      <4>3. m - b + i \in 1..(m + n)
        BY <1>1, <4>1
      <4>4. u[m - b + i] = <<k, i>>
        BY <4>1, <4>2
      <4> QED
        BY <3>1, <3>2, <4>3, <4>4
    <3> QED
      BY <1>1, <3>2, <3>3, <3>4
  <2> QED
    BY <1>11, <2>1, <2>2
<1>12. ASSUME NEW p \in 1..(m + n)
       PROVE  u[p][1] \in 1..k /\ (u[p][1] = k => u[p][2] <= b + n)
  <2>1. CASE p \in 1..m
    <3>1. u[p] = s[p] /\ s[p][1] \in 1..k /\ (s[p][1] = k => s[p][2] <= b) /\ s[p][2] \in 1..CommandSize
      BY <1>2, <1>4, <1>5, <2>1
    <3>2. s[p][1] = k => s[p][2] <= b + n
      BY <1>1, <3>1
    <3> QED
      BY <3>1, <3>2
  <2>2. CASE p \in (m + 1)..(m + n)
    <3>1. u[p][1] = k /\ u[p][2] \in (b + 1)..(b + n)
      BY <1>10, <2>2
    <3> QED
      BY <1>1, <3>1
  <2> QED
    BY <1>11, <2>1, <2>2
<1>13. ASSUME b + n > 0
       PROVE  m + n > 0 /\ u[m + n] = <<k, b + n>>
  <2>1. CASE n = 0
    <3>1. b > 0 /\ m + n = m /\ b + n = b
      BY <1>1, <1>13, <2>1
    <3>2. m \in 1..m /\ u[m] = <<k, b>>
      BY <1>4, <1>6, <3>1
    <3> QED
      BY <1>1, <3>1, <3>2
  <2>2. CASE n > 0
    <3>1. m + n \in (m + 1)..(m + n) /\ b + ((m + n) - m) = b + n /\ m + n > 0
      BY <1>1, <2>2
    <3>2. u[m + n] = <<k, b + ((m + n) - m)>>
      BY <1>4, <3>1
    <3> QED
      BY <3>1, <3>2
  <2> QED
    BY <1>1, <2>1, <2>2
<1>14. ASSUME NEW j \in 1..(k - 1)
       PROVE  IsWhole(u, j) <=> IsWhole(s, j)
  <2>1. j # k
    BY <1>1
  <2>2. \A p \in (m + 1)..(m + n) : u[p] # <<j, CommandSize>>
    <3> SUFFICES ASSUME NEW p \in (m + 1)..(m + n), u[p] = <<j, CommandSize>> PROVE FALSE
      OBVIOUS
    <3>1. u[p][1] = j
      OBVIOUS
    <3> QED
      BY <1>10, <2>1, <3>1
  <2>3. \A p \in 1..m : p \in 1..(m + n)
    BY <1>1
  <2> QED
    BY <1>2, <1>4, <1>11, <2>2, <2>3 DEF IsWhole
<1>15. HasAt(u, m + n, k, b + n)
  BY <1>12, <1>13 DEF HasAt
<1> QED
  BY <1>8, <1>9, <1>14, <1>15

LEMMA LengthOf ==
    ASSUME NEW S, NEW n \in Nat, NEW f \in [1..n -> S]
    PROVE  f \in Seq(S) /\ Len(f) = n
<1>1. f \in Seq(S)
  BY SeqDef
<1>2. DOMAIN f = 1..n /\ DOMAIN f = 1..Len(f) /\ Len(f) \in Nat
  BY <1>1
<1> QED
  BY <1>1, <1>2

\* What PutBlock appends.
Lengthened(s, k, b, n) == s \o [i \in 1..n |-> <<k, b + i>>]

\* The line stays in order, with the octets of the command that PutBlock appends.
LEMMA LineAppended ==
    ASSUME NEW s, NEW k \in Nat \ {0}, NEW b \in 0..(CommandSize - 1), IsLine(s, k, b),
           NEW n \in 0..(CommandSize - b)
    PROVE  /\ IsLine(Lengthened(s, k, b, n), k, b + n)
           /\ \A j \in 1..(k - 1) : IsWhole(Lengthened(s, k, b, n), j) <=> IsWhole(s, j)
<1> DEFINE m == Len(s)
           new == [i \in 1..n |-> <<k, b + i>>]
           u == s \o new
<1>1. /\ CommandSize \in Nat \ {0} /\ b \in Nat /\ n \in Nat /\ b + n <= CommandSize /\ m \in Nat
      /\ n \in 0..(CommandSize - b) /\ b \in 0..(CommandSize - 1)
  BY SerialLineAssumption DEF IsLine
<1>0. s \in Seq(Octets) /\ InOrder(s) /\ FromTheFirst(s) /\ Has(s, k, b)
  BY DEF IsLine
<1>2. \A i \in 1..n : <<k, b + i>> \in Octets
  BY <1>1 DEF Octets
<1>3. new \in Seq(Octets) /\ Len(new) = n /\ \A i \in 1..n : new[i] = <<k, b + i>>
  <2>1. new \in [1..n -> Octets] /\ \A i \in 1..n : new[i] = <<k, b + i>>
    BY <1>2
  <2> HIDE DEF new
  <2>2. new \in Seq(Octets) /\ Len(new) = n
    BY <1>1, <2>1, LengthOf
  <2> QED
    BY <2>1, <2>2
<1> HIDE DEF new
<1>4. /\ u \in Seq(Octets) /\ Len(u) = m + n
      /\ \A p \in 1..(m + n) : u[p] = IF p <= m THEN s[p] ELSE new[p - m]
  <2>1. s \in Seq(Octets) /\ new \in Seq(Octets)
    BY <1>0, <1>3
  <2> QED
    BY <1>3, <2>1, ConcatProperties
<1> HIDE DEF u
<1>5. DOMAIN s = 1..m /\ DOMAIN u = 1..(m + n)
  BY <1>0, <1>4
<1>6. \A p \in 1..m : s[p] \in Octets
  BY <1>0
<1>7. \A o \in Octets : o[1] \in Nat /\ o[2] \in 1..CommandSize
  BY DEF Octets
<1>8. \A p \in 1..m : s[p][1] \in Nat /\ s[p][2] \in 1..CommandSize
  BY <1>6, <1>7
<1>9. \A p \in 1..m : u[p] = s[p]
  BY <1>1, <1>4
<1>10. ASSUME NEW p \in (m + 1)..(m + n)
       PROVE  u[p] = <<k, b + (p - m)>>
  <2>1. p \in 1..(m + n) /\ ~(p <= m) /\ p - m \in 1..n
    BY <1>1
  <2> QED
    BY <1>3, <1>4, <2>1
<1>11. Extends(s, u, m, k, b, n)
  BY <1>5, <1>8, <1>9, <1>10 DEF Extends
<1>12. HasAt(s, m, k, b)
  <2>1. s # <<>> => m > 0
    BY <1>0
  <2> QED
    BY <1>0, <1>5, <2>1 DEF Has, HasAt
<1>13. /\ InOrder(u) /\ FromTheFirst(u) /\ HasAt(u, m + n, k, b + n)
       /\ \A j \in 1..(k - 1) : IsWhole(u, j) <=> IsWhole(s, j)
  <2> HIDE DEF m
  <2> QED
    BY <1>0, <1>1, <1>11, <1>12, LineGrows
<1>14. Has(u, k, b + n)
  <2>1. m + n > 0 => u # <<>>
    BY <1>4
  <2> QED
    BY <1>4, <1>5, <1>13, <2>1 DEF Has, HasAt
<1> QED
  BY <1>4, <1>13, <1>14 DEF u, new, IsLine, Lengthened

\* PutBlock returns result r for command k, of which it has written n octets.
LEMMA PutBlockEnds ==
    ASSUME NEW res \in Seq(Results), NEW s, NEW r \in Results, NEW n \in 0..CommandSize,
           Has(s, Len(res) + 1, n), r = "SERIAL_ERR_OK" <=> n = CommandSize,
           \A j \in DOMAIN res : res[j] = "SERIAL_ERR_OK" <=> IsWhole(s, j),
           DOMAIN s \subseteq Nat, \A p \in DOMAIN s : s[p][2] \in Nat,
           s # <<>> => Len(s) \in DOMAIN s
    PROVE  LET new == Append(res, r)
           IN  /\ new \in Seq(Results)
               /\ \A j \in DOMAIN new : new[j] = "SERIAL_ERR_OK" <=> IsWhole(s, j)
               /\ \A p \in DOMAIN s : s[p][1] \in 1..Len(new)
<1> DEFINE new == Append(res, r)
           k == Len(res) + 1
<1>1. CommandSize \in Nat \ {0}
  BY SerialLineAssumption
<1>2. /\ new \in Seq(Results) /\ Len(new) = k /\ k \in Nat
      /\ DOMAIN new = 1..k /\ DOMAIN res = 1..(k - 1)
      /\ \A j \in 1..(k - 1) : new[j] = res[j]
      /\ new[k] = r
  OBVIOUS
<1>3. /\ \A p \in DOMAIN s : s[p][1] \in 1..k
      /\ \A p \in DOMAIN s : s[p][1] = k => s[p][2] <= n
      /\ n > 0 => s # <<>> /\ s[Len(s)] = <<k, n>>
  BY DEF Has
<1> HIDE DEF new, k
<1>4. IsWhole(s, k) <=> n = CommandSize
  <2>1. ASSUME n = CommandSize PROVE IsWhole(s, k)
    <3>1. n > 0
      BY <1>1, <2>1
    <3>2. Len(s) \in DOMAIN s /\ s[Len(s)] = <<k, CommandSize>>
      BY <1>3, <2>1, <3>1
    <3> QED
      BY <3>2 DEF IsWhole
  <2>2. ASSUME IsWhole(s, k) PROVE n = CommandSize
    <3>1. PICK p \in DOMAIN s : s[p] = <<k, CommandSize>>
      BY <2>2 DEF IsWhole
    <3>2. s[p][1] = k /\ s[p][2] = CommandSize
      BY <3>1
    <3>3. CommandSize <= n
      BY <1>3, <3>2
    <3> QED
      BY <1>1, <3>3
  <2> QED
    BY <2>1, <2>2
<1>5. ASSUME NEW j \in DOMAIN new
      PROVE  new[j] = "SERIAL_ERR_OK" <=> IsWhole(s, j)
  <2>1. CASE j = k
    BY <1>2, <1>4, <2>1
  <2>2. CASE j \in 1..(k - 1)
    BY <1>2, <2>2
  <2>3. j = k \/ j \in 1..(k - 1)
    BY <1>2
  <2> QED
    BY <2>1, <2>2, <2>3
<1> QED
  BY <1>2, <1>3, <1>5 DEF new

-----------------------------------------------------------------------------
(* Every step keeps the invariant.                                         *)

LEMMA LineInit == SInit => LineInv
<1> SUFFICES ASSUME SInit PROVE LineInv
  OBVIOUS
<1>1. LineTypes
  <2>1. CommandSize \in Nat \ {0} /\ ClockWord \in Nat \ {0}
    BY SerialLineAssumption
  <2> QED
    BY <2>1 DEF SInit, LineTypes, Events
<1>2. ClockStands /\ TimeoutsAreKept
  BY DEF SInit, ClockStands, TimeoutsAreKept
<1>3. DOMAIN line = {} /\ DOMAIN results = {}
  BY DEF SInit
<1> QED
  BY <1>1, <1>2, <1>3 DEF SInit, LineInv, InOrder, FromTheFirst, UnderWay, WholeIsWritten

LEMMA CallKeeps == LineInv /\ Call => LineInv'
<1> SUFFICES ASSUME LineInv, Call PROVE LineInv'
  OBVIOUS
<1> USE DEF LineInv
<1>0. CommandSize \in Nat \ {0}
  BY SerialLineAssumption
<1>1. PICK time \in 0..(ClockWord - 1) : now' = time /\ due' = Due(time)
  BY DEF Call
<1>2. due' \in 0..(ClockWord - 1) /\ Stands(now', due', 0)
  BY <1>1, CallBegins
<1>3. LineTypes'
  BY <1>0, <1>1, <1>2 DEF Call, LineTypes, Events
<1>4. ClockStands' /\ TimeoutsAreKept'
  <2>1. Stands(now', due', elapsed')
    BY <1>2 DEF Call
  <2> QED
    BY <2>1 DEF Call, ClockStands, TimeoutsAreKept
<1>5. UnderWay'
  <2>1. phase # "write" /\ \A p \in DOMAIN line : line[p][1] \in 1..Len(results)
    BY DEF Call, UnderWay
  <2>2. Len(results) \in Nat
    BY DEF LineTypes
  <2>3. \A p \in DOMAIN line : line[p][1] \in 1..(Len(results) + 1) /\ line[p][1] # Len(results) + 1
    BY <2>1, <2>2
  <2>4. Has(line, Len(results) + 1, 0)
    BY <2>3 DEF Has
  <2> QED
    BY <2>4 DEF Call, UnderWay
<1>6. InOrder(line)' /\ FromTheFirst(line)' /\ WholeIsWritten'
  BY DEF Call, InOrder, FromTheFirst, WholeIsWritten, IsWhole
<1> QED
  BY <1>3, <1>4, <1>5, <1>6

\* What a round of PutBlock that writes n octets leaves on the line.
LEMMA PutRound ==
    ASSUME LineInv, phase = "write", NEW n \in 0..(CommandSize - sent)
    PROVE  LET u == line \o NextOctets(n)
           IN  /\ IsLine(u, Len(results) + 1, sent + n)
               /\ \A j \in DOMAIN results : results[j] = "SERIAL_ERR_OK" <=> IsWhole(u, j)
<1> DEFINE k == Len(results) + 1
           u == Lengthened(line, k, sent, n)
<1>1. k \in Nat \ {0} /\ sent \in 0..(CommandSize - 1) /\ DOMAIN results = 1..(k - 1)
  BY SerialLineAssumption DEF LineInv, LineTypes
<1>2. IsLine(line, k, sent)
  BY DEF LineInv, LineTypes, UnderWay, IsLine
<1>3. line \o NextOctets(n) = u
  BY DEF NextOctets, Lengthened
<1> HIDE DEF k
<1>4. IsLine(u, k, sent + n) /\ \A j \in 1..(k - 1) : IsWhole(u, j) <=> IsWhole(line, j)
  BY <1>1, <1>2, LineAppended
<1> HIDE DEF u
<1>5. \A j \in DOMAIN results : results[j] = "SERIAL_ERR_OK" <=> IsWhole(line, j)
  BY DEF LineInv, WholeIsWritten
<1> QED
  BY <1>1, <1>3, <1>4, <1>5 DEF k

\* PutBlock returns.
LEMMA PutReturns ==
    ASSUME results \in Seq(Results), NEW r \in Results, NEW n \in 0..CommandSize,
           IsLine(line', Len(results) + 1, n),
           r = "SERIAL_ERR_OK" <=> n = CommandSize,
           \A j \in DOMAIN results : results[j] = "SERIAL_ERR_OK" <=> IsWhole(line', j),
           results' = Append(results, r), phase' # "write"
    PROVE  results' \in Seq(Results) /\ WholeIsWritten' /\ UnderWay'
<1>1. /\ DOMAIN line' \subseteq Nat /\ (line' # <<>> => Len(line') \in DOMAIN line')
      /\ \A p \in DOMAIN line' : line'[p] \in Octets
      /\ Has(line', Len(results) + 1, n)
  BY DEF IsLine
<1>2. \A p \in DOMAIN line' : line'[p][2] \in Nat
  <2>1. \A o \in Octets : o[2] \in Nat
    BY DEF Octets
  <2> QED
    BY <1>1, <2>1
<1>3. /\ results' \in Seq(Results)
      /\ \A j \in DOMAIN results' : results'[j] = "SERIAL_ERR_OK" <=> IsWhole(line', j)
      /\ \A p \in DOMAIN line' : line'[p][1] \in 1..Len(results')
  BY <1>1, <1>2, PutBlockEnds
<1> QED
  BY <1>3 DEF WholeIsWritten, UnderWay, IsWhole

\* A round that looks at the time goes on only before the deadline, or when the difference
\* has changed its sign.
LEMMA Checked ==
    ASSUME LineInv, phase # "idle", TimePasses, CheckTime, due' = due
    PROVE  /\ now' \in 0..(ClockWord - 1) /\ elapsed' \in Nat /\ ClockStands'
           /\ phase' \in {"idle", phase} /\ returned' \in {"rtn"} \cup Results
           /\ Past(now') <=> phase' = "idle"
           /\ phase' = "idle" /\ returned' = "SERIAL_ERR_TIMEOUT" => elapsed' >= Patience
           /\ phase' # "idle" => elapsed' \notin Patience..(Patience + TestBit - 1)
<1>1. LineTypes /\ ClockStands
  BY DEF LineInv
<1>2. /\ now' \in 0..(ClockWord - 1) /\ elapsed' \in Nat
      /\ Stands(now', due, elapsed')
  BY <1>1, TimeMoves
<1>3. due \in 0..(ClockWord - 1)
  BY <1>1 DEF LineTypes
<1>4. /\ elapsed' < Patience => ~Past(now')
      /\ elapsed' \in Patience..(Patience + TestBit - 1) => Past(now')
  BY <1>2, <1>3, PastTells
<1>5. Patience \in Nat
  BY SerialLineAssumption
<1>6. ClockStands'
  BY <1>2 DEF ClockStands, Stands
<1>7. CASE Past(now')
  <2>1. phase' = "idle" /\ returned' = "SERIAL_ERR_TIMEOUT"
    BY <1>7 DEF CheckTime, Returns
  <2>2. elapsed' >= Patience
    BY <1>2, <1>4, <1>5, <1>7
  <2> QED
    BY <1>2, <1>6, <1>7, <2>1, <2>2 DEF Results
<1>8. CASE ~Past(now')
  <2>1. phase' = phase /\ returned' = returned
    BY <1>8 DEF CheckTime
  <2> QED
    BY <1>1, <1>2, <1>4, <1>6, <1>8, <2>1 DEF LineTypes
<1> QED
  BY <1>7, <1>8

LEMMA WritePartKeeps == LineInv /\ WritePart => LineInv'
<1> SUFFICES ASSUME LineInv, WritePart PROVE LineInv'
  OBVIOUS
<1>0. phase = "write" /\ TimePasses /\ CheckTime /\ due' = due
  BY DEF WritePart
<1>1. PICK n \in 0..(CommandSize - sent - 1) :
        line' = line \o NextOctets(n) /\ sent' = sent + n /\ event' \in {"none", "some"}
  BY DEF WritePart
<1>2. /\ CommandSize \in Nat \ {0} /\ sent \in Nat /\ sent < CommandSize
      /\ n \in 0..(CommandSize - sent) /\ sent + n \in 0..(CommandSize - 1)
      /\ results \in Seq(Results) /\ due \in 0..(ClockWord - 1)
  BY SerialLineAssumption DEF LineInv, LineTypes
<1>3. /\ IsLine(line', Len(results) + 1, sent + n)
      /\ \A j \in DOMAIN results : results[j] = "SERIAL_ERR_OK" <=> IsWhole(line', j)
  <2>1. /\ IsLine(line \o NextOctets(n), Len(results) + 1, sent + n)
        /\ \A j \in DOMAIN results :
             results[j] = "SERIAL_ERR_OK" <=> IsWhole(line \o NextOctets(n), j)
    BY <1>0, <1>2, PutRound
  <2> QED
    BY <1>1, <2>1
<1>4. /\ now' \in 0..(ClockWord - 1) /\ elapsed' \in Nat /\ ClockStands'
      /\ phase' \in {"idle", "write"} /\ returned' \in {"rtn"} \cup Results
      /\ Past(now') <=> phase' = "idle"
      /\ phase' = "idle" /\ returned' = "SERIAL_ERR_TIMEOUT" => elapsed' >= Patience
      /\ phase' # "idle" => elapsed' \notin Patience..(Patience + TestBit - 1)
  BY <1>0, Checked
<1>5. line' \in Seq(Octets) /\ InOrder(line)' /\ FromTheFirst(line)'
  BY <1>3 DEF IsLine, InOrder, FromTheFirst
<1>6. results' \in Seq(Results) /\ WholeIsWritten' /\ UnderWay'
  <2>1. CASE phase' = "idle"
    <3>1. results' = Append(results, "SERIAL_ERR_TIMEOUT")
      BY <1>4, <2>1 DEF WritePart
    <3>2. "SERIAL_ERR_TIMEOUT" \in Results /\ sent + n # CommandSize /\ sent + n \in 0..CommandSize
      BY <1>2 DEF Results
    <3> QED
      BY <1>2, <1>3, <2>1, <3>1, <3>2, PutReturns
  <2>2. CASE phase' = "write"
    <3>1. results' = results
      BY <1>4, <2>2 DEF WritePart
    <3>2. UnderWay'
      BY <1>1, <1>3, <2>2, <3>1 DEF UnderWay, IsLine, Has
    <3> QED
      BY <1>2, <1>3, <3>1, <3>2 DEF WholeIsWritten, IsWhole
  <2> QED
    BY <1>4, <2>1, <2>2
<1>7. LineTypes'
  BY <1>0, <1>1, <1>2, <1>4, <1>5, <1>6 DEF LineTypes, Events
<1>8. TimeoutsAreKept'
  BY <1>4 DEF TimeoutsAreKept
<1> QED
  BY <1>4, <1>5, <1>6, <1>7, <1>8 DEF LineInv

LEMMA WriteRestKeeps == LineInv /\ WriteRest => LineInv'
<1> SUFFICES ASSUME LineInv, WriteRest PROVE LineInv'
  OBVIOUS
<1>0. /\ phase = "write" /\ TimePasses /\ due' = due /\ phase' = "read" /\ event' = "last"
      /\ returned' = returned /\ sent' = CommandSize
  BY DEF WriteRest, ReadingIsDue
<1> DEFINE n == CommandSize - sent
<1>1. line' = line \o NextOctets(n) /\ results' = Append(results, "SERIAL_ERR_OK")
  BY DEF WriteRest
<1>2. /\ CommandSize \in Nat \ {0} /\ sent \in Nat /\ sent < CommandSize
      /\ n \in 0..(CommandSize - sent) /\ sent + n = CommandSize
      /\ results \in Seq(Results) /\ due \in 0..(ClockWord - 1)
  <2>1. sent \in Nat /\ sent < CommandSize /\ CommandSize \in Nat \ {0}
    BY <1>0, SerialLineAssumption DEF LineInv, LineTypes
  <2>2. results \in Seq(Results) /\ due \in 0..(ClockWord - 1)
    BY DEF LineInv, LineTypes
  <2>3. n \in 0..(CommandSize - sent) /\ sent + n = CommandSize
    BY <2>1
  <2> QED
    BY <2>1, <2>2, <2>3
<1> HIDE DEF n
<1>3. /\ IsLine(line', Len(results) + 1, CommandSize)
      /\ \A j \in DOMAIN results : results[j] = "SERIAL_ERR_OK" <=> IsWhole(line', j)
  <2>1. /\ IsLine(line \o NextOctets(n), Len(results) + 1, sent + n)
        /\ \A j \in DOMAIN results :
             results[j] = "SERIAL_ERR_OK" <=> IsWhole(line \o NextOctets(n), j)
    BY <1>0, <1>2, PutRound
  <2> QED
    BY <1>1, <1>2, <2>1
<1>4. now' \in 0..(ClockWord - 1) /\ elapsed' \in Nat /\ Stands(now', due, elapsed')
  BY <1>0, TimeMoves DEF LineInv
<1>5. line' \in Seq(Octets) /\ InOrder(line)' /\ FromTheFirst(line)'
  BY <1>3 DEF IsLine, InOrder, FromTheFirst
<1>6. results' \in Seq(Results) /\ WholeIsWritten' /\ UnderWay'
  <2>1. "SERIAL_ERR_OK" \in Results /\ CommandSize \in 0..CommandSize /\ phase' # "write"
    BY <1>0, <1>2 DEF Results
  <2> QED
    BY <1>1, <1>2, <1>3, <2>1, PutReturns
<1>7. LineTypes'
  BY <1>0, <1>2, <1>4, <1>5, <1>6 DEF LineInv, LineTypes, Events
<1>8. TimeoutsAreKept' /\ ClockStands'
  BY <1>0, <1>4 DEF TimeoutsAreKept, ClockStands
<1> QED
  BY <1>5, <1>6, <1>7, <1>8 DEF LineInv

LEMMA WriteFailsKeeps == LineInv /\ WriteFails => LineInv'
<1> SUFFICES ASSUME LineInv, WriteFails PROVE LineInv'
  OBVIOUS
<1>0. /\ phase = "write" /\ TimePasses /\ due' = due /\ phase' = "idle" /\ event' = "error"
      /\ returned' = "SERIAL_ERR_GENERAL" /\ sent' = sent /\ line' = line
      /\ results' = Append(results, "SERIAL_ERR_GENERAL")
  BY DEF WriteFails, Returns
<1>1. LineTypes /\ ClockStands /\ InOrder(line) /\ FromTheFirst(line) /\ UnderWay /\ WholeIsWritten
  BY DEF LineInv
<1>2. now' \in 0..(ClockWord - 1) /\ elapsed' \in Nat
  BY <1>0, <1>1, TimeMoves
<1>3. results' \in Seq(Results) /\ WholeIsWritten' /\ UnderWay'
  <2>1. IsLine(line', Len(results) + 1, sent)
    BY <1>0, <1>1 DEF LineTypes, UnderWay, IsLine
  <2>2. \A j \in DOMAIN results : results[j] = "SERIAL_ERR_OK" <=> IsWhole(line', j)
    BY <1>0, <1>1 DEF WholeIsWritten
  <2>3. /\ "SERIAL_ERR_GENERAL" \in Results /\ sent \in 0..CommandSize /\ sent # CommandSize
        /\ results \in Seq(Results) /\ phase' # "write"
    BY <1>0, <1>1, SerialLineAssumption DEF LineTypes, Results
  <2> QED
    BY <1>0, <2>1, <2>2, <2>3, PutReturns
<1>4. LineTypes'
  BY <1>0, <1>1, <1>2, <1>3 DEF LineTypes, Events, Results
<1>5. TimeoutsAreKept' /\ ClockStands'
  BY <1>0 DEF TimeoutsAreKept, ClockStands
<1> QED
  BY <1>0, <1>1, <1>3, <1>4, <1>5 DEF LineInv, InOrder, FromTheFirst

\* GetChar leaves what has been written alone.
LEMMA ReadKeeps ==
    ASSUME LineInv, phase = "read", phase' # "write", UNCHANGED <<due, sent, line, results>>,
           now' \in 0..(ClockWord - 1), elapsed' \in Nat, event' \in Events,
           phase' \in {"idle", "read"}, returned' \in {"rtn"} \cup Results,
           ClockStands', TimeoutsAreKept'
    PROVE  LineInv'
<1>1. LineTypes /\ InOrder(line) /\ FromTheFirst(line) /\ UnderWay /\ WholeIsWritten
  BY DEF LineInv
<1>2. LineTypes'
  BY <1>1 DEF LineTypes
<1>3. UnderWay'
  BY <1>1 DEF UnderWay
<1> QED
  BY <1>1, <1>2, <1>3 DEF LineInv, InOrder, FromTheFirst, WholeIsWritten, IsWhole

LEMMA ReadCharKeeps == LineInv /\ ReadChar => LineInv'
<1> SUFFICES ASSUME LineInv, ReadChar PROVE LineInv'
  OBVIOUS
<1>0. phase = "read" /\ TimePasses /\ UNCHANGED <<due, sent, line, results>>
  BY DEF ReadChar
<1>1. LineTypes /\ ClockStands
  BY DEF LineInv
<1>2. now' \in 0..(ClockWord - 1) /\ elapsed' \in Nat /\ Stands(now', due, elapsed')
  BY <1>0, <1>1, TimeMoves
<1>3. \/ event' = "some" /\ phase' = "read" /\ returned' = returned
      \/ event' = "last" /\ phase' = "idle" /\ returned' = "rtn"
  BY <1>0 DEF ReadChar, Returns
<1>4. ClockStands' /\ TimeoutsAreKept'
  BY <1>0, <1>2, <1>3 DEF ClockStands, TimeoutsAreKept
<1>5. returned' \in {"rtn"} \cup Results /\ event' \in Events
  BY <1>1, <1>3 DEF LineTypes, Events
<1> QED
  BY <1>0, <1>2, <1>3, <1>4, <1>5, ReadKeeps

LEMMA ReadNothingKeeps == LineInv /\ ReadNothing => LineInv'
<1> SUFFICES ASSUME LineInv, ReadNothing PROVE LineInv'
  OBVIOUS
<1>0. /\ phase = "read" /\ TimePasses /\ CheckTime /\ event' = "none"
      /\ UNCHANGED <<due, sent, line, results>>
  BY DEF ReadNothing
<1>1. /\ now' \in 0..(ClockWord - 1) /\ elapsed' \in Nat /\ ClockStands'
      /\ phase' \in {"idle", "read"} /\ returned' \in {"rtn"} \cup Results
      /\ phase' = "idle" /\ returned' = "SERIAL_ERR_TIMEOUT" => elapsed' >= Patience
      /\ phase' # "idle" => elapsed' \notin Patience..(Patience + TestBit - 1)
  BY <1>0, Checked
<1>2. TimeoutsAreKept'
  BY <1>1 DEF TimeoutsAreKept
<1> QED
  BY <1>0, <1>1, <1>2, ReadKeeps DEF Events

LEMMA ReadFailsKeeps == LineInv /\ ReadFails => LineInv'
<1> SUFFICES ASSUME LineInv, ReadFails PROVE LineInv'
  OBVIOUS
<1>0. /\ phase = "read" /\ TimePasses /\ event' = "error" /\ UNCHANGED <<due, sent, line, results>>
      /\ phase' = "idle" /\ returned' = "SERIAL_ERR_GENERAL"
  BY DEF ReadFails, Returns
<1>1. now' \in 0..(ClockWord - 1) /\ elapsed' \in Nat
  BY <1>0, TimeMoves DEF LineInv
<1>2. ClockStands' /\ TimeoutsAreKept'
  BY <1>0 DEF ClockStands, TimeoutsAreKept
<1> QED
  BY <1>0, <1>1, <1>2, ReadKeeps DEF Events, Results

LEMMA LineStutters == LineInv /\ UNCHANGED lineVars => LineInv'
  BY DEF LineInv, lineVars, LineTypes, ClockStands, TimeoutsAreKept, InOrder, FromTheFirst,
         UnderWay, Has, WholeIsWritten, IsWhole

\* The clock, the octets on the line and what PutBlock has returned fit together.
THEOREM LineInvariance == SSpec => []LineInv
<1>1. LineInv /\ [SNext]_lineVars => LineInv'
  BY CallKeeps, WritePartKeeps, WriteRestKeeps, WriteFailsKeeps, ReadCharKeeps,
     ReadNothingKeeps, ReadFailsKeeps, LineStutters DEF SNext
<1> QED
  BY LineInit, <1>1, PTL DEF SSpec

\* For a clock of any width, from any start, with any timeout below the tested bit,
\* SendExpect gives up only after the whole timeout and waits longer only for a modem
\* that has just been heard.
THEOREM TimeoutsCorrect == SSpec => []TimeoutsAreKept
<1>1. LineInv => TimeoutsAreKept
  BY DEF LineInv
<1> QED
  BY LineInvariance, <1>1, PTL

-----------------------------------------------------------------------------
(* What the modem executes.                                                *)

LEMMA LineSays == LineInv => CommandsArriveUnlessCut
<1> SUFFICES ASSUME LineInv PROVE CommandsArriveUnlessCut
  OBVIOUS
<1> DEFINE whole == {k \in DOMAIN results : results[k] = "SERIAL_ERR_OK"}
           m == Len(line)
<1>1. CommandSize \in Nat \ {0} /\ DOMAIN line = 1..m /\ m \in Nat /\ Len(results) \in Nat
  BY SerialLineAssumption DEF LineInv, LineTypes
<1>2. \A p \in DOMAIN line : /\ line[p] = <<line[p][1], line[p][2]>>
                             /\ line[p][1] \in Nat /\ line[p][2] \in 1..CommandSize
  <2>1. \A o \in Octets : o = <<o[1], o[2]>> /\ o[1] \in Nat /\ o[2] \in 1..CommandSize
    BY DEF Octets
  <2>2. \A p \in DOMAIN line : line[p] \in Octets
    BY DEF LineInv, LineTypes
  <2> QED
    BY <2>1, <2>2
<1>3. /\ \A p, q \in DOMAIN line : p < q =>
             line[p][1] < line[q][1] \/ (line[p][1] = line[q][1] /\ line[q][2] - line[p][2] = q - p)
      /\ \A p \in DOMAIN line : \A i \in 1..line[p][2] :
             p - line[p][2] + i \in DOMAIN line /\ line[p - line[p][2] + i] = <<line[p][1], i>>
  BY DEF LineInv, InOrder, FromTheFirst
<1>4. \A k \in DOMAIN results : k \in whole <=> \E e \in LineEnds : line[e][1] = k
  <2> SUFFICES ASSUME NEW k \in DOMAIN results
               PROVE  k \in whole <=> \E e \in LineEnds : line[e][1] = k
    OBVIOUS
  <2>1. k \in whole <=> \E p \in DOMAIN line : line[p] = <<k, CommandSize>>
    BY DEF LineInv, WholeIsWritten, IsWhole
  <2>2. \A p \in DOMAIN line : line[p] = <<k, CommandSize>> <=> (line[p][1] = k /\ p \in LineEnds)
    BY <1>2 DEF LineEnds
  <2> QED
    BY <2>1, <2>2 DEF LineEnds
<1>5. \A e \in LineEnds : line[e][1] \in DOMAIN results
  <2> SUFFICES ASSUME NEW e \in DOMAIN line, line[e][2] = CommandSize
               PROVE  line[e][1] \in DOMAIN results
    BY DEF LineEnds
  <2>1. DOMAIN results = 1..Len(results)
    BY DEF LineInv, LineTypes
  <2>2. CASE phase = "write"
    <3>1. /\ line[e][1] \in 1..(Len(results) + 1)
          /\ line[e][1] = Len(results) + 1 => line[e][2] <= sent
      BY <2>2 DEF LineInv, UnderWay, Has
    <3>2. sent < CommandSize /\ sent \in Nat
      BY <1>1, <2>2 DEF LineInv, LineTypes
    <3>3. line[e][1] # Len(results) + 1
      BY <1>1, <3>1, <3>2
    <3> QED
      BY <1>1, <2>1, <3>1, <3>3
  <2>3. CASE phase # "write"
    BY <2>1, <2>3 DEF LineInv, UnderWay
  <2> QED
    BY <2>2, <2>3
<1>6. \A e \in LineEnds : e \in DOMAIN line /\ line[e][2] = CommandSize
  BY DEF LineEnds
<1> HIDE DEF m, whole
<1>7. {line[e][1] : e \in LineEnds} = whole
  BY <1>4, <1>5 DEF whole
<1>8. \A d, e \in LineEnds : line[d][1] = line[e][1] => d = e
  <2> SUFFICES ASSUME NEW d \in LineEnds, NEW e \in LineEnds, line[d][1] = line[e][1], d < e
               PROVE  FALSE
    BY <1>1, <1>6
  <2>1. line[d][1] < line[e][1] \/ line[e][2] - line[d][2] = e - d
    BY <1>3, <1>6
  <2>2. line[d][2] = CommandSize /\ line[e][2] = CommandSize /\ line[e][1] \in Nat /\ d \in Int /\ e \in Int
    BY <1>1, <1>2, <1>6
  <2> QED
    BY <1>1, <2>1, <2>2
<1>9. ASSUME NEW e \in LineEnds, NEW i \in 1..CommandSize
      PROVE  /\ e - CommandSize + i \in DOMAIN line
             /\ line[e - CommandSize + i] = <<line[e][1], i>>
  BY <1>3, <1>6
<1>10. ASSUME NEW e \in LineEnds, NEW p \in 1..(e - CommandSize), IsInLine(p, e)
       PROVE  line[p][1] < line[e][1] /\ whole \cap (line[p][1]..(line[e][1] - 1)) = {}
  <2>1. /\ e \in 1..m /\ p \in 1..m /\ p < e /\ e - p >= CommandSize
        /\ p \in DOMAIN line /\ e \in DOMAIN line
    BY <1>1, <1>6
  <2>2. /\ line[p][2] \in 1..CommandSize /\ line[e][2] = CommandSize
        /\ line[p][1] \in Nat /\ line[e][1] \in Nat
    BY <1>2, <1>6, <2>1
  <2>3. line[p][1] < line[e][1] \/ line[e][2] - line[p][2] = e - p
    BY <1>3, <2>1
  <2>4. line[p][1] < line[e][1]
    BY <1>1, <2>1, <2>2, <2>3
  <2>5. SUFFICES ASSUME NEW j \in whole, line[p][1] <= j, j < line[e][1] PROVE FALSE
    BY <2>2, <2>4
  <2>6. PICK r \in LineEnds : line[r][1] = j
    BY <1>7
  <2>7. r \in 1..m /\ r \in DOMAIN line /\ line[r][2] = CommandSize /\ line[r][1] \in Nat
    BY <1>1, <1>2, <1>6
  <2>8. ~(r < p)
    <3> SUFFICES ASSUME r < p PROVE FALSE
      OBVIOUS
    <3>1. line[r][1] < line[p][1] \/ line[p][2] - line[r][2] = p - r
      BY <1>3, <2>1, <2>7
    <3> QED
      BY <1>1, <2>1, <2>2, <2>5, <2>6, <2>7, <3>1
  <2>9. r < e
    <3>1. r = e => j = line[e][1]
      BY <2>6
    <3>2. e < r => line[e][1] <= line[r][1]
      BY <1>3, <2>1, <2>2, <2>7
    <3> QED
      BY <2>1, <2>2, <2>5, <2>6, <2>7, <3>1, <3>2
  <2>10. r \in p..(e - 1)
    BY <2>1, <2>7, <2>8, <2>9
  <2> QED
    BY <1>10, <2>6, <2>10 DEF IsInLine
<1> QED
  BY <1>7, <1>8, <1>9, <1>10 DEF CommandsArriveUnlessCut, whole

\* However PutBlock's writes are cut, the modem executes the commands that PutBlock
\* reports as written, each once and whole, and behind a cut one spoils only the next.
THEOREM CommandsCorrect == SSpec => []CommandsArriveUnlessCut
  BY LineInvariance, LineSays, PTL

-----------------------------------------------------------------------------
(* The inductive invariant of the answers.                                 *)

MatcherTypes ==
    /\ cnttable \in [DOMAIN Samples -> Nat] /\ rtn \in {0} \cup DOMAIN Samples
    /\ text \in Seq(Characters)

\* What a counter has counted is received, and it is full where its sample is reported.
CountsAreReceived ==
    /\ \A i \in DOMAIN Samples :
        cnttable[i] <= Len(Samples[i]) /\ EndsWith(Samples[i], cnttable[i])
    /\ rtn = 0 => \A i \in DOMAIN Samples : cnttable[i] < Len(Samples[i])
    /\ rtn > 0 => cnttable[rtn] = Len(Samples[rtn])

\* The text ends with the first n characters of a line, and they are those of sample s.
OnALine(s, n) == EndsWith(s, n) /\ (Len(text) > n => text[Len(text) - n] = LineFeed)

\* The beginning of a sample that stands on a line is counted.
LinesAreCounted ==
    \A i \in DOMAIN Samples : \A n \in 0..Len(Samples[i]) :
        OnALine(Samples[i], n) => cnttable[i] = n

MatcherInv == MatcherTypes /\ CountsAreReceived /\ LinesAreCounted

\* The samples are words of at least one character, none of which is a line feed.
LEMMA SampleFacts ==
    ASSUME NEW i \in DOMAIN Samples
    PROVE  /\ Len(Samples[i]) \in Nat \ {0}
           /\ \A k \in 1..Len(Samples[i]) : Samples[i][k] # LineFeed
<1>1. Samples[i] \in Seq(Characters) \ {<<>>}
  BY SamplesAssumption
<1>2. Len(Samples[i]) \in Nat \ {0} /\ DOMAIN Samples[i] = 1..Len(Samples[i])
  BY <1>1
<1> QED
  BY <1>2, SamplesAssumption

\* Before anything is received, nothing is counted.
LEMMA NothingReceived == MInit => MatcherInv
<1> SUFFICES ASSUME cnttable = Unmatched, rtn = 0, text = <<>> PROVE MatcherInv
  BY DEF MInit
<1>1. MatcherTypes
  BY DEF MatcherTypes, Unmatched
<1>2. ASSUME NEW i \in DOMAIN Samples
      PROVE  cnttable[i] = 0 /\ cnttable[i] < Len(Samples[i]) /\ EndsWith(Samples[i], 0)
  BY SampleFacts DEF Unmatched, EndsWith
<1>3. CountsAreReceived
  <2>1. ASSUME NEW i \in DOMAIN Samples
        PROVE  cnttable[i] <= Len(Samples[i])
    <3>1. Len(Samples[i]) \in Nat /\ cnttable[i] = 0
      BY <1>2, SampleFacts
    <3> QED
      BY <3>1
  <2>2. \A i \in DOMAIN Samples : EndsWith(Samples[i], cnttable[i])
    BY <1>2
  <2> QED
    BY <1>2, <2>1, <2>2 DEF CountsAreReceived
<1>4. LinesAreCounted
  BY <1>2, SampleFacts DEF LinesAreCounted, OnALine, EndsWith
<1> QED
  BY <1>1, <1>3, <1>4 DEF MatcherInv

\* What a text of a known length ends with.
LEMMA EndsThen ==
    ASSUME CONSTANT s, CONSTANT n \in Nat, CONSTANT l \in Nat, Len(text') = l + 1
    PROVE  EndsWith(s, n + 1)' <=>
             n + 1 <= l + 1 /\ \A k \in 1..(n + 1) : text'[l + 1 - (n + 1) + k] = s[k]
BY DEF EndsWith

\* One character more: what the text ends with then, it ended with before.
LEMMA OneMore ==
    ASSUME MatcherTypes, NEW chr \in Characters, text' = Append(text, chr),
           CONSTANT s, CONSTANT n \in Nat
    PROVE  /\ EndsWith(s, n + 1)' <=> EndsWith(s, n) /\ s[n + 1] = chr
           /\ OnALine(s, n + 1)' => OnALine(s, n) /\ s[n + 1] = chr
           /\ OnALine(s, 0)' => chr = LineFeed
<1> DEFINE L == Len(text)
<1>1. /\ L \in Nat /\ Len(text') = L + 1 /\ text'[L + 1] = chr
      /\ \A p \in 1..L : text'[p] = text[p]
  BY DEF MatcherTypes
<1> HIDE DEF L
<1>2. EndsWith(s, n)  <=> n <= L /\ \A k \in 1..n : text[L - n + k] = s[k]
  BY DEF EndsWith, L
<1>3. EndsWith(s, n + 1)' <=>
        n + 1 <= L + 1 /\ \A k \in 1..(n + 1) : text'[L + 1 - (n + 1) + k] = s[k]
  BY <1>1, EndsThen
<1>4. \A k \in 1..n : n <= L => text'[L + 1 - (n + 1) + k] = text[L - n + k]
  BY <1>1
<1>5. n <= L => text'[L + 1 - (n + 1) + (n + 1)] = chr
  BY <1>1
<1>6. EndsWith(s, n + 1)' <=> EndsWith(s, n) /\ s[n + 1] = chr
  <2>1. 1..(n + 1) = 1..n \cup {n + 1}
    OBVIOUS
  <2>2. EndsWith(s, n + 1)' <=> /\ n <= L
                                /\ \A k \in 1..n : text'[L + 1 - (n + 1) + k] = s[k]
                                /\ text'[L + 1 - (n + 1) + (n + 1)] = s[n + 1]
    <3>1. n + 1 <= L + 1 <=> n <= L
      BY <1>1
    <3> QED
      BY <1>3, <2>1, <3>1, Zenon
  <2> QED
    BY <1>2, <1>4, <1>5, <2>2
<1>7. OnALine(s, n + 1)' => OnALine(s, n) /\ s[n + 1] = chr
  <2> SUFFICES ASSUME OnALine(s, n + 1)' PROVE OnALine(s, n) /\ s[n + 1] = chr
    OBVIOUS
  <2>1. EndsWith(s, n) /\ s[n + 1] = chr
    BY <1>6 DEF OnALine
  <2>2. L > n => text'[L + 1 - (n + 1)] = LineFeed
    BY <1>1 DEF OnALine
  <2>3. L > n => text'[L + 1 - (n + 1)] = text[L - n]
    BY <1>1
  <2> QED
    BY <2>1, <2>2, <2>3 DEF OnALine, L
<1>8. OnALine(s, 0)' => chr = LineFeed
  BY <1>1 DEF OnALine
<1> QED
  BY <1>6, <1>7, <1>8

\* A character received keeps the invariant.
LEMMA ReceiveKeeps ==
    ASSUME MatcherInv, NEW chr \in Characters, Receive(chr)
    PROVE  MatcherInv'
<1>0. MatcherTypes /\ CountsAreReceived /\ LinesAreCounted
  BY DEF MatcherInv
<1>1. /\ rtn = 0 /\ text' = Append(text, chr)
      /\ cnttable' = [i \in DOMAIN Samples |-> Counter(i, cnttable[i], chr)]
      /\ \/ Full(cnttable') = {} /\ rtn' = 0
         \/ rtn' \in Full(cnttable')
  BY DEF Receive
<1>2. ASSUME NEW i \in DOMAIN Samples
      PROVE  /\ cnttable[i] \in Nat /\ cnttable[i] < Len(Samples[i])
             /\ Len(Samples[i]) \in Nat \ {0}
             /\ cnttable'[i] = IF chr = Samples[i][cnttable[i] + 1] THEN cnttable[i] + 1 ELSE 0
             /\ EndsWith(Samples[i], cnttable[i])
  BY <1>0, <1>1, SampleFacts DEF MatcherTypes, CountsAreReceived, Counter
<1>3. MatcherTypes'
  <2>1. cnttable' \in [DOMAIN Samples -> Nat]
    <3>1. \A i \in DOMAIN Samples : Counter(i, cnttable[i], chr) \in Nat
      BY <1>2 DEF Counter
    <3> QED
      BY <1>1, <3>1
  <2>2. rtn' \in {0} \cup DOMAIN Samples
    BY <1>1 DEF Full
  <2>3. text' \in Seq(Characters)
    BY <1>0, <1>1 DEF MatcherTypes
  <2> QED
    BY <2>1, <2>2, <2>3 DEF MatcherTypes
<1>4. ASSUME NEW i \in DOMAIN Samples
      PROVE  cnttable'[i] <= Len(Samples[i]) /\ EndsWith(Samples[i], cnttable[i])'
  <2>1. CASE chr = Samples[i][cnttable[i] + 1]
    <3>0. PICK n \in Nat : n = cnttable[i]
      BY <1>2
    <3>1. n + 1 <= Len(Samples[i]) /\ cnttable'[i] = n + 1 /\ Samples[i][n + 1] = chr
      BY <1>2, <2>1, <3>0
    <3>2. EndsWith(Samples[i], n)
      BY <1>2, <3>0
    <3>3. EndsWith(Samples[i], n + 1)'
      BY <1>0, <1>1, <3>1, <3>2, OneMore
    <3>4. EndsWith(Samples[i], cnttable[i])'
      BY <3>1, <3>3, Zenon DEF EndsWith
    <3> QED
      BY <3>1, <3>4
  <2>2. CASE chr # Samples[i][cnttable[i] + 1]
    <3>1. cnttable'[i] = 0
      BY <1>2, <2>2
    <3>2. Len(text') \in Nat
      BY <1>3 DEF MatcherTypes
    <3> QED
      BY <1>2, <3>1, <3>2 DEF EndsWith
  <2> QED
    BY <2>1, <2>2
<1>5. CountsAreReceived'
  <2>1. rtn' = 0 => \A i \in DOMAIN Samples : cnttable'[i] < Len(Samples[i])
    <3>0. 0 \notin DOMAIN Samples
      BY SamplesAssumption
    <3>1. rtn' = 0 => Full(cnttable') = {}
      BY <1>1, <3>0 DEF Full
    <3>2. ASSUME NEW i \in DOMAIN Samples PROVE cnttable'[i] \in Nat
      BY <1>3 DEF MatcherTypes
    <3>3. ASSUME rtn' = 0, NEW i \in DOMAIN Samples PROVE cnttable'[i] < Len(Samples[i])
      <4>1. cnttable'[i] # Len(Samples[i])
        BY <3>1, <3>3 DEF Full
      <4>2. cnttable'[i] <= Len(Samples[i])
        BY <1>4
      <4> QED
        BY <4>1, <4>2, <3>2, <1>2
    <3> QED
      BY <3>3
  <2>2. rtn' > 0 => cnttable'[rtn'] = Len(Samples[rtn'])
    BY <1>1 DEF Full
  <2> QED
    BY <1>4, <2>1, <2>2 DEF CountsAreReceived
<1>6. LinesAreCounted'
  <2> SUFFICES ASSUME NEW i \in DOMAIN Samples, NEW n \in 0..Len(Samples[i]),
                      OnALine(Samples[i], n)'
               PROVE  cnttable'[i] = n
    BY DEF LinesAreCounted
  <2>1. CASE n = 0
    <3>1. chr = LineFeed
      <4>1. OnALine(Samples[i], 0)'
        BY <2>1
      <4> QED
        BY <1>0, <1>1, <4>1, OneMore
    <3>2. cnttable[i] + 1 \in 1..Len(Samples[i])
      BY <1>2
    <3>3. Samples[i][cnttable[i] + 1] # LineFeed
      BY <3>2, SampleFacts
    <3> QED
      BY <1>2, <2>1, <3>1, <3>3
  <2>2. CASE n > 0
    <3> DEFINE m == n - 1
    <3>1. m \in Nat /\ m + 1 = n /\ m \in 0..Len(Samples[i])
      BY <1>2, <2>2
    <3> HIDE DEF m
    <3>2. OnALine(Samples[i], m + 1)'
      BY <3>1
    <3>3. OnALine(Samples[i], m) /\ Samples[i][m + 1] = chr
      BY <1>0, <1>1, <3>1, <3>2, OneMore
    <3>4. cnttable[i] = m
      BY <1>0, <3>1, <3>3 DEF LinesAreCounted
    <3> QED
      BY <1>2, <3>1, <3>3, <3>4
  <2> QED
    BY <2>1, <2>2
<1> QED
  BY <1>3, <1>5, <1>6 DEF MatcherInv

\* The counters of SendExpect's matcher say what the text ends with, and never miss
\* the beginning of a line.
THEOREM MatcherInvariance == MSpec => []MatcherInv
<1>1. MInit => MatcherInv
  BY NothingReceived DEF MInit
<1>2. MatcherInv /\ [MNext]_matcherVars => MatcherInv'
  <2> SUFFICES ASSUME MatcherInv, [MNext]_matcherVars PROVE MatcherInv'
    OBVIOUS
  <2>1. CASE CallAnew
    <3>1. cnttable' = Unmatched /\ rtn' = 0 /\ text' = <<>>
      BY <2>1 DEF CallAnew
    <3>2. MInit' => MatcherInv'
      BY NothingReceived, PTL
    <3> QED
      BY <3>1, <3>2 DEF MInit, Unmatched
  <2>2. ASSUME NEW chr \in Characters, Receive(chr) PROVE MatcherInv'
    BY <2>2, ReceiveKeeps
  <2>3. CASE UNCHANGED matcherVars
    BY <2>3 DEF matcherVars, MatcherInv, MatcherTypes, CountsAreReceived, LinesAreCounted,
                OnALine, EndsWith
  <2> QED
    BY <2>1, <2>2, <2>3 DEF MNext
<1> QED
  BY <1>1, <1>2, PTL DEF MSpec

\* AnswersAreHeard, for any samples, characters and length of the text: SendExpect
\* reports no answer that was not received, and misses none that stands on its own line.
THEOREM AnswersCorrect == MSpec => []AnswersAreHeard
<1>1. MatcherInv => AnswersAreHeard
  <2> SUFFICES ASSUME MatcherInv PROVE AnswersAreHeard
    OBVIOUS
  <2>0. MatcherTypes /\ CountsAreReceived /\ LinesAreCounted
    BY DEF MatcherInv
  <2>1. rtn > 0 => rtn \in DOMAIN Samples /\ EndsWith(Samples[rtn], Len(Samples[rtn]))
    <3>1. rtn > 0 => rtn \in DOMAIN Samples
      BY <2>0 DEF MatcherTypes
    <3> QED
      BY <2>0, <3>1 DEF CountsAreReceived
  <2>2. ASSUME NEW i \in DOMAIN Samples, OnALine(Samples[i], Len(Samples[i]))
        PROVE  rtn > 0
    <3>1. Len(Samples[i]) \in Nat /\ Len(Samples[i]) \in 0..Len(Samples[i])
      BY SampleFacts
    <3>2. cnttable[i] = Len(Samples[i])
      BY <2>0, <2>2, <3>1 DEF LinesAreCounted
    <3>3. rtn # 0
      BY <2>0, <3>1, <3>2 DEF CountsAreReceived
    <3>4. DOMAIN Samples = 1..Len(Samples) /\ Len(Samples) \in Nat
      BY SamplesAssumption
    <3> QED
      BY <2>0, <3>3, <3>4 DEF MatcherTypes
  <2> QED
    BY <2>1, <2>2 DEF AnswersAreHeard, OnALine
<1> QED
  BY <1>1, MatcherInvariance, PTL
=============================================================================
