------------------------------- MODULE XmlTree -------------------------------
(***************************************************************************)
(* The element tree of src/src/xmlParser.cpp, in which the daemon builds   *)
(* the XML of an SMS or USSD answer (gen-xml.cpp) and hands it about by    *)
(* value: reference counts, parent links, one array of contents for each   *)
(* type and pOrder, which says in which order the contents come.           *)
(*                                                                         *)
(* A block is an XMLNodeData.  New contents are added at the end (pos =    *)
(* -1), as everywhere in the daemon.  Attributes are in no relation to the *)
(* rest and left out.  Indices count from 0, as in the code.               *)
(***************************************************************************)
EXTENDS Integers, FiniteSets, Sequences, SequencesExt, Functions

CONSTANTS
    Node,       \* addresses a block can have
    Handle,     \* XMLNode objects of the program
    Leaves,     \* the types of contents that are not elements: "text", "clear"
    Value,      \* texts
    Null,       \* no block (d = NULL, pParent = NULL)
    Free,       \* what is at an address that holds no block
    MaxItems    \* bound: contents of one element

Types == {"child"} \cup Leaves

OrderEntry == [type : Types, index : Nat]

Block ==
    [ref : Int, named : BOOLEAN, parent : Node \cup {Null},
     child : Seq(Node), text : Seq(Value), clear : Seq(Value),
     order : Seq(OrderEntry)]

ASSUME TreeAssumption ==
    /\ IsFiniteSet(Node) /\ IsFiniteSet(Handle)
    /\ Null \notin Node /\ Free \notin Block
    /\ Leaves \subseteq {"text", "clear"}
    /\ MaxItems \in Nat \ {0}

VARIABLES
    heap,       \* the block at each address
    held        \* the d of each handle

xvars == <<heap, held>>

\* createXMLTopNode, or the same for a child.
NewBlock(parent) ==
    [ref |-> 0, named |-> TRUE, parent |-> parent,
     child |-> <<>>, text |-> <<>>, clear |-> <<>>, order |-> <<>>]

Init == heap = [n \in Node |-> Free] /\ held = [h \in Handle |-> Null]

-----------------------------------------------------------------------------
(* One block's contents.                                                   *)

Entry(type, i) == [type |-> type, index |-> i]

\* addToOrder and the assignment behind it.
AddToOrder(b, type, item) ==
    [b EXCEPT ![type] = Append(@, item), !.order = Append(@, Entry(type, Len(b[type])))]

FindPosition(b, type, i) == CHOOSE k \in DOMAIN b.order : b.order[k] = Entry(type, i)

\* Bug: the entries behind keep their indices.
RemoveOrderKeeping(b, type, i) == RemoveAt(b.order, FindPosition(b, type, i))

\* The entry goes, and those of its type behind it count one less.
RemoveOrderElement(b, type, i) ==
    LET k == FindPosition(b, type, i)
        rest == RemoveAt(b.order, k)
    IN  [j \in DOMAIN rest |->
            IF j >= k /\ rest[j].type = type THEN [rest[j] EXCEPT !.index = @ - 1] ELSE rest[j]]

DeleteItem(b, type, i) ==
    [b EXCEPT ![type] = RemoveAt(@, i + 1), !.order = RemoveOrderElement(b, type, i)]

\* What enumContents and CreateXMLStringR see.
Contents(b) ==
    [k \in DOMAIN b.order |-> [type |-> b.order[k].type, is |-> b[b.order[k].type][b.order[k].index + 1]]]

-----------------------------------------------------------------------------
(* The heap.                                                               *)

Live(hp) == {n \in Node : hp[n] # Free}

\* n leaves the array of its parent; its own fields are the caller's.
DetachFromParent(hp, n) ==
    LET p == hp[n].parent
        i == CHOOSE k \in DOMAIN hp[p].child : hp[p].child[k] = n
    IN  [hp EXCEPT ![p] = DeleteItem(@, "child", i - 1)]

\* emptyTheNode for n itself: the children lose their parent and the count it had
\* on them, the contents go, and without references the block does too.
EmptyOne(hp, n) ==
    LET cut == IF hp[n].parent = Null THEN hp ELSE DetachFromParent(hp, n)
        orphans == [m \in Node |->
                       IF m \in ToSet(hp[n].child)
                       THEN [cut[m] EXCEPT !.parent = Null, !.ref = @ - 1] ELSE cut[m]]
    IN  [orphans EXCEPT ![n] =
            IF @.ref = 0 THEN Free ELSE [NewBlock(Null) EXCEPT !.ref = hp[n].ref, !.named = FALSE]]

\* Bug: what the element held is forgotten, not emptied.
EmptyOnlyTop(hp, n, force) ==
    IF force \/ hp[n].ref = 0 THEN EmptyOne(hp, n) ELSE hp

\* emptyTheNode(force) for the next element, of which the children follow.
Visit(s, force) ==
    IF s.todo = <<>> THEN s
    ELSE LET m == Head(s.todo)
         IN  IF force \/ s.hp[m].ref = 0
             THEN [hp |-> EmptyOne(s.hp, m), todo |-> Tail(s.todo) \o s.hp[m].child]
             ELSE [s EXCEPT !.todo = Tail(@)]

Visits(hp, n, force) ==
    LET done[k \in 0..Cardinality(Node)] ==
            IF k = 0 THEN [hp |-> hp, todo |-> <<n>>] ELSE Visit(done[k - 1], force)
    IN  done

\* emptyTheNode(force), and the same for each child after it has been let go.  The
\* order makes no difference, no element being in two others.
EmptyTheNode(hp, n, force) == Visits(hp, n, force)[Cardinality(Node)].hp

Refer(hp, n) == IF n = Null THEN hp ELSE [hp EXCEPT ![n].ref = @ + 1]

\* ~XMLNode, and the first half of operator=.
Release(hp, n) ==
    IF n = Null THEN hp
    ELSE LET less == [hp EXCEPT ![n].ref = @ - 1] IN EmptyTheNode(less, n, FALSE)

-----------------------------------------------------------------------------
(* The operations of the program.                                          *)

\* h = <an XMLNode for n>: the temporary, or the other handle, refers to n until
\* operator= has let go of the old element.
Put(hp, h, n) ==
    /\ heap' = Release(Refer(hp, n), held[h])
    /\ held' = [held EXCEPT ![h] = n]

Room(h) == held[h] # Null /\ Len(heap[held[h]].order) < MaxItems

CreateTop(h) ==
    \E n \in Node : heap[n] = Free /\ Put([heap EXCEPT ![n] = NewBlock(Null)], h, n)

\* g = h.addChild(name): the array refers to the new element, then g does.
AddChildByName(h, g) ==
    /\ Room(h)
    /\ \E n \in Node :
        /\ heap[n] = Free
        /\ Put([heap EXCEPT ![n] = [NewBlock(held[h]) EXCEPT !.ref = 1],
                            ![held[h]] = AddToOrder(@, "child", n)], g, n)

AddLeaf(h, type, v) ==
    /\ Room(h)
    /\ heap' = [heap EXCEPT ![held[h]] = AddToOrder(@, type, v)]
    /\ UNCHANGED held

\* Bug: a node that changes parents is counted anew.
AttachCounting(hp, d, n) ==
    LET cut == IF hp[n].parent = Null THEN hp ELSE DetachFromParent(hp, n)
    IN  [cut EXCEPT ![n].parent = d, ![n].ref = @ + 1, ![d] = AddToOrder(@, "child", n)]

\* addChild(XMLNode) for a node with a name: the reference of the old parent's
\* array becomes that of the new one's.
Attach(hp, d, n) ==
    LET cut == IF hp[n].parent = Null THEN Refer(hp, n) ELSE DetachFromParent(hp, n)
    IN  [cut EXCEPT ![n].parent = d, ![d] = AddToOrder(@, "child", n)]

\* The same for each of them, one after the other.
AttachAll(hp, d, moved) ==
    LET upto[k \in 0..Len(moved)] == IF k = 0 THEN hp ELSE Attach(upto[k - 1], d, moved[k])
    IN  upto[Len(moved)]

\* The elements below n, itself included.
Below(n) ==
    LET level[k \in 0..Cardinality(Node)] ==
            IF k = 0 THEN {n} ELSE level[k - 1] \cup UNION {ToSet(heap[m].child) : m \in level[k - 1]}
    IN  level[Cardinality(Node)]

\* h.addChild(g).  That an element is not put into itself is left to the program.
AddChildNode(h, g) ==
    LET d == held[h]
        n == held[g]
        moved == IF heap[n].named THEN <<n>> ELSE heap[n].child
    IN  /\ d # Null /\ n # Null /\ d \notin Below(n)
        /\ heap' = AttachAll(heap, d, moved)
        /\ Len(heap'[d].order) <= MaxItems
        /\ UNCHANGED held

GetChildNode(h, g) ==
    held[h] # Null /\ \E n \in ToSet(heap[held[h]].child) : Put(heap, g, n)

GetParentNode(h, g) ==
    held[h] # Null /\ heap[held[h]].parent # Null /\ Put(heap, g, heap[held[h]].parent)

Assign(h, g) == h # g /\ Put(heap, g, held[h])

Drop(h) == Put(heap, h, Null)

\* deleteText, deleteClear.
DeleteLeaf(h, type) ==
    /\ held[h] # Null
    /\ \E i \in DOMAIN heap[held[h]][type] :
            heap' = [heap EXCEPT ![held[h]] = DeleteItem(@, type, i - 1)]
    /\ UNCHANGED held

DeleteNodeContent(h) ==
    LET n == held[h]
        cut == IF heap[n].parent = Null THEN heap
               ELSE [DetachFromParent(heap, n) EXCEPT ![n].parent = Null, ![n].ref = @ - 1]
    IN  n # Null /\ heap' = EmptyTheNode(cut, n, TRUE) /\ UNCHANGED held

\* g = h.deepCopy(): new blocks with the same contents.
DeepCopy(h, g) ==
    LET n == held[h]
        copied(f, m) ==
            [heap[m] EXCEPT
                !.ref = IF m = n THEN 0 ELSE 1,
                !.parent = IF m = n THEN Null ELSE f[@],
                !.child = [i \in DOMAIN @ |-> f[@[i]]]]
    IN  /\ n # Null
        /\ \E f \in Injection(Below(n), Node \ Live(heap)) :
              Put([m \in Node |-> IF m \in Range(f) THEN copied(f, CHOOSE x \in Below(n) : f[x] = m)
                                  ELSE heap[m]], g, f[n])

Next ==
    \/ \E h, g \in Handle :
          \/ AddChildByName(h, g) \/ AddChildNode(h, g) \/ GetChildNode(h, g)
          \/ GetParentNode(h, g) \/ Assign(h, g) \/ DeepCopy(h, g)
    \/ \E h \in Handle :
          \/ CreateTop(h) \/ Drop(h) \/ DeleteNodeContent(h)
          \/ \E type \in Leaves : DeleteLeaf(h, type) \/ \E v \in Value : AddLeaf(h, type, v)

Spec == Init /\ [][Next]_xvars

-----------------------------------------------------------------------------

\* The count of an element is the number of handles that refer to it, and one for
\* the element it is in, which holds it once; so none is freed while someone
\* refers to it (emptyTheNode, operator=, detachFromParent).
CountsAreExact ==
    /\ Range(held) \subseteq Live(heap) \cup {Null}
    /\ \A n \in Live(heap) :
        LET b == heap[n]
            holders == {p \in Live(heap) : n \in ToSet(heap[p].child)}
        IN  /\ b.ref = Cardinality({h \in Handle : held[h] = n}) + Cardinality(holders)
            /\ holders = {b.parent} \ {Null}
            /\ IsInjective(b.child)

\* pOrder lists each content once, those of one type in the order of their array,
\* whatever was added, moved and deleted.
Entries(b, type) == {k \in DOMAIN b.order : b.order[k].type = type}

InOrder(b) ==
    \A type \in Types :
        /\ {b.order[k].index : k \in Entries(b, type)} = 0..Len(b[type]) - 1
        /\ \A j, k \in Entries(b, type) : j < k => b.order[j].index < b.order[k].index

OrderIsExact == \A n \in Live(heap) : InOrder(heap[n])

Document == INSTANCE XmlDocument WITH
    tree <- [n \in Live(heap) |-> [named |-> heap[n].named, items |-> Contents(heap[n])]]

\* With its counts, links and orders the library keeps the elements that can be
\* reached, and only those, with the contents the program gave them in the order
\* it gave them.
ImplementsDocument == Document!DSpec
=============================================================================
