----------------------------- MODULE XmlDocument -----------------------------
(***************************************************************************)
(* What the XML library of the daemon (src/src/xmlParser.cpp) promises:    *)
(* elements with their contents in order, and handles (objects of class    *)
(* XMLNode) that refer to them.  An element exists exactly as long as a    *)
(* handle refers to it or to an element it is in.                          *)
(***************************************************************************)
EXTENDS Integers, FiniteSets, Sequences, SequencesExt, Functions

CONSTANTS
    Node,       \* elements
    Handle,     \* XMLNode objects of the program
    Leaves,     \* the types of contents that are not elements: "text", "clear"
    Value,      \* texts
    Null,       \* no element
    MaxItems    \* bound: contents of one element

VARIABLES
    tree,       \* the elements that exist: their contents, and whether they have a name
    held        \* what each handle refers to

dvars == <<tree, held>>

Child(n) == [type |-> "child", is |-> n]
Leaf(type, v) == [type |-> type, is |-> v]
Bare == [named |-> TRUE, items |-> <<>>]
Emptied == [named |-> FALSE, items |-> <<>>]

Children(t, n) == {c \in DOMAIN t : Child(c) \in ToSet(t[n].items)}

IsClosed(t, C) == \A n \in C : Children(t, n) \subseteq C

\* The elements of t in the given ones, at any depth.
Within(t, roots) ==
    {n \in DOMAIN t : \A C \in SUBSET DOMAIN t : roots \subseteq C /\ IsClosed(t, C) => n \in C}

\* What is left of t with handles h.
Reachable(t, h) == Restrict(t, Within(t, Range(h) \ {Null}))

Set(h, n) == [held EXCEPT ![h] = n]

Become(t, h) == tree' = Reachable(t, h) /\ held' = h

\* t with one element more.
With(t, n, e) == [m \in DOMAIN t \cup {n} |-> IF m = n THEN e ELSE t[m]]

Extended(t, n, item) == [t EXCEPT ![n].items = Append(@, item)]

Place(items, n) == CHOOSE k \in DOMAIN items : items[k] = Child(n)

\* n taken out of whatever holds it.
Without(t, n) ==
    [m \in DOMAIN t |->
        IF n \in Children(t, m)
        THEN [t[m] EXCEPT !.items = RemoveAt(@, Place(@, n))] ELSE t[m]]

\* n at the end of what is in another element, and each of s in turn.
Moved(t, n, to) == Extended(Without(t, n), to, Child(n))

MovedAll(t, s, to) ==
    LET upto[k \in 0..Len(s)] == IF k = 0 THEN t ELSE Moved(upto[k - 1], s[k], to)
    IN  upto[Len(s)]

\* The elements in n, in their order: the only member of this set.
Listings(t, n) ==
    LET C == Children(t, n)
    IN  {s \in [1..Cardinality(C) -> C] :
            \A j, k \in DOMAIN s : j < k => Place(t[n].items, s[j]) < Place(t[n].items, s[k])}

-----------------------------------------------------------------------------

DInit == tree = <<>> /\ held = [h \in Handle |-> Null]

Fresh == Node \ DOMAIN tree
Room(h) == held[h] # Null /\ Len(tree[held[h]].items) < MaxItems

DCreate(h) == \E n \in Fresh : Become(With(tree, n, Bare), Set(h, n))

\* A new element at the end of h's, g refers to it.
DAddChild(h, g) ==
    /\ Room(h)
    /\ \E n \in Fresh : Become(With(Extended(tree, held[h], Child(n)), n, Bare), Set(g, n))

DAddLeaf(h, type, v) == Room(h) /\ Become(Extended(tree, held[h], Leaf(type, v)), held)

\* g's element moves to the end of h's, from wherever it was.  Of one without a
\* name the children move instead.
DAdopt(h, g) ==
    LET to == held[h]
        n == held[g]
    IN  /\ to # Null /\ n # Null /\ to \notin Within(tree, {n})
        /\ \E s \in IF tree[n].named THEN {<<n>>} ELSE Listings(tree, n) :
              /\ Len(MovedAll(tree, s, to)[to].items) <= MaxItems
              /\ Become(MovedAll(tree, s, to), held)

DPoint(h, n) == Become(tree, Set(h, n))

DGetChild(h, g) == held[h] # Null /\ \E n \in Children(tree, held[h]) : DPoint(g, n)

DGetParent(h, g) == \E n \in DOMAIN tree : held[h] \in Children(tree, n) /\ DPoint(g, n)

DAssign(h, g) == DPoint(g, held[h])

DDrop(h) == DPoint(h, Null)

DDeleteLeaf(h) ==
    /\ held[h] # Null
    /\ \E i \in DOMAIN tree[held[h]].items :
            /\ tree[held[h]].items[i].type \in Leaves
            /\ Become([tree EXCEPT ![held[h]].items = RemoveAt(@, i)], held)

\* h's element leaves its parent; it and everything in it lose name and contents.
DDeleteContent(h) ==
    LET gone == Within(tree, {held[h]})
        cut == Without(tree, held[h])
    IN  /\ held[h] # Null
        /\ Become([n \in DOMAIN tree |-> IF n \in gone THEN Emptied ELSE cut[n]], held)

\* A copy of an element, when f says what the elements in it become.
Copied(e, f) ==
    [e EXCEPT !.items =
        [i \in DOMAIN @ |-> IF @[i].type = "child" THEN Child(f[@[i].is]) ELSE @[i]]]

\* g refers to a copy of h's element and of everything in it.
DDeepCopy(h, g) ==
    /\ held[h] # Null
    /\ \E f \in Injection(Within(tree, {held[h]}), Fresh) :
          Become([m \in DOMAIN tree \cup Range(f) |->
                     IF m \in Range(f) THEN Copied(tree[CHOOSE n \in DOMAIN f : f[n] = m], f)
                     ELSE tree[m]],
                 Set(g, f[held[h]]))

DNext ==
    \E h, g \in Handle :
        \/ DCreate(h) \/ DAddChild(h, g) \/ DAdopt(h, g)
        \/ \E type \in Leaves, v \in Value : DAddLeaf(h, type, v)
        \/ DGetChild(h, g) \/ DGetParent(h, g) \/ DAssign(h, g) \/ DDrop(h)
        \/ DDeleteLeaf(h) \/ DDeleteContent(h) \/ DDeepCopy(h, g)

DSpec == DInit /\ [][DNext]_dvars
=============================================================================
