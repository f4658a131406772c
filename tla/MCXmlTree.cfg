\* Three elements, two handles: chains, moves within and between parents, copies.
SPECIFICATION Spec
CONSTANTS
    n1 = n1  n2 = n2  n3 = n3  h1 = h1  h2 = h2  v1 = v1
    Node = {n1, n2, n3}
    Handle = {h1, h2}
    Leaves = {"text"}
    Value = {v1}
    Null = Null
    Free = Free
    MaxItems = 3
SYMMETRY Symmetry
INVARIANTS
    CountsAreExact
    OrderIsExact
PROPERTIES
    ImplementsDocument
