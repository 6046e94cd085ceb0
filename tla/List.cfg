\* Every list of at most four nodes, with callers that delete at any index but the last.
SPECIFICATION Spec
CONSTANTS
    a = a  b = b  c = c
    n1 = n1  n2 = n2  n3 = n3  n4 = n4
    NULL = NULL
    Nodes = {n1, n2, n3, n4}
    Values = {a, b, c}
    Key <- MCKey
    Wrap = 8
    TailDeleted = FALSE
SYMMETRY Symmetry
INVARIANTS
    WellLinked
PROPERTIES
    ImplementsSequence
