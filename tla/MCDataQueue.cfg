SPECIFICATION ListSpec
CONSTANTS
    Nodes = {n1, n2, n3, n4}
    Values = {a, b}
    NULL = NULL
SYMMETRY Symmetry
INVARIANTS Owned TailIsLast
PROPERTY Refines
