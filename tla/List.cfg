CONSTANTS
    Nodes = {n1, n2, n3}
    Lists = {l1, l2}
    NULL = NULL
SPECIFICATION Spec
INVARIANT Shape
PROPERTY ImplementsSequences
