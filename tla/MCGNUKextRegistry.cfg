SPECIFICATION Spec
CONSTANTS
    Entries = {root, e1, e2, e3}
    Root = root
    Nil = Nil
    Names = {a, b}
    RootName = rn
    MaxDepth = 2
CONSTRAINT Bound
SYMMETRY Symmetry
INVARIANTS TreeSound PathResolves
CHECK_DEADLOCK FALSE
