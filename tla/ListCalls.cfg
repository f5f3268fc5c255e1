SPECIFICATION Spec
CONSTANTS
    Node = {n1, n2, n3}
    Item = {a, b, c}
    Iterator = {i, j}
    HEAD = HEAD
    NULL = NULL
SYMMETRY ListSymmetry
INVARIANTS
    Linked
    
    NoneDangles
    Complete
PROPERTIES
    
    RemovesOnlyLast
    
