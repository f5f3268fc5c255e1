SPECIFICATION Spec
CONSTANTS
    Base = 4
    BufSize = 40
    Values = {0, 1, 2, 3, 7, 8, 15}
INVARIANTS
    RoundTrip
    Distinguished
    Preserved
    
