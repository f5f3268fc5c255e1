SPECIFICATION Spec
CONSTANTS
    MaxItems = 5
    Maxima <- MCMaxima
INVARIANTS
    Conserved
    OrderKept
    
