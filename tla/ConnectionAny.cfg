SPECIFICATION Spec
CONSTANTS
    HeaderSize = 4
    BodySize = 5
    Segmented = TRUE
    MayCrash = TRUE
INVARIANTS
    NothingInvented
    DeliveredWhole
PROPERTY
    ServiceEnds
