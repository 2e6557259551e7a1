SPECIFICATION Spec
CONSTANTS
    N = 2
    Shells = {1, 2}
    Part = 2
    Fallback = 3
    Commands = {"reconfigure", "gc"}
    MaxEdits = 1
    MaxTroubles = 1
    Never = Never
INVARIANTS
    TypeOK
    OneWriter
    StopStops
PROPERTIES
    
    AllEmbedded
