SPECIFICATION Spec
CONSTANTS
    N = 2
    Shells = {1, 3}
    Part = 2
    Fallback = 3
    Commands = {"gc"}
    MaxEdits = 0
    MaxTroubles = 0
    Never = Never
PROPERTY
    AlwaysEmbedded
