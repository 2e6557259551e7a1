SPECIFICATION Spec
CONSTANTS
    Clients = {c1, c2}
    Queries = {"ask", "graph"}
    Asks = {"ask"}
    Size <- MCSize
    Cap = 2
    MaxBytes = 2
    Depth = 1
    MaxRespawns = 1
    MaxQueries = 3
    MaxWrites = 1
    MaxEmbeds = 1
    MaxErrors = 1
    None = None
    Failed = Failed
INVARIANTS
    TypeOK
    CacheBounded
PROPERTIES
    
    ImplementsFreshAnswers
