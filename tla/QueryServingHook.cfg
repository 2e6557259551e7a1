SPECIFICATION Spec
CONSTANTS
    Clients = {c1, c2}
    Queries = {"ask", "other ask"}
    Asks = {"ask", "other ask"}
    Size <- MCSize
    Cap = 2
    MaxBytes = 2
    Depth = 2
    MaxRespawns = 2
    MaxQueries = 4
    MaxWrites = 0
    MaxEmbeds = 0
    MaxErrors = 0
    None = None
    Failed = Failed
PROPERTIES
    SeedsMatchQuestion
    EveryQueryAnswered
