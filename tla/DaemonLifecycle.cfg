SPECIFICATION Spec
CONSTANTS
    Clients = {c1, c2}
    Daemons = {d1, d2, d3}
    Commands = {"mcp", "init", "restart", "stop"}
    MaxPolls = 2
    MaxFaults = 1
    NoOne = NoOne
INVARIANTS
    TypeOK
    ServingReachable
    
PROPERTIES
    SwapStopsStale
    ComesToRest
