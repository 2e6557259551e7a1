CONSTANTS
    Files = {f1, f2}
    MaxVersion = 2
    Forces = {FALSE}
    Starts = {"fresh", "old"}
SPECIFICATION Spec
INVARIANTS
    TypeOK
    
    
