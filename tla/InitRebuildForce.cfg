CONSTANTS
    Files = {f1, f2}
    MaxVersion = 1
    Forces = {FALSE, TRUE}
    Starts = {"fresh", "old", "empty"}
SPECIFICATION Spec
INVARIANT InitHeals
