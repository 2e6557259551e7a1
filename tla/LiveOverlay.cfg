\* Two saves and a commit, in the editor and outside, of a file with two definitions.
CONSTANTS
    Bodies = {"one", "via", "new"}
    Noise = {"new"}
    MaxSaves = 2
    MaxCommits = 1
SPECIFICATION Spec
INVARIANTS
    TypeOK
    CommittedTrue
    LiveTrue
    Accounted
PROPERTIES
    Converges
CHECK_DEADLOCK FALSE
