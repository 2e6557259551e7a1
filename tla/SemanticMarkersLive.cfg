\* Whether the markers reach HEAD once HEAD rests.
CONSTANTS
    Files = {f1}
    MaxVersion = 2
    MaxCommits = 2
    MaxFailures = 2
    WithInit = FALSE
    StoreMayFail = FALSE
SPECIFICATION FairSpec
PROPERTY CatchUp
