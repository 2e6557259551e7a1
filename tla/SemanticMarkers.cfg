\* The daemon and init on one database, with crashes and restarts.
CONSTANTS
    Files = {f1}
    MaxVersion = 2
    MaxCommits = 2
    MaxFailures = 1
    WithInit = TRUE
    StoreMayFail = FALSE
SPECIFICATION Spec
INVARIANTS TypeOK 
PROPERTY BgMarkerAnalysed
