\* The database is out of reach for two connections.
SPECIFICATION FairSpec
CONSTANTS
    NumTables = 3
    NumSources = 1
    Contents <- OneSource
    Anonymized <- NoTables
    Options <- DefaultOptions
    MaxProcs = 5
    MaxFailures = 2
INVARIANTS
    NeverStagedFromNothing
