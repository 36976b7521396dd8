\* Extraction only, of a table without rows.
SPECIFICATION FairSpec
CONSTANTS
    NumTables = 1
    NumSources = 1
    Contents <- OneSource
    Anonymized <- NoTables
    Options <- ExtractOnlyOptions
    MaxProcs = 1
    MaxFailures = 0
INVARIANTS
    ExtractOnlyLeavesDatabase
