\* Every combination of options, and up to four failures.
SPECIFICATION FairSpec
CONSTANTS
    NumTables = 4
    NumSources = 2
    Contents <- AnyContents
    Anonymized <- SecondTable
    Options <- AllOptions
    MaxProcs = 9
    MaxFailures = 4
INVARIANTS
    TypeOK
    FilesWhileStaging
    OneWorker
    FinishAlone
    NoTableForgotten
    LeftoversExplained
    FilesKept
    SuggestionsCurrent
PROPERTIES
    Terminates
