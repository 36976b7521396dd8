\* Every version to begin with; commands are interrupted twice.
SPECIFICATION FairSpec
CONSTANTS
    StartVersions <- AnyVersion
    Viewed <- NoTables
    MaxInterruptions = 2
INVARIANTS
    TypeOK
    UpgradedHasSchema
PROPERTIES
    VersionIsTrue
    OnlyOldUpgradesRefuse
    UpgradeCompletes
