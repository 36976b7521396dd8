\* A view makes PostgreSQL refuse to change a column.
SPECIFICATION FairSpec
CONSTANTS
    StartVersions <- RecentVersions
    Viewed <- OneTable
    MaxInterruptions = 0
PROPERTIES
    VersionIsTrue
