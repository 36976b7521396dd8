\* One ldp process updates the table again and again.
SPECIFICATION FairSpec
CONSTANTS
    i1 = i1
    i2 = i2
    d1 = d1
    d2 = d2
    big = big
    u1 = u1
    u2 = u2
    Absent = Absent
    NullData = NullData
    Ids <- TwoIds
    Docs <- TwoDocsAndBig
    Oversize <- BigDocs
    Updaters <- OneUpdater
    RecordHistory = TRUE
    SourceType = "rmb"
    DiskMayFill = FALSE
    MaxStamp = 5
    MaxChanges = 2
    MaxFailures = 1
INVARIANTS
    TypeOK
    MainIsSnapshot
    LatestHistoryMatchesMain
    NoRedundantVersions
    CatalogIsTrue
PROPERTIES
    HistoryOnlyGrows
    NeverOlder
    ImplementsPublishedTable
    Converges
    CatalogRecovers
