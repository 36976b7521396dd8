\* The disk fills up during an extraction.
SPECIFICATION Spec
CONSTANTS
    i1 = i1
    i2 = i2
    d1 = d1
    d2 = d2
    big = big
    u1 = u1
    u2 = u2
    Absent = Absent
    NullData = NullData
    Ids <- TwoIds
    Docs <- OneDoc
    Oversize <- NoDocs
    Updaters <- OneUpdater
    RecordHistory = TRUE
    SourceType = "rmb"
    DiskMayFill = TRUE
    MaxStamp = 4
    MaxChanges = 0
    MaxFailures = 0
INVARIANTS
    MainIsSnapshot
