\* Two ldp processes overlap: one removes the files that the other stages.
SPECIFICATION Spec
CONSTANTS
    i1 = i1
    i2 = i2
    d1 = d1
    d2 = d2
    big = big
    u1 = u1
    u2 = u2
    Absent = Absent
    NullData = NullData
    Ids <- OneId
    Docs <- OneDoc
    Oversize <- NoDocs
    Updaters <- TwoUpdaters
    RecordHistory = TRUE
    SourceType = "rmb"
    DiskMayFill = FALSE
    MaxStamp = 4
    MaxChanges = 0
    MaxFailures = 0
CHECK_DEADLOCK FALSE
INVARIANTS
    MainIsSnapshot
