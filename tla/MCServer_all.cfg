SPECIFICATION FairSpec
CONSTANTS
    Users = {ann}
    NumTables = 2
    Server = server
    Shells = {shell}
    Spares = {worker}
    PollInterval = 1
    ErrorDelay = 1
    MaxFailures = 2
INVARIANTS TypeOK PromiseKept OneServer
PROPERTIES RestartsApart AccessConverges KeepsUpdating
