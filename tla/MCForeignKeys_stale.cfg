\* The referenced tables come first, and nothing fails.
SPECIFICATION FairSpec
CONSTANTS
    Order <- ReferencedFirst
    Keys <- Chain
    Ids = {1}
    MaxChanges = 1
    MaxFailures = 0
INVARIANTS
    NothingStale
