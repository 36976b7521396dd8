\* A chain of foreign keys and two to one table; the referenced tables come first.
SPECIFICATION FairSpec
CONSTANTS
    Order <- ReferencedFirst
    Keys <- AllKeys
    Ids = {1}
    MaxChanges = 2
    MaxFailures = 1
INVARIANTS
    TypeOK
    RegistryIsTrue
    Refreshed
    Enforced
PROPERTIES
    Recovers
