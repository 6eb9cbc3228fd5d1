CONSTANTS
    Clients = {a, b}
    Ids <- MCIds
    Term = 3
    RenewWait = 1
    Timeout = 3
    MaxDelay = 1
    MaxLoss = 1
    MaxCrash = 1
SPECIFICATION Spec
INVARIANTS
    TypeOK
    SecureIsHonoured
PROPERTIES
    AdmissionExclusive
    HolderKeepsLease
    FailOver
