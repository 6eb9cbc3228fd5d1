CONSTANTS
    Threads = {t1, t2, t3}
    Present = {1, 2, 3, 4, 5}
    Kind <- MCKind
    Parent <- MCParent
    TopicOf <- MCTopicOf
    Unborn = {}
    Apps <- Readers2
    MaxUses = 1
SPECIFICATION Spec
INVARIANTS
    DeletedClean
    MemorySafe
    OneDeleter
    ImplicitIsNeeded
SYMMETRY ThreadSymmetry
CHECK_DEADLOCK FALSE
