CONSTANTS
    Threads = {t1, t2, t3}
    Present = {1, 2, 6}
    Kind <- MCKind
    Parent <- MCParent
    TopicOf <- MCTopicOf
    Unborn = {}
    Apps <- Siblings
    MaxUses = 0
SPECIFICATION Spec
INVARIANTS
    DeletedClean
SYMMETRY ThreadSymmetry
CHECK_DEADLOCK FALSE
