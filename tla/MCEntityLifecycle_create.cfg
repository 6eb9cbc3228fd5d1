CONSTANTS
    Threads = {t1, t2, t3}
    Present = {1, 2, 3, 4}
    Kind <- MCKind
    Parent <- MCParent
    TopicOf <- MCTopicOf
    Unborn = {3, 4}
    Apps <- NewReader
    MaxUses = 0
SPECIFICATION Spec
INVARIANTS
    DeletedDeep
    RefsCounted
    PinsCounted
PROPERTIES
    CallsReturn
CHECK_DEADLOCK FALSE
