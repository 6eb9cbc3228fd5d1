SPECIFICATION Spec
CONSTANTS
    k1 = k1
    k2 = k2
    r1 = r1
    r2 = r2
    Keys = {k1, k2}
    Readers = {r1, r2}
    Kinds = {"write", "unregister"}
    Settings <- MCSettings
    MaxSeq = 4
    whc_high = 1
    whc_low = 1
INVARIANTS CountsAgree UnackedIsKept TransientLocalIsKept NothingElseIsKept ContentsOwned NoLostWakeup
SYMMETRY Symmetry
CHECK_DEADLOCK FALSE
