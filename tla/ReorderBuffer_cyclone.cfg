SPECIFICATION Spec
CONSTANTS
    MaxSeq = 7
    MaxSamples = 3
    Modes = {"NORMAL", "MONOTONICALLY_INCREASING"}
INVARIANTS TreeIsSound InOrder SkipsOnlyTheUnavailable NacksAreWanted

