CONSTANTS
    MaxSeq = 5
    Before = {2}
    Depths = {0}
    MaxSamples = 2
    Answers = {TRUE, FALSE}
    MaxFaults = 0
    MaxNet = 1
SPECIFICATION Spec
INVARIANTS
    AckedMeansDelivered
CHECK_DEADLOCK FALSE
