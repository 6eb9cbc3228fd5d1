CONSTANTS
    MaxSeq = 2
    Before = {0, 1, 2}
    Depths = {0}
    MaxSamples = 1
    Answers = {TRUE}
    MaxFaults = 1
    MaxNet = 1
SPECIFICATION Spec
INVARIANTS
    AckedMeansDelivered
PROPERTIES
    ImplementsDelivery
CHECK_DEADLOCK FALSE
