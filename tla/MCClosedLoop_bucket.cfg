CONSTANTS
    Feature = {0, 1}
    Latent <- MCLatent
    Encode <- MCEncode
    Frames = 16
    Stride = 1
    K = 1
    Warmup = 16
    EncodeStep = 2
    Consec = 1
    KappaHigh = 1
    KappaLow = 1
    Calib <- MCCalib
    GlobalCalib <- MCGlobal
    BucketSteps = 6
    Pos = {p1, p2}
    None = None
    Away = Away
    GraspSteps = 15
    DelayRange = {2, 11}
    MinStep = 10
    Conditions = {"jepa"}
    FixedPeriod = 5
    MaxSteps = 60
    View <- MCSharpView
SPECIFICATION Spec
INVARIANTS
    SameBucket
