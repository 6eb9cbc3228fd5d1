CONSTANTS
    Feature = {0, 1}
    Latent <- MCLatent
    Encode <- MCEncode
    Frames = 2
    Stride = 1
    K = 1
    Warmup = 2
    EncodeStep = 2
    Consec = 2
    KappaHigh = 1
    KappaLow = 1
    Calib <- MCCalib
    GlobalCalib <- MCGlobal
    BucketSteps = 6
    Pos = {p1, p2}
    None = None
    Away = Away
    GraspSteps = 2
    DelayRange = {0, 3}
    MinStep = 2
    Conditions = {"no_replan", "fixed", "oracle", "jepa", "jepa_observe"}
    FixedPeriod = 5
    MaxSteps = 15
    View <- MCNoisyView
SPECIFICATION Spec
INVARIANTS
    TypeOK
    BlindNeverRecovers
    LatencyOfAReaction
    FreshGrasp
    Refractory
