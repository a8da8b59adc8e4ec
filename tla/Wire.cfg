SPECIFICATION Spec
CONSTANTS
    Bodies = {"move", "long"}
    Size <- AnySize
    Redirects = {"move"}
    Noise = "noise"
    HeaderLen = 2
    MaxSaid = 2
    MaxDials = 2
    Version = 79
    First = 64
    Later = 68
    Ring = 16
    BodyLengths = {0, 2, 3, 16, 17, 64, 65, 127, 128, 129, 133, 255, 256, 257}
    MaxSealed = 2
    Keys = 30
    SelfBlock = 127
    SelfBytes <- Mask
    Me = 77
    Ignored = {4000002}
    Tick = 1234
    Before <- Known
    MaxTargetsTried = 17
    MaxHitsTried = 17
INVARIANTS SaysWhatItMeans HalvesAreRefused OpensWhatWasSealed
PROPERTIES ImplementsPipe
CHECK_DEADLOCK FALSE
