SPECIFICATION Spec
CONSTANTS
    SnakeCnt = 1
    HeurMin = 1
    KHeur = 1
    MaxCost = 2
    Gap = 1
    Win = 2
    HashLimit = 2
    Buckets = 2
    MinCopy = 2
    GoodEnough = 6
    MaxCopy = 8
    MaxInsert = 3
    Byte = 16
    Seven = 32
    Low = 16
    MinDelta = 6
    Ratio = 4
    MaxDepth = 2
    Fan = 2048
    Large = 30
    Threshold = 50
    RenameLimit = 2
    MaxCallDepth = 2
    MaxPkt = 30
    FirstWord = 100
    Families = {"trees"}
PROPERTY AddAddShowsBoth
CHECK_DEADLOCK FALSE
