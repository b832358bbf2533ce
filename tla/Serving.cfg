SPECIFICATION ServingSpec
CONSTANTS
    None = None
    Counted = {push1, fetch1}  Early = {updateRefs1}  Uncounted = {deleteRepo1}
    Closer = {close1, close2}
    MaxHaves = 3  FirstWindow = 1  Limits = {5, 99}  Refs = {a, b}  MaxCommands = 2
    k1 = k1  k2 = k2  k3 = k3  side = side  t = t  f = f
    main = main  dev = dev  tag = tag  
    Object = {k1, k2, k3, side, t, f}
    Points <- MCPoints
    Parents <- MCParents
    INFINITE_DEPTH = 9
    Client = {alice}
    Branch = {main, dev}
    Tag = {tag}
    Default = main
    Local = local
    TagObject = {t}
    Hidden = {}
    Depths = {1, 2, 9}
    Options <- MCOptions
    Tips <- MCTips
    InitRefs <- MCInitRefs
    MaxBytes = 7
    MaxPushes = 2
    MaxCalls = 3
    CutBeforeShallow = FALSE
    PlainWhenShallow = FALSE
    GcWhenShallow = FALSE
INVARIANTS DrainWaitsForCounted InStep FetchesComplete
PROPERTIES CloseTerminates SessionEnds NothingSlipsIn
CHECK_DEADLOCK FALSE
