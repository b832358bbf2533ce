SPECIFICATION ServersSpec
CONSTANTS
    b0 = b0  a1 = a1  c1 = c1  bx = bx  by = by
    main = main  side = side  p1 = p1  j1 = j1  j2 = j2
    None = None  Skip = Skip
    Object <- MCObject
    Points <- MCPoints
    Parents <- MCParents
    Ref <- MCRef
    Push = {p1}
    Tips <- MCTips
    InitRefs <- MCInitRefs
    InitObjs <- MCInitObjs
    Protected = {}
    ImmutableTags = {}
    DenyNonFF = FALSE
    DenyDeletes = FALSE
    Unpushable = {}
    Hidden = {}
    Overlap = FALSE
    CommitJob = {j1}
    NewCommits <- MCNewCommits
    UpdateJob = {j2}
    UpdateTips = {a1}
    MaxGc = 2
    GcAlone = TRUE
INVARIANT StoreComplete
PROPERTIES GcKeepsExactly CommitsExtendBranch RecheckSparesLive
CHECK_DEADLOCK FALSE
