SPECIFICATION FairSpec
CONSTANTS
    b0 = b0  a1 = a1  a2 = a2  c1 = c1  x = x
    main = main  tag = tag  p1 = p1  p2 = p2
    None = None  Skip = Skip
    Object <- MCObject
    Points <- MCPoints
    Parents <- MCParents
    Ref <- MCRef
    Push = {p1, p2}
    Tips <- MCTips
    InitRefs <- MCInitRefs
    InitObjs <- MCInitObjs
    Protected = {main}
    ImmutableTags = {tag}
    DenyNonFF = FALSE
    DenyDeletes = FALSE
    Unpushable = {}
    Hidden = {tag}
    Overlap = FALSE
INVARIANTS TypeOK RefsComplete RejectedLeavesNothing
PROPERTIES ProtectedFastForward TagsImmutable ImplementsAtomicRefs Announced
CHECK_DEADLOCK FALSE
