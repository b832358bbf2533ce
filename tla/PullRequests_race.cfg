SPECIFICATION FairSpec
CONSTANTS
    main = main  feature = feature  p1 = p1  p2 = p2
    m1 = m1  m2 = m2  n1 = n1  n2 = n2
    None = None  Zero = Zero
    Branch = {main, feature}
    Push = {p1}
    MergeCall = {m1}
    HowTo <- MCOneHowTo
    CreateCall = {n1}
    Wanted <- MCWanted
    MaxPr = 1
    InitRefs <- MCInitRefs
PROPERTY MergeKeepsBase
CHECK_DEADLOCK FALSE
