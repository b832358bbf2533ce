SPECIFICATION FairSpec
CONSTANTS
    main = main  feature = feature  p1 = p1  p2 = p2
    m1 = m1  m2 = m2  n1 = n1  n2 = n2
    None = None  Zero = Zero
    Branch = {main, feature}
    Push = {p1}
    MergeCall = {m1, m2}
    HowTo <- MCHowTo
    CreateCall = {n1, n2}
    Wanted <- MCWanted
    MaxPr = 2
    InitRefs <- MCInitRefs
INVARIANTS PullRefMatchesRecord
PROPERTIES MergesApprovedHead MergedIsFinal WrittenMergeIsRecorded
CHECK_DEADLOCK FALSE
