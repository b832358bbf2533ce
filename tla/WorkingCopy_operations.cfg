SPECIFICATION Spec
CONSTANTS
    main = main  topic = topic  f = f  g = g
    Path = {f, g}
    Content <- MCContent
    Absent = Absent
    Unmerged = Unmerged
    Touched = Touched
    Ignored = {g}
    Branch = {main, topic}
    Markers = "markers"
    Merged = "merged"
    Mine <- MCMine
    Histories <- MCDiverged
    MaxCommits = 4
    MaxWork = 2
PROPERTIES
    LocalContentKept UncommittedKept AbortRestores MergeHeadRemembered
    PendingReplayKeepsHead OperationAgrees
CHECK_DEADLOCK FALSE
