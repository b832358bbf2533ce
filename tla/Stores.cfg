SPECIFICATION StoresSpec
CONSTANTS
    None = None  NoRef = NoRef  Torn = Torn
    k1 = k1  k2 = k2  up = up  fk = fk  fg = fg  main = main  j1 = j1  j2 = j2
    Object = {k1, k2}
    Points <- MCLine
    Parents <- MCLine
    Id = {up, fk, fg}
    Ref = {main}
    Job = {j1, j2}
    MaxCalls = 4
    Backends = {"memory", "sqlite", "pg"}
    Apart <- MCApart
    Origin = up
    Main = main
    Root = k1
    Pushed = {up, fk}
    Nested = FALSE
    CutDeletes = FALSE
    Obj = {1, 2}
    RefName = {r1, r2}
    Below <- MCBelow
    Caller = {c1, c2}
    Collector = {g1}
    MaxOps = 4
    MaxGcs = 2
    BranchName <- MCBranches  TreePath <- MCPaths
    MaxCommit = 1  MaxTwins = 0  MaxTrees = 1
    TreeFile <- MCFiles  Clash <- MCClash  RebaseBranch <- MCRebased
    History <- MCHistory  Tips <- MCTips  Planted <- MCPlanted
    MaxCommits = 12  MaxSteps = 3
    StashFile <- MCStashed  Content <- MCContents
    MaxStash = 2  MaxEdits = 2
    ParentLists <- MCParents  Suspect = 6  MaxMarks = 3
    a = a  m = m  p = p  q = q  added = added  base = base  topic = topic
    f = f  g = g  Absent = Absent  Marker = Marker
    b1 = b1  b2 = b2  d1 = d1  d2 = d2  MainTree = MainTree  Broken = Broken
    r1 = r1  r2 = r2  c1 = c1  c2 = c2  g1 = g1
INVARIANT ForksReadable
PROPERTIES SwapSeesExpected DiskKeepsAll WorktreesApart RebaseKeepsWork StashKeepsWork BisectFindsCulprit
SYMMETRY Symmetric
CHECK_DEADLOCK FALSE
