SPECIFICATION FairSpec
CONSTANTS
    Inputs <- AllInputs
    Preparations = {p1}
    Runs = {r1}
    SandboxIds = {s1}
    d = d
    f = f
    g = g
    new = new
    old = old
    Paths <- MCPaths
    Ancestors <- MCAncestors
    Contents <- MCContents
    InitialTrees <- AllTrees
    RunIdOf <- MCRunIdOf
    MaxTime = 0
    MaxRestarts = 0
    MaxRollbacks = 1
    IoMayFail = TRUE
INVARIANTS DifferencesRecorded RollbackSucceeds
PROPERTY RunsEnd
CHECK_DEADLOCK FALSE
