SPECIFICATION Spec
CONSTANTS
    Inputs <- RacingInputs
    Preparations = {p1}
    Runs = {r1}
    SandboxIds = {s1}
    d = d
    f = f
    g = g
    new = new
    old = old
    Paths <- MCPaths
    Ancestors <- MCAncestors
    Contents <- MCContents
    InitialTrees <- OldTrees
    RunIdOf <- MCRunIdOf
    MaxTime = 1
    MaxRestarts = 0
    MaxRollbacks = 0
    IoMayFail = FALSE
INVARIANT CancelledIsRolledBack
CHECK_DEADLOCK FALSE
SYMMETRY Symmetry
