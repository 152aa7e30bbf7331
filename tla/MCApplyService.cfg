SPECIFICATION Spec
CONSTANTS
    Inputs <- RacingInputs
    Preparations = {p1, p2}
    Runs = {r1, r2}
    SandboxIds = {s1, s2}
    d = d
    f = f
    g = g
    new = new
    old = old
    Paths <- MCPaths
    Ancestors <- MCAncestors
    Contents <- MCContents
    InitialTrees <- OldTrees
    RunIdOf <- MCRunIdOf
    MaxTime = 1
    MaxRestarts = 1
    MaxRollbacks = 0
    IoMayFail = FALSE
INVARIANTS NonceStartsOneRun AllOrNothing
CHECK_DEADLOCK FALSE
SYMMETRY Symmetry
