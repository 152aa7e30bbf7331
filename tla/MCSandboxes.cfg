CONSTANTS
    c1 = c1
    c2 = c2
    c3 = c3
    s1 = s1
    s2 = s2
    d = d
    f = f
    g = g
    new = new
    big = big
    all = all
    Calls = {c1, c2, c3}
    Sessions = {s1, s2}
    Paths = {d, f, g}
    Ancestors <- MCAncestors
    Contents = {new, big}
    Size <- MCSize
    WritableRoots = {all}
    DenyPaths = {}
    All = all
    MaxFiles = 1
    MaxBytes = 3
    MaxOperations = 2
    InitialTrees <- MCTrees
SPECIFICATION Spec
SYMMETRY Symmetry
CHECK_DEADLOCK FALSE
INVARIANTS
    SequentialAgreement
    WithinLimits
    NoStrayTemps
