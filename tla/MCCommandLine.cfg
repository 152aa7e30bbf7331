SPECIFICATION Spec
CONSTANTS
  p1 = p1
  p2 = p2
  Processes = {p1, p2}
  DirectoryIds <- MCDirectoryIds
  ManifestsOf <- MCManifestsOf
  Commands <- MCCommands
  Versions = {1, 2}
  InitialInputs <- MCInitialInputs
  Unreadable = Unreadable
  NoRoute = NoRoute
  Running = Running
  MaxCommands = 3
  MaxEdits = 1
SYMMETRY Symmetry
INVARIANTS
  LockFileIsWhole
  CheckTellsDrift
CHECK_DEADLOCK FALSE
