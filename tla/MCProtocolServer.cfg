SPECIFICATION Spec
CONSTANTS
    q1 = q1
    q2 = q2
    dx = dx
    dy = dy
    ix = ix
    Nothing = Nothing
    Requests = {q1, q2}
    Kinds <- MCKinds
    DirectoryIds <- MCDirectoryIds
    ManifestsOf <- MCManifestsOf
    PortStatuses = {400}
    MaxEdits = 2
INVARIANTS
    AnswersTellOutcome
    AnswersAgree
PROPERTIES
    EveryRequestAnswered
CHECK_DEADLOCK FALSE
