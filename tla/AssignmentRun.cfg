CONSTANTS
    m1 = m1
    own = own
    slash = slash
    backslash = backslash
    other = other
    dotdot = dotdot
    key = key
    otherKey = otherKey
    Ref = Ref
    NoWork = NoWork
    Messages <- MCMessages
    OwnMessages <- MCOwn
    Files <- MCFiles
    Keys <- MCKeys
    KeyOf <- MCKeyOf
    Refused = Ref
    Executors <- AllExecutors
    QueueSize = 1
    ReportAttempts = 2
    MaxRestarts = 1
    MaxSteps = 3
SPECIFICATION RunSpec
INVARIANTS ReportedAreStored CompletedIsWhole WorkspaceIsGone
PROPERTIES ImplementsMailbox
CHECK_DEADLOCK FALSE
