CONSTANTS
    j1 = j1
    f1 = f1
    NoAgent = NoAgent
    Children <- TwoChildren
    Jobs <- OneJob
    Forwards <- NoForward
    MaxSubtasks = 2
    Capacity = 2
    ReportAttempts = 2
    RoundRobinCycle = 2
    JobDb = FALSE
    Faulty = TRUE
    MaxRestarts = 1
CHECK_DEADLOCK FALSE
SPECIFICATION FairSpec
PROPERTIES CoroutinesEnd BacklogsDrain ResultsArrive
INVARIANT UndecidedIsAttended
