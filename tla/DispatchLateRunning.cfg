CONSTANTS
    j1 = j1
    f1 = f1
    NoAgent = NoAgent
    Children <- OneChild
    Jobs <- OneJob
    Forwards <- NoForward
    MaxSubtasks = 1
    Capacity = 1
    ReportAttempts = 2
    RoundRobinCycle = 2
    JobDb = FALSE
    Faulty = FALSE
    MaxRestarts = 0
CHECK_DEADLOCK FALSE
SPECIFICATION Spec
INVARIANT AllCompletedDecidesJob
