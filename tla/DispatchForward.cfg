CONSTANTS
    j1 = j1
    f1 = f1
    NoAgent = NoAgent
    Children <- TwoChildren
    Jobs <- OneJob
    Forwards <- OneForward
    MaxSubtasks = 1
    Capacity = 1
    ReportAttempts = 2
    RoundRobinCycle = 2
    JobDb = TRUE
    Faulty = TRUE
    MaxRestarts = 1
CHECK_DEADLOCK FALSE
SPECIFICATION Spec
INVARIANTS TypeOK StatusIsRollUp HeldByAssignee RunsAtMostOnce BeliefHasCause
           UndecidedIsAttended ForwardAvoidsSource
