CONSTANTS
    j1 = j1
    j2 = j2
    c1 = c1
    NoAgent = NoAgent
    Jobs <- TwoJobs
    Children <- OneChild
    MaxSubtasks = 1
    MaxVersion = 4
    MaxFailures = 2
    MaxRestarts = 2
SPECIFICATION Spec
SYMMETRY Symmetry
INVARIANTS TypeOK AnsweredSurvives ShownIsKept
CHECK_DEADLOCK FALSE
