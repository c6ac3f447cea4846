CONSTANTS
    m1 = m1
    m2 = m2
    m3 = m3
    own = own
    NoWork = NoWork
    Messages <- MCMessages
    OwnMessages <- MCOwn
    QueueSize = 1
    ReportAttempts = 2
    MaxRestarts = 1
SPECIFICATION FairSpec
INVARIANTS TypeOK OneRunner StatusTruthful RunsOnce ReportsAgree
PROPERTIES ImplementsWorker AcceptedIsServed
CHECK_DEADLOCK FALSE
