CONSTANTS
    a1 = a1
    a2 = a2
    Agents <- OneAgent
    Interval = 3
    Timeout = 9
    Latency = 1
    Patience = 12
    MaxBlock = 12
    Losses = 2
    Delays = 1
SPECIFICATION FairSpec
INVARIANT AliveIsNotOffline
PROPERTY RowFollows
