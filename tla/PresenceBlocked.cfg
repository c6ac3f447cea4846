CONSTANTS
    a1 = a1
    a2 = a2
    Agents <- TwoAgents
    Interval = 3
    Timeout = 9
    Latency = 1
    Patience = 12
    MaxBlock = 12
    Losses = 0
    Delays = 0
SPECIFICATION Spec
INVARIANT BusyIsNotOffline
