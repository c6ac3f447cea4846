CONSTANTS
    g1 = g1
    g2 = g2
    n1 = n1
    t1 = t1
    t2 = t2
    a = a
    b = b
    Nothing = Nothing
    Groups <- TwoGroups
    Nodes <- OneNode
    Threads <- TwoThreads
    Managers <- TwoManagers
SPECIFICATION Spec
SYMMETRY Symmetry
INVARIANTS TypeOK NoOrphans ReadsStayTrue
