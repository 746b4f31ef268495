CONSTANTS
    t1 = t1
    t2 = t2
    t3 = t3
    p1 = p1
    p2 = p2
    Kernel = Kernel
    Tasks <- MCTasks
    Positions <- MCPositions
    Built = p1
    MaxTasks = 4
SPECIFICATION Spec
INVARIANTS
    TypeOK
    OwnStack
    NothingLost
PROPERTIES
    NoTaskStarves
    QueueSpec
