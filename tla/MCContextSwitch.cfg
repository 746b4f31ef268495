CONSTANTS
    t1 = t1
    t2 = t2
    timer = timer
    keyboard = keyboard
    d1 = d1
    d2 = d2
    Kernel = Kernel
    Zero = Zero
    Uninitialized = Uninitialized
    CodeSegmentSelector = CodeSegmentSelector
    InterruptsOn = InterruptsOn
    InterruptsOff = InterruptsOff
    Tasks <- MCTasks
    Lines <- MCLines
    Data <- MCData
    TimerLine = timer
    MaxTasks = 2
    Depth = 13
SPECIFICATION Spec
INVARIANTS
    TypeOK
PROPERTIES
    ResumeExact
CHECK_DEADLOCK FALSE
