CONSTANTS
    Start = 5
    HeaderSize = 2
    Word = 32
    HeapSizes <- MCHeapSizes
    Sizes <- MCSizes
SPECIFICATION Spec
INVARIANTS
    TypeOK
    HeapTiled
    Coalesced
    HeldIntact
PROPERTIES
    FailsOnlyWhenFull
    MallocReturns
    CallersSpec
