\* A window of 5 on 12 seqnums; the heap gives zeroed memory.
SPECIFICATION Spec
CONSTANTS
    SeqMod = 12
    MaxWindow = 5
    AcceptSpan = 6
    AckGap = 4
    Null = Null
    Garbage = Garbage
    ZeroedHeap = TRUE
INVARIANTS
    ListInv
    PeekInBounds
    RefusesOnlyDuplicates
PROPERTY
    ImplementsReorderBuffer
