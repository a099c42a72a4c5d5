\* A pipe that is slower than the poll timeout.
SPECIFICATION Spec
CONSTANTS
    SeqMod = 6
    MaxWindow = 2
    AcceptSpan = 3
    AckGap = 2
    DataLife = 2
    AckLife = 2
    NBlocks = 2
    NoPkt = NoPkt
    StreamInput = TRUE
INVARIANT
    ClosesOnlyWhenFinished
CHECK_DEADLOCK FALSE
