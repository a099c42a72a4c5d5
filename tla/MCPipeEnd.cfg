\* A pipe of one block, read to its end.
SPECIFICATION FairSpec
CONSTANTS
    SeqMod = 6
    MaxWindow = 2
    AcceptSpan = 3
    AckGap = 2
    DataLife = 2
    AckLife = 2
    NBlocks = 1
    NoPkt = NoPkt
    StreamInput = TRUE
PROPERTY
    ClosesWhenFinished
CHECK_DEADLOCK FALSE
