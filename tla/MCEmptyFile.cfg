\* An empty file: the closing packet is the only one.
SPECIFICATION FairSpec
CONSTANTS
    SeqMod = 6
    MaxWindow = 2
    AcceptSpan = 3
    AckGap = 2
    DataLife = 2
    AckLife = 2
    NBlocks = 0
    NoPkt = NoPkt
    StreamInput = FALSE
PROPERTY
    ReceiverStops
CHECK_DEADLOCK FALSE
