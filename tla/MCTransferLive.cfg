\* The two programs, started in any order, over a network that is fair; a regular
\* file.
SPECIFICATION FairSpec
CONSTANTS
    SeqMod = 6
    MaxWindow = 2
    AcceptSpan = 3
    AckGap = 2
    DataLife = 2
    AckLife = 1
    NBlocks = 3
    NoPkt = NoPkt
    StreamInput = FALSE
PROPERTIES
    CompletesUnlessMissed
    ReturnUnlessMissed
    ReturnsOrResends
    ImplementsFileTransfer
\* When the sender could not start, the receiver waits in wait_for_client() for ever.
CHECK_DEADLOCK FALSE
