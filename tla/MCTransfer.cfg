\* A regular file, a receiver that may time out at any moment.  NBlocks is one
\* more than SeqMod, so every seqnum is used and the first one twice.
SPECIFICATION Spec
CONSTANTS
    SeqMod = 6
    MaxWindow = 2
    AcceptSpan = 3
    AckGap = 2
    DataLife = 2
    AckLife = 2
    NBlocks = 7
    NoPkt = NoPkt
    StreamInput = FALSE
INVARIANTS
    TypeOK
    Inv
    OutputIsPrefix
    AckedIsWritten
    NoOverrun
    ClosedIsWritten
    DisconnectIsLast
    CountsAgree
    ListIsAhead
PROPERTIES
    NackResendsOnlyWritten
    ImplementsFileTransfer
