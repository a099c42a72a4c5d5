\* The timer check of the sender against its window.
SPECIFICATION Spec
CONSTANTS
    SeqMod = 6
    MaxWindow = 2
    AcceptSpan = 3
    AckGap = 2
    DataLife = 2
    AckLife = 2
    NBlocks = 4
    NoPkt = NoPkt
    StreamInput = FALSE
INVARIANT
    TimersCoverWindow
CHECK_DEADLOCK FALSE
