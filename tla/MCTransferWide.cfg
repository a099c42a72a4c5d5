\* A window of three, where a packet can stay in the list across a drain and a
\* NACK can leave more packets outstanding than the halved window allows; the
\* input is a pipe that fills while the transfer runs, and one read() of it fails.
SPECIFICATION ErrorsSpec
CONSTANTS
    SeqMod = 7
    MaxWindow = 3
    AcceptSpan = 3
    AckGap = 2
    DataLife = 3
    AckLife = 1
    NBlocks = 4
    NoPkt = NoPkt
    StreamInput = TRUE
    Leftovers = {"zero", "short", "long"}
    MaxErrors = 1
INVARIANTS
    KeptInPlace
    EndsAtError
PROPERTY
    ImplementsStalled
\* A sender that closed at once and lost its closing packet leaves a receiver that
\* waits in wait_for_client() for ever.
CHECK_DEADLOCK FALSE
