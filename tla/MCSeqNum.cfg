\* The constants of the program.
SPECIFICATION Spec
CONSTANTS
    SeqMod = 256
    MaxWindow = 31
    AcceptSpan = 32
    AckGap = 100
INVARIANTS
    IndIsDistance
    InWindowAgreesWithInd
    AckCoversIffAhead
PROPERTY
    PrevIsInverse
