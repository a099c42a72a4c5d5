\* A ring of 4 slots on 10 seqnums, so the two go round at different times.
SPECIFICATION FairSpec
CONSTANTS
    SeqMod = 10
    MaxWindow = 4
    AcceptSpan = 5
    AckGap = 3
    Null = Null
INVARIANTS
    QueueInv
    RingHoldsLast
PROPERTIES
    GetIsLookup
    LoopsAreLookups
    SearchEnds
