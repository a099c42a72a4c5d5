\* Payloads of up to two bytes, two seqnums, two windows.
SPECIFICATION Spec
CONSTANTS
    MaxWindow = 1
    MaxSeqnum = 1
    MaxPayload = 2
    Byte = {b0, b1}
    Junk = Junk
INVARIANTS
    CodecInv
    AcceptedIsSent
PROPERTY
    HonestIsAccepted
