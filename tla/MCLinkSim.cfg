\* Milliseconds of 2 microseconds, seconds of 2 milliseconds and delays of up to a
\* second and a millisecond; five packets, so
\* that the heap has a third level.
SPECIFICATION Spec
CONSTANTS
    Packets = {p1, p2, p3, p4, p5}
    UsPerMs = 2
    MsPerSec = 2
    Delay = 2
    Jitter = 2
    Simulated = {"forward"}
    MaxTime = 6
SYMMETRY Symmetry
INVARIANTS
    LinkSimInv
    HeadIsLeast
    QueueHoldsQueued
    SleepsNoLonger
PROPERTY
    NeverASecondEarly
CHECK_DEADLOCK FALSE
