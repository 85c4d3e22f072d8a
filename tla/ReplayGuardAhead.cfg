\* A client whose clock runs two ticks ahead of the server; the wall clock is steady.
CONSTANTS
    Packet = {p1, p2}
    Stamps <- MCStamps
    MaxAge = 3
    MinPurge = 2
    MinTransit <- MCAhead
    MaxPause = 0
    Offsets <- MCSteady
    LeastOffset = 0
    MaxTime = 9
    MaxRestarts = 0
SPECIFICATION Spec
INVARIANT
    AtMostOnce
