\* Two packets, a TTL of 3 ticks, a tight margin: MaxPause = MinTransit - 1.
CONSTANTS
    Packet = {p1, p2}
    Stamps <- MCStamps
    MaxAge = 3
    MinPurge = 2
    MinTransit = 2
    MaxPause = 1
    Offsets <- MCOffsets
    LeastOffset <- MCLeastOffset
    MaxTime = 9
    MaxRestarts = 1
SPECIFICATION Spec
INVARIANTS
    TypeOK
    AtMostOnce
    EntryOutlivesValidity
    DecisionStillValid
    EntryLifetimeBounded
PROPERTY
    ImplementsAdmission
