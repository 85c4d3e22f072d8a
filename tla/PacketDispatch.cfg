\* Five packets from two senders against three access files of two stanzas, and two files that do not load.
CONSTANTS
    Packet <- MCPacket
    Msg <- MCMsg
    Address <- MCAddress
    AddrOf <- MCAddrOf
    Fold <- MCFold
    Unspecified <- MCUnspecified
    NoUser = "none"
    Policies <- MCPolicies
    Covers <- MCCovers
    AnySource = "ANY"
    AllNets <- MCAllNets
    NoKey = "no key"
    DefaultTimeout = 3
    DefaultMaxTimeout = 4
    Test = FALSE
    IntBits = 4
    TimeoutBits = 3
SPECIFICATION FairSpec
INVARIANTS
    TypeOK
    ActsWithinPolicy
    FirstMatchDecides
    ActsOnce
    RefusalIsFinal
    TimeoutBounded
PROPERTY
    ListenerReturns
