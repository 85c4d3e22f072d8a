\* Two process numbers, two starts, one terminal; an init command that keeps the rules, as with iptables.
CONSTANTS
    Files <- MCFiles
    DefaultFile = "server.yaml"
    Defaults <- MCDefaults
    FlagDefaults <- MCFlagDefaults
    Pid = {p1, p2}
    Invocation <- MCInvocation
    Admin = {a1}
    Path = {"run", "alt", "default"}
    Port = {62201, 62202}
    Missing = Missing
    Empty = Empty
    Nobody = Nobody
    InitFlushes = FALSE
    MaxStarts = 2
SPECIFICATION FairSpec
INVARIANTS
    TypeOK
    FileNamesServer
    StaleExplained
    StatusHonest
    TargetIsServer
    OrphansExplained
PROPERTY
    SignalStops
