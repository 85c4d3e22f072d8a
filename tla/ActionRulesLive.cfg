\* firewalld keeps rules as a set and expires them, and check may err: promises and liveness.
CONSTANTS
    r1 = r1
    r2 = r2
    k1 = k1
    k2 = k2
    k3 = k3
    Rule = {r1, r2}
    Key = {k1, k2}
    RuleOf <- MCPlainRuleOf
    Backend = "firewalld"
    FoundBy <- MCExact
    RemovedBy <- MCExact
    MaxTimers = 3
    MaxStarts = 1
    HasCheck = TRUE
    HasClose = TRUE
    HasShutdown = TRUE
    OpenMayFail = TRUE
    CloseMayFail = FALSE
    CheckMayErr = TRUE
    ShutdownMayFail = TRUE
SPECIFICATION FairSpec
PROPERTIES
    ShutdownCompletes
    ImplementsAccessWindow
CHECK_DEADLOCK FALSE
