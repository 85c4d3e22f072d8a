\* The iptables template: two keys of one rule and a second rule, one restart; open, close and shutdown may fail.
CONSTANTS
    r1 = r1
    r2 = r2
    k1 = k1
    k2 = k2
    k3 = k3
    Rule = {r1, r2}
    Key = {k1, k2, k3}
    RuleOf <- MCRuleOf
    Backend = "iptables"
    FoundBy <- MCExact
    RemovedBy <- MCExact
    MaxTimers = 3
    MaxStarts = 1
    HasCheck = TRUE
    HasClose = TRUE
    HasShutdown = TRUE
    OpenMayFail = TRUE
    CloseMayFail = TRUE
    CheckMayErr = FALSE
    ShutdownMayFail = TRUE
SPECIFICATION Spec
INVARIANTS
    TypeOK
    CloserExists
    NoDuplicateRule
    CheckStillHolds
    TrackedTimerIsNewest
    ArmedTimersTracked
    ExitLeavesNoRule
CHECK_DEADLOCK FALSE
