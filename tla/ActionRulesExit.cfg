\* iptables without a shutdown command: the listener serves on during Shutdown.
CONSTANTS
    r1 = r1
    r2 = r2
    k1 = k1
    k2 = k2
    k3 = k3
    Rule = {r1, r2}
    Key = {k1}
    RuleOf <- MCOneRuleOf
    Backend = "iptables"
    FoundBy <- MCExact
    RemovedBy <- MCExact
    MaxTimers = 2
    MaxStarts = 0
    HasCheck = TRUE
    HasClose = TRUE
    HasShutdown = FALSE
    OpenMayFail = FALSE
    CloseMayFail = FALSE
    CheckMayErr = FALSE
    ShutdownMayFail = FALSE
SPECIFICATION Spec
INVARIANT
    ExitLeavesNoRule
CHECK_DEADLOCK FALSE
