CONSTANTS
    l1 = l1
    l2 = l2
    u1 = u1
    u2 = u2
    c1 = c1
    Launcher = {l1, l2}
    Caller = {c1}
    Process = {l1, l2, c1}
    Updater = {u1, u2}
    Policies <- MCPolicies
    Asks <- MCAsks
    Given = {"revoked", "orphaned"}
    Deployments <- MCDeployments
    MaxFaults = 1
SPECIFICATION FairSpec
CHECK_DEADLOCK FALSE
INVARIANTS
    LiveSessionsAreCovered
    LogTellsTheFile
    RevocationIsKept
PROPERTIES
    SessionsAreSettled
