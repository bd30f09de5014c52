\* One bridge that is asked two actions, one request to the agent machine, one
\* follower, pushes without end, one at a time in the buffer, and one failed
\* write.  No deadlock check: a session ends.
CONSTANTS
    b = b
    browser = browser
    g1 = g1
    f1 = f1
    NoEvent = NoEvent
    NoMethod = NoMethod
    Bridge = b
    Requests = {g1}
    Followers = {f1}
    BridgeCommands <- MCBridgeCommands
    GateRequests <- MCGateRequests
    Endpoints = {"remote", "loopback"}
    Browser = browser
    Deployments <- MCDeployments
    MaxPushes = 1
    MaxFaults = 1
SPECIFICATION FairSpec
CHECK_DEADLOCK FALSE
INVARIANTS
    ActsOnlyAsPermitted
    DispatchedWasDone
    CommandsAreAccountedFor
    ReceiptsAreComplete
    ReceiptCoversTheWire
    FollowersSeeRunsInOrder
    MissedOnlyWhatWasCut
PROPERTIES
    CallsReturn
