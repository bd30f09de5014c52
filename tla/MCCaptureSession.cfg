\* Three requests and one end of the sidecar.  No deadlock check: every request
\* is sent once.  No symmetry: one property is a liveness property.
CONSTANTS
    r1 = r1
    r2 = r2
    r3 = r3
    NoReq = NoReq
    Req = {r1, r2, r3}
    Asked <- MCAsked
    MaxCrashes = 1
SPECIFICATION FairSpec
CHECK_DEADLOCK FALSE
INVARIANTS
    CaptureIsInTheSlot
    EffectsArePermitted
    EventsTellTheLife
PROPERTIES
    StopEndsTheCapture
