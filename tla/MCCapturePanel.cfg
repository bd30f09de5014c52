\* What the events tell a panel when a stop and a start overlap.
CONSTANTS
    r1 = r1
    r2 = r2
    r3 = r3
    NoReq = NoReq
    Req = {r1, r2, r3}
    Asked <- MCAsked
    MaxCrashes = 1
SPECIFICATION Spec
SYMMETRY MCSymmetry
CHECK_DEADLOCK FALSE
INVARIANTS
    PanelFollowsTheCapture
