\* The tabs of a deleted space, with one handler at a time.
CONSTANTS
    a = a
    b = b
    c = c
    w1 = w1
    w2 = w2
    work = work
    personal = personal
    research = research
    spare = spare
    k1 = k1
    k2 = k2
    NoTab = NoTab
    NoWindow = NoWindow
    NoSpace = NoSpace
    NoSlot = NoSlot
    Tab = {a, b, c}
    Window = {w1, w2}
    WindowOf <- MCWindowOf
    Session <- MCSession
    Space = {work, personal, research, spare}
    MaxHandlers = 3
    MaxRestarts = 0
    MaxFailures = 0
    MaxOverlapping = 2
    MaxDisturbances = 0
    Slot = {k1, k2}
SPECIFICATION Spec
SYMMETRY MCSymmetry
CONSTRAINT MCBound
INVARIANTS
    UnassignedTabsStayVisible
