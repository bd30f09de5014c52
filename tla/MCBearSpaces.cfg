\* Two windows, with two tabs and one; three spaces for a new install and one more;
\* two handlers at a time.
CONSTANTS
    a = a
    b = b
    c = c
    w1 = w1
    w2 = w2
    work = work
    personal = personal
    research = research
    spare = spare
    k1 = k1
    k2 = k2
    NoTab = NoTab
    NoWindow = NoWindow
    NoSpace = NoSpace
    NoSlot = NoSlot
    Tab = {a, b, c}
    Window = {w1, w2}
    WindowOf <- MCWindowOf
    Session <- MCSession
    Space = {work, personal, research, spare}
    MaxHandlers = 3
    MaxRestarts = 1
    MaxFailures = 1
    MaxOverlapping = 2
    MaxDisturbances = 1
    Slot = {k1, k2}
SPECIFICATION Spec
SYMMETRY MCSymmetry
CONSTRAINT MCBound
INVARIANTS
    TypeOK
    StorageFollowsMemory
    StoredReferencesResolve
    ActiveSpaceIsVisible
    NoSpaceShowsWindow
