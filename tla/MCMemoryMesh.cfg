CONSTANTS
    t1 = t1
    t2 = t2
    t3 = t3
    watch = watch
    push = push
    pull = pull
    s1 = s1
    s2 = s2
    Shell = Shell
    Summarizer = Summarizer
    Others = Others
    Blocker = Blocker
    Sidecar = Sidecar
    Tool = {t1, t2, t3}
    Bridge = {watch, push, pull}
    Syncer = {s1, s2}
    Mode <- MCMode
    MeshLimit = 2
    Window = 1
    MaxRecords = 3
    MaxEvents = 2
    MaxKills = 1
    MaxSummaries = 1
    Notes <- MCNotes
    MaxReceipts = 2
    Blocks = {1}
    Actor <- MCActor
    Emissions <- MCEmissions
    Kinds = {"note", "status"}
    Deployments <- MCDeployments
SPECIFICATION FairSpec
CHECK_DEADLOCK FALSE
INVARIANTS
    SecondDecisionNeedsAStaleView
    EventsTellTheRecords
    SyncedWasPassedOn
    SyncedOnceUndisturbed
    CursorPassesOnlyHandled
    ForwardedOnceUndisturbed
PROPERTIES
    LedgerSpec
    EverythingIsPassedOn
