\* Two proposals and two processes, and room for every record they can write.
\* No deadlock check: every process runs once, then nothing is left to do.
CONSTANTS
    r1 = r1
    r2 = r2
    proposer = proposer
    Run = {r1, r2}
    Proposer = proposer
    Proposals <- MCProposals
    MaxProposals = 2
    MaxActions = 4
    MaxEngineHolds = 1
SPECIFICATION Spec
SYMMETRY RunSymmetry
CHECK_DEADLOCK FALSE
INVARIANTS
    DecisionsFollowTheirAction
    EventsMatchRecords
    QueuesDecideHoldsOnly
PROPERTIES
    LedgerSpec
