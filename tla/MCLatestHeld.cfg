\* --latest-held, as the governance queue recommends it.
CONSTANTS
    r1 = r1
    r2 = r2
    proposer = proposer
    Run = {r1, r2}
    Proposer = proposer
    Proposals <- MCProposals
    MaxProposals = 2
    MaxActions = 4
    MaxEngineHolds = 1
SPECIFICATION FairSpec
CHECK_DEADLOCK FALSE
PROPERTIES
    LatestHeldIsUnresolved
