\* Clicks in the status bar menu.
CONSTANTS
    r1 = r1
    r2 = r2
    proposer = proposer
    Run = {r1, r2}
    Proposer = proposer
    Proposals <- MCProposals
    MaxProposals = 2
    MaxActions = 4
    MaxEngineHolds = 1
SPECIFICATION Spec
CHECK_DEADLOCK FALSE
INVARIANTS
    ClicksLeaveADecision
