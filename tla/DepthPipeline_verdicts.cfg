SPECIFICATION Spec
CONSTANTS
    Runs = {r1}
    NoRow = NoRow
    Outcomes <- MCOutcomes
    Envs <- MCEnvs
    Prices = {100}
    Jobs <- MCJobs
    OldBases = {170}
    MaxBegun = 2
    MaxDay = 2
INVARIANTS
    ActionableIsSound
    SizeIsEarned
    KellyHasEdge
    GatesNeverFireOnOwnRows
    DirectionIsOrderFree
CHECK_DEADLOCK FALSE
