SPECIFICATION Spec
CONSTANTS
    Tenures <- MCTenures
    Rates <- MCRates
    Files <- MCFiles
    Scale <- MCScale
    MaxRevisions = 2
INVARIANTS
    StructureAffordable
    DecisionExplained
    UnchargeableNeverClassA
PROPERTY
    WorseNeverHelps
CHECK_DEADLOCK FALSE
