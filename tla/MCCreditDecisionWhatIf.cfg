SPECIFICATION Spec
CONSTANTS
    Tenures <- MCTenures
    Rates <- MCRates
    Files <- MCFiles
    Scale <- MCScale
    MaxRevisions = 2
INVARIANT
    WhatIfAgrees
CHECK_DEADLOCK FALSE
