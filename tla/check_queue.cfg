SPECIFICATION FairSpec
CONSTANTS
    Check = {c1, c2, c3, c4}
    BadCheck = {c1}
    Worker = {w1, w2}
    Master = Master
    nBatchSize = 2
INVARIANTS
    VerdictCorrect
    UnusedBetweenBlocks
PROPERTY
    WaitReturns
