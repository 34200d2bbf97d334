SPECIFICATION Spec
CONSTANTS
    g = g
    a1 = a1
    a2 = a2
    b1 = b1
    b2 = b2
    b3 = b3
    c2 = c2
    Block <- TwoBranches
    Genesis = g
    NoBlock = NoBlock
    Parent <- TwoParents
    Chain <- TwoChains
    Work <- TwoDistinct
    BadCheck = {}
    BadConnect = {b3}
    MinBlocksToKeep = 1
    MinimumChainWork = 0
    PruneMode = TRUE
    Restarts = TRUE
    RpcBlocks = {a1, b1, b2}
    ReconsiderBlocks = {}
    RpcDuringActivation = FALSE
INVARIANTS
    CandidateReady
    ActiveChainNotFailed
    BestChain
    StepDataPresent
    NoBlockForgotten
