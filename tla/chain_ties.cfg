SPECIFICATION FairSpec
CONSTANTS
    g = g
    a1 = a1
    a2 = a2
    b1 = b1
    b2 = b2
    b3 = b3
    c2 = c2
    Block <- TwoBranches
    Genesis = g
    NoBlock = NoBlock
    Parent <- TwoParents
    Chain <- TwoChains
    Work <- TwoEqual
    BadCheck = {}
    BadConnect = {b2}
    MinBlocksToKeep = 2
    MinimumChainWork = 0
    PruneMode = FALSE
    Restarts = FALSE
    RpcBlocks = {a2, b2}
    ReconsiderBlocks = {a1, a2, b2}
    RpcDuringActivation = FALSE
INVARIANTS
    NoAssertFailure
    FailedBlocksMarked
PROPERTY
    ActivationEnds
