SPECIFICATION FairSpec
CONSTANTS
    g = g
    a1 = a1
    a2 = a2
    b1 = b1
    b2 = b2
    b3 = b3
    c2 = c2
    Block <- ThreeBranches
    Genesis = g
    NoBlock = NoBlock
    Parent <- ThreeParents
    Chain <- ThreeChains
    Work <- ThreeDistinct
    BadCheck = {c2}
    BadConnect = {b2}
    MinBlocksToKeep = 2
    MinimumChainWork = 3
    PruneMode = FALSE
    Restarts = FALSE
    RpcBlocks = {}
    ReconsiderBlocks = {}
    RpcDuringActivation = FALSE
INVARIANTS
    ActiveChainValidated
PROPERTIES
    RefinesForkChoice
    ValidChainActivated
