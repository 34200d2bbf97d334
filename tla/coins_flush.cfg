SPECIFICATION FairSpec
CONSTANTS
    g = g
    a1 = a1
    b1 = b1
    b2 = b2
    p = p
    q = q
    r = r
    NoBlock = NoBlock
    Genesis = g
    Block <- Fork
    Parent <- ForkParent
    Chain <- ForkChain
    Work <- ForkWork
    Outpoint = {p, q, r}
    Spends <- ForkSpends
    Creates <- ForkCreates
    Utxo <- ForkUtxo
    KeepBlocks = 1
    MaxCrashes = 2
CHECK_DEADLOCK FALSE
INVARIANTS
    UtxoExact
    HeadsMatch
PROPERTY
    Recovers
