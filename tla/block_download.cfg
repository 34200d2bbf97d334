SPECIFICATION FairSpec
CONSTANTS
    g = g
    a1 = a1
    a2 = a2
    prompt = prompt
    slow = slow
    Block <- Blocks
    Genesis = g
    NoBlock = NoBlock
    Parent <- Parents
    Chain <- Chains
    Work <- Works
    Peer = {prompt, slow}
    NoPeer = NoPeer
    Inbound = {}
    Manual = {prompt}
    Whitelisted = {slow}
    Client = {}
    Serves <- Tips
    Announced = {a1, a2}
    Prompt = {prompt}
    Mined = {a1}
    Imported = {a1, a2}
    NearToday = {a1, a2}
    DirectFetch = {a1, a2}
    MinimumChainWork = 2
    MinBlocksToKeep = 2
    MaxHeadersResults = 2
    MaxBlocksToAnnounce = 2
    MaxBlocksInTransitPerPeer = 1
    BlockDownloadWindow = 1
    MaxProtected = 1
CHECK_DEADLOCK FALSE
INVARIANTS
    InFlightConsistent
    CountersExact
    RequestsBounded
    WindowStartsLinked
PROPERTIES
    NeverAskedTwice
    CatchesUp
