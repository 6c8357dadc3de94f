\* One peer; the channels hold two calls each.
CONSTANTS
    Heads = {A, B}
    QueueCap = 2
    NoHead = NoHead
    Nil = Nil
SPECIFICATION FairSpec
INVARIANTS
    TypeOK
    RegressionsBounded
PROPERTY PeerFollowsClient
